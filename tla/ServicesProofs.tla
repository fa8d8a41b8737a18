--------------------------- MODULE ServicesProofs ---------------------------
(***************************************************************************)
(* What was proved of each service holds of the six together: a step of    *)
(* Services is a step of one service or none of it for every other, so     *)
(* Services implements the specification of each, under the values it      *)
(* gives their constants.                                                  *)
(*                                                                         *)
(* The shadow recorder is proved here, for any number of events, lives and *)
(* faults and any size of queue and batch: what was received is queued,    *)
(* being written, on record once or known to be lost, and a terminal       *)
(* heartbeat stands until the next life.                                   *)
(*                                                                         *)
(* So are the books, for any symbols, queue, batch and number of faults.   *)
(* What the engine has to read are the events after its last one in the    *)
(* order of their publication, with gaps where the queue was emptied; each *)
(* gap ends in resets, or shows in the numbers.                            *)
(***************************************************************************)
EXTENDS Services, Sums, SequenceTheorems, TLAPS

-----------------------------------------------------------------------------
(* The services together *)

\* The values that Services gives the constants are such as the proofs assume.
LEMMA ValuesAreAllowed ==
  /\ Study!Bounds /\ Forward!Bounds
  /\ \A v, w \in {"w1"} : v = w
  /\ "none" \notin {"p1", "p2"} /\ "none" \notin {"w1"}
  /\ "none" \notin {"e1"} /\ "none" \notin {"b1", "b2"}
  /\ Scalp!IsFiniteSet({"b1", "b2"})
<1> DEFINE both == <<"b1", "b2">>
<1>1. /\ both \in Seq({"b1", "b2"}) /\ Len(both) = 2
      /\ both[1] = "b1" /\ both[2] = "b2"
  OBVIOUS
<1> HIDE DEF both
<1>2. \A s \in {"b1", "b2"} : \E n \in 1..Len(both) : both[n] = s
  BY <1>1
<1>3. Scalp!IsFiniteSet({"b1", "b2"})
  BY <1>1, <1>2 DEF Scalp!IsFiniteSet
<1>4. {1, 2} # {} /\ {1, 2} \subseteq 0..2 /\ 2 \in Nat
  OBVIOUS
<1>5. Forward!Bounds
  BY <1>4, NoneAssumption DEF Forward!Bounds
<1> QED  BY <1>3, <1>5 DEF Study!Bounds

\* The steps of a service are its own or none.
LEMMA EachServiceRuns ==
  Spec => /\ Scalp!Spec /\ Paper!Spec /\ Books!Spec /\ Shadow!Spec /\ Study!Spec /\ Forward!Spec
<1>1. Init => /\ Scalp!Init /\ Paper!Init /\ Books!Init
              /\ Shadow!Init /\ Study!Init /\ Forward!Init
  BY DEF Init
<1>2. ASSUME [Next]_vars
      PROVE  /\ [Scalp!Next]_Scalp!vars /\ [Paper!Next]_Paper!vars /\ [Books!Next]_Books!vars
             /\ [Shadow!Next]_Shadow!vars /\ [Study!Next]_Study!vars
             /\ [Forward!Next]_Forward!vars
  <2> USE DEF scalp, paper, books, shadow, study, forward,
              Scalp!vars, Paper!vars, Books!vars, Shadow!vars, Study!vars,
              Forward!vars, Forward!memory
  <2>1. CASE InScalp /\ Scalp!Next
    BY <2>1 DEF InScalp
  <2>2. CASE InPaper /\ Paper!Next
    BY <2>2 DEF InPaper
  <2>3. CASE InBooks /\ Books!Next
    BY <2>3 DEF InBooks
  <2>4. CASE InShadow /\ Shadow!Next
    BY <2>4 DEF InShadow
  <2>5. CASE InStudy /\ Study!Next
    BY <2>5 DEF InStudy
  <2>6. CASE InForward /\ Forward!Next
    BY <2>6 DEF InForward
  <2>7. CASE UNCHANGED vars
    BY <2>7 DEF vars
  <2> QED  BY <1>2, <2>1, <2>2, <2>3, <2>4, <2>5, <2>6, <2>7 DEF Next
<1> QED
  BY <1>1, <1>2, PTL
  DEF Spec, Scalp!Spec, Paper!Spec, Books!Spec, Shadow!Spec, Study!Spec, Forward!Spec

-----------------------------------------------------------------------------
(* The shadow recorder *)

\* The bounds are numbers (ShadowRecorderSettings wants them positive).
ShadowBounds ==
    /\ MaxEvents \in Nat /\ MaxLives \in Nat /\ MaxShadowFaults \in Nat
    /\ ShadowCapacity \in Nat \ {0} /\ ShadowBatchSize \in Nat \ {0} /\ Attempts \in Nat \ {0}

-----------------------------------------------------------------------------
(* Its invariant *)

\* The queue holds events that were received, each once, in their order.
QueueInv ==
    /\ \A i \in 1..Len(queue) : queue[i] \in 1..received
    /\ \A i, j \in 1..Len(queue) : i < j => queue[i] < queue[j]

\* The writer holds a batch while it writes one, which takes a process; what
\* it holds was received and has left the queue.  It is over when nothing is
\* left to write, and dead in a process that will have failed.
WriterInv ==
    /\ writer.state # "writing" => writer.events = {} /\ writer.gaps = {}
    /\ writer.state = "writing" => Shadow!Active
    /\ writer.events \subseteq 1..received
    /\ \A i \in 1..Len(queue) : queue[i] \notin writer.events
    /\ writer.state = "over" => ~ Shadow!MoreToWrite /\ worker.state \in {"draining", "stopped", "failed"}
    /\ writer.state = "dead" => worker.state \in {"draining", "failed"} /\ worker.ending = "failed"

\* The batch that is being written has the last number.
Writing(a) == writer.state = "writing" /\ a.batch = Shadow!BatchId(worker.batches, writer.tries)

\* What an audit names was received and has left the queue.  The audit with
\* the number of the batch being written is that batch, all of which is on
\* record; every other audit shares no event with it.
AuditInv ==
    \A a \in store.audits :
        /\ \E n \in 0..worker.batches : a.batch = <<n, 0>>
        /\ a.events \subseteq 1..received
        /\ \A i \in 1..Len(queue) : queue[i] \notin a.events
        /\ Writing(a) => /\ a.events = writer.events
                         /\ writer.events \subseteq store.rows
                         /\ writer.gaps \subseteq store.gaps
        /\ ~ Writing(a) => a.events \cap writer.events = {}

\* A process that is not there beats no more, and the first life is the one
\* that finds no row.
BeatInv ==
    /\ pulse = "beating" => Shadow!Active
    /\ beat = "none" => worker.state = "new" /\ received = 0

RecorderInv == Shadow!TypeOK /\ QueueInv /\ WriterInv /\ AuditInv /\ BeatInv /\ Shadow!EventsAccounted

-----------------------------------------------------------------------------
(* Lemmas *)

\* What Gather takes from the queue and what it leaves.
LEMMA QueueSplits ==
  ASSUME NEW S, NEW q \in Seq(S), NEW n \in 0..Len(q)
  PROVE  /\ SubSeq(q, 1, n) \in Seq(S)
         /\ Shadow!ToSet(SubSeq(q, 1, n)) = {q[i] : i \in 1..n}
         /\ SubSeq(q, n + 1, Len(q)) \in Seq(S)
         /\ Len(SubSeq(q, n + 1, Len(q))) = Len(q) - n
         /\ \A i \in 1..(Len(q) - n) : SubSeq(q, n + 1, Len(q))[i] = q[n + i]
<1>1. Len(q) \in Nat /\ n \in Nat /\ n <= Len(q) /\ \A i \in 1..Len(q) : q[i] \in S
  OBVIOUS
<1>2. /\ SubSeq(q, 1, n) \in Seq(S)
      /\ Len(SubSeq(q, 1, n)) = IF 1 <= n THEN n - 1 + 1 ELSE 0
      /\ \A i \in 1..(n - 1 + 1) : SubSeq(q, 1, n)[i] = q[1 + i - 1]
  <2>1. \A i \in 1..n : q[i] \in S
    BY <1>1
  <2> QED  BY <1>1, <2>1, SubSeqProperties
<1>3. /\ SubSeq(q, n + 1, Len(q)) \in Seq(S)
      /\ Len(SubSeq(q, n + 1, Len(q))) = IF n + 1 <= Len(q) THEN Len(q) - (n + 1) + 1 ELSE 0
      /\ \A i \in 1..(Len(q) - (n + 1) + 1) : SubSeq(q, n + 1, Len(q))[i] = q[n + 1 + i - 1]
  <2>1. \A i \in (n + 1)..Len(q) : q[i] \in S
    BY <1>1
  <2>2. n + 1 \in Int /\ Len(q) \in Int
    BY <1>1
  <2> QED  BY <2>1, <2>2, SubSeqProperties
<1>4. Len(SubSeq(q, 1, n)) = n /\ DOMAIN SubSeq(q, 1, n) = 1..n
  BY <1>1, <1>2
<1>5. \A i \in 1..n : SubSeq(q, 1, n)[i] = q[i]
  <2> TAKE i \in 1..n
  <2>1. i \in 1..(n - 1 + 1) /\ 1 + i - 1 = i
    BY <1>1
  <2> QED  BY <1>2, <2>1
<1>6. Shadow!ToSet(SubSeq(q, 1, n)) = {q[i] : i \in 1..n}
  BY <1>4, <1>5 DEF Shadow!ToSet
<1>7. Len(SubSeq(q, n + 1, Len(q))) = Len(q) - n
  BY <1>1, <1>3
<1>8. ASSUME NEW i \in 1..(Len(q) - n) PROVE SubSeq(q, n + 1, Len(q))[i] = q[n + i]
  <2>1. i \in 1..(Len(q) - (n + 1) + 1) /\ n + 1 + i - 1 = n + i
    BY <1>1
  <2> QED  BY <1>3, <2>1
<1> QED  BY <1>2, <1>3, <1>6, <1>7, <1>8

\* What a step of the writer leaves to Gather: the part of the queue that
\* makes a batch.
LEMMA BatchFits ==
  ASSUME ShadowBounds, Shadow!TypeOK
  PROVE  (IF Len(queue) < ShadowBatchSize THEN Len(queue) ELSE ShadowBatchSize) \in 0..Len(queue)
<1>1. Len(queue) \in Nat /\ ShadowBatchSize \in Nat
  BY DEF ShadowBounds, Shadow!TypeOK
<1> QED  BY <1>1

\* The elements of a sequence that grows by one.
LEMMA AppendSet ==
  ASSUME NEW S, NEW q \in Seq(S), NEW e \in S
  PROVE  /\ Append(q, e) \in Seq(S)
         /\ Len(Append(q, e)) = Len(q) + 1
         /\ \A i \in 1..Len(q) : Append(q, e)[i] = q[i]
         /\ Append(q, e)[Len(q) + 1] = e
         /\ Shadow!ToSet(Append(q, e)) = Shadow!ToSet(q) \cup {e}
<1>1. /\ Append(q, e) \in Seq(S)
      /\ Len(q) \in Nat
      /\ Len(Append(q, e)) = Len(q) + 1
      /\ \A i \in 1..Len(q) : Append(q, e)[i] = q[i]
      /\ Append(q, e)[Len(q) + 1] = e
  OBVIOUS
<1>2. DOMAIN q = 1..Len(q) /\ DOMAIN Append(q, e) = 1..(Len(q) + 1)
  BY <1>1
<1>3. 1..(Len(q) + 1) = (1..Len(q)) \cup {Len(q) + 1}
  BY <1>1
<1> QED  BY <1>1, <1>2, <1>3 DEF Shadow!ToSet

-----------------------------------------------------------------------------
(* The initial state *)

LEMMA InitRecorder == ASSUME ShadowBounds, Shadow!Init PROVE RecorderInv
<1> USE DEF Shadow!Init, Shadow!NoBatch
<1>1. Len(<<>>) = 0 /\ <<>> \in Seq(Shadow!Id) /\ 1..0 = {}
  OBVIOUS
<1>2. Shadow!TypeOK
  BY <1>1 DEF Shadow!TypeOK, ShadowBounds, Shadow!Id, Shadow!Ended
<1>3. QueueInv /\ WriterInv /\ AuditInv /\ BeatInv /\ Shadow!EventsAccounted
  BY <1>1 DEF QueueInv, WriterInv, AuditInv, BeatInv, Shadow!EventsAccounted
<1> QED  BY <1>2, <1>3 DEF RecorderInv

-----------------------------------------------------------------------------
(* The steps *)

\* The types over a step.
LEMMA RecorderTypes == ASSUME ShadowBounds, Shadow!TypeOK, [Shadow!Next]_Shadow!vars PROVE Shadow!TypeOK'
<1> USE DEF ShadowBounds, Shadow!TypeOK, Shadow!NoBatch, Shadow!Fault, Shadow!NoFault,
            Shadow!memory, Shadow!Ended, Shadow!Active
<1> DEFINE Workers == [state : {"new", "running", "draining"} \cup Shadow!Ended,
                       ending : {"stopped", "failed"}, life : 0..MaxLives, batches : Nat]
<1>1. CASE Shadow!Start
  <2>1. (1..received) \ Shadow!Known \subseteq Shadow!Id
    BY DEF Shadow!Id
  <2>2. <<>> \in Seq(Shadow!Id) /\ Len(<<>>) = 0
    OBVIOUS
  <2>3. worker.life + 1 \in 0..MaxLives
    BY <1>1 DEF Shadow!Start
  <2>4. worker' \in Workers
    BY <1>1, <2>3 DEF Shadow!Start
  <2> QED  BY <1>1, <2>1, <2>2, <2>4 DEF Shadow!Start
<1>2. CASE Shadow!Stop
  <2>1. worker' \in Workers
    BY <1>2 DEF Shadow!Stop
  <2>2. UNCHANGED <<received, Shadow!memory, writer, pulse, store, beat>> /\ shadowFaults' \in 0..MaxShadowFaults
    BY <1>2 DEF Shadow!Stop
  <2> QED  BY <2>1, <2>2
<1>3. CASE Shadow!End
  <2>1. worker' \in Workers
    BY <1>3 DEF Shadow!End
  <2>2. /\ UNCHANGED <<received, Shadow!memory, writer, pulse, store>>
        /\ beat' \in {beat, worker.ending} /\ shadowFaults' \in 0..MaxShadowFaults
    BY <1>3 DEF Shadow!End
  <2> QED  BY <2>1, <2>2
<1>4. CASE Shadow!Crash
  <2>1. worker' \in Workers
    BY <1>4 DEF Shadow!Crash
  <2>2. /\ UNCHANGED <<received, Shadow!memory, store, beat>> /\ shadowFaults' \in 0..MaxShadowFaults
        /\ writer' = Shadow!NoBatch /\ pulse' = "idle"
    BY <1>4 DEF Shadow!Crash
  <2> QED  BY <2>1, <2>2
<1>5. CASE Shadow!Receive
  <2>1. received' \in Shadow!Id /\ received' \in 0..MaxEvents
    BY <1>5 DEF Shadow!Receive, Shadow!Id
  <2>2. CASE Shadow!Full
    BY <1>5, <2>1, <2>2 DEF Shadow!Receive
  <2>3. CASE ~ Shadow!Full
    <3>1. /\ queue' = Append(queue, received') /\ Len(queue) < ShadowCapacity
          /\ UNCHANGED <<overflow, worker, notices, writer, pulse, store, beat, shadowFaults>>
      BY <1>5, <2>3 DEF Shadow!Receive, Shadow!Full
    <3>2. queue' \in Seq(Shadow!Id) /\ Len(queue') = Len(queue) + 1
      BY <3>1, <2>1, AppendSet
    <3>3. Len(queue') <= ShadowCapacity
      BY <3>1, <3>2
    <3> QED  BY <2>1, <3>1, <3>2, <3>3
  <2> QED  BY <2>2, <2>3
<1>6. CASE Shadow!Refresh
  BY <1>6 DEF Shadow!Refresh
<1>7. CASE Shadow!Beat
  BY <1>7 DEF Shadow!Beat
<1>8. CASE Shadow!Gather
  <2> DEFINE n == IF Len(queue) < ShadowBatchSize THEN Len(queue) ELSE ShadowBatchSize
  <2>1. n \in 0..Len(queue)
    BY BatchFits
  <2>2. /\ writer' = [state |-> "writing", events |-> Shadow!ToSet(SubSeq(queue, 1, n)),
                      gaps |-> notices \cup overflow, tries |-> 0]
        /\ queue' = SubSeq(queue, n + 1, Len(queue))
        /\ notices' = {} /\ overflow' = {}
        /\ worker' = [worker EXCEPT !.batches = @ + 1]
        /\ UNCHANGED <<received, pulse, store, beat, shadowFaults>>
    BY <1>8 DEF Shadow!Gather
  <2> HIDE DEF n
  <2>3. /\ Shadow!ToSet(SubSeq(queue, 1, n)) = {queue[i] : i \in 1..n}
        /\ queue' \in Seq(Shadow!Id) /\ Len(queue') = Len(queue) - n
    <3>1. queue \in Seq(Shadow!Id)
      OBVIOUS
    <3> QED  BY ONLY <2>1, <2>2, <3>1, QueueSplits
  <2>4. Shadow!ToSet(SubSeq(queue, 1, n)) \subseteq Shadow!Id
    BY <2>1, <2>3
  <2>5. Len(queue') <= ShadowCapacity
    BY <2>1, <2>3
  <2>6. writer' \in [state : {"idle", "writing", "over", "dead"}, events : SUBSET Shadow!Id, gaps : SUBSET Shadow!Id,
                     tries : 0..Attempts]
    BY <2>2, <2>4
  <2>7. worker' \in Workers
    <3>1. worker \in Workers /\ worker.batches + 1 \in Nat
      OBVIOUS
    <3> QED  BY <2>2, <3>1
  <2> QED  BY <2>2, <2>3, <2>5, <2>6, <2>7
<1>9. ASSUME writer.state = "writing"
      PROVE  /\ Shadow!Persisted.rows \subseteq Shadow!Id /\ Shadow!Persisted.gaps \subseteq Shadow!Id
             /\ \A a \in Shadow!Persisted.audits : a.batch \in Nat \X Nat /\ a.events \subseteq Shadow!Id
  BY DEF Shadow!Persisted, Shadow!BatchId
<1>10. CASE Shadow!Persist
  BY <1>9, <1>10 DEF Shadow!Persist
<1>11. CASE Shadow!PersistFails
  <2>1. store' \in {store, Shadow!Persisted} /\ writer.state = "writing"
        /\ UNCHANGED <<received, Shadow!memory, pulse, beat>> /\ shadowFaults' \in 0..MaxShadowFaults
    BY <1>11 DEF Shadow!PersistFails
  <2>2. writer' \in [state : {"idle", "writing", "over", "dead"}, events : SUBSET Shadow!Id, gaps : SUBSET Shadow!Id,
                     tries : 0..Attempts]
    <3>1. CASE writer.tries + 1 < Attempts
      <4>1. writer' = [writer EXCEPT !.tries = @ + 1]
        BY <1>11, <3>1 DEF Shadow!PersistFails
      <4>2. writer.tries \in Nat /\ writer.tries + 1 \in 0..Attempts
        BY <3>1
      <4>3. writer \in [state : {"idle", "writing", "over", "dead"}, events : SUBSET Shadow!Id,
                         gaps : SUBSET Shadow!Id, tries : 0..Attempts]
        OBVIOUS
      <4> QED  BY ONLY <4>1, <4>2, <4>3
    <3>2. CASE ~ (writer.tries + 1 < Attempts)
      <4>1. writer' = [Shadow!NoBatch EXCEPT !.state = "dead"]
        BY <1>11, <3>2 DEF Shadow!PersistFails
      <4> QED  BY <4>1
    <3> QED  BY <3>1, <3>2
  <2>3. worker' \in Workers
    BY <1>11 DEF Shadow!PersistFails
  <2> QED  BY <1>9, <2>1, <2>2, <2>3
<1>12. CASE Shadow!WriterEnds
  BY <1>12 DEF Shadow!WriterEnds
<1>13. CASE UNCHANGED Shadow!vars
  BY <1>13 DEF Shadow!vars
<1> QED
  BY <1>1, <1>2, <1>3, <1>4, <1>5, <1>6, <1>7, <1>8, <1>10, <1>11, <1>12,
     <1>13 DEF Shadow!Next, Shadow!WriterStep

\* The steps of the process: a life starts with an empty queue and an
\* account of all that is not on record.
LEMMA StartStep == ASSUME ShadowBounds, RecorderInv, Shadow!Start PROVE RecorderInv'
<1> USE DEF Shadow!NoBatch
<1>1. Shadow!TypeOK'
  BY RecorderTypes DEF RecorderInv, Shadow!Next
<1>2. /\ queue' = <<>> /\ overflow' = {} /\ writer' = Shadow!NoBatch /\ pulse' = "idle"
      /\ notices' = (IF beat = "none" THEN {} ELSE (1..received) \ Shadow!Known)
      /\ UNCHANGED <<received, store>>
      /\ worker'.batches = worker.batches
      /\ worker'.state \in {"running", "failed"} /\ beat' # "none"
  BY DEF Shadow!Start, RecorderInv, Shadow!TypeOK
<1>3. Len(queue') = 0 /\ 1..0 = {}
  BY <1>2
<1>4. QueueInv' /\ WriterInv' /\ AuditInv' /\ BeatInv'
  <2>1. QueueInv' /\ WriterInv' /\ BeatInv'
    BY <1>2, <1>3 DEF QueueInv, WriterInv, BeatInv
  <2>2. AuditInv'
    BY <1>2, <1>3 DEF AuditInv, Writing, RecorderInv
  <2> QED  BY <2>1, <2>2
<1>5. Shadow!EventsAccounted'
  <2>1. \A e \in 1..received' : e \in Shadow!Known' \cup Shadow!InMemory' \/ worker'.state = "failed"
    <3> SUFFICES ASSUME NEW e \in 1..received', worker'.state # "failed"
                 PROVE  e \in Shadow!Known' \cup Shadow!InMemory'
      OBVIOUS
    <3>1. e \in 1..received /\ received \in Nat /\ Shadow!Known' = Shadow!Known /\ Shadow!Active'
      BY <1>2 DEF Shadow!Known, Shadow!Active, RecorderInv, Shadow!TypeOK
    <3>2. beat # "none"
      BY <3>1 DEF RecorderInv, BeatInv
    <3> QED  BY <1>2, <3>1, <3>2 DEF Shadow!InMemory
  <2> QED  BY <1>2, <2>1 DEF Shadow!EventsAccounted, RecorderInv
<1> QED  BY <1>1, <1>4, <1>5 DEF RecorderInv

\* A step that leaves the queue, the writer and the store alone.
LEMMA KeepsAudits ==
  ASSUME AuditInv, UNCHANGED <<received, queue, store>>, worker'.batches = worker.batches,
         \/ UNCHANGED writer
         \/ writer'.state # "writing" /\ writer'.events = {}
  PROVE  AuditInv'
<1> SUFFICES ASSUME NEW a \in store.audits
             PROVE  /\ \E n \in 0..worker.batches : a.batch = <<n, 0>>
                    /\ a.events \subseteq 1..received
                    /\ \A i \in 1..Len(queue) : queue[i] \notin a.events
                    /\ Writing(a)' => /\ a.events = writer'.events
                                      /\ writer'.events \subseteq store.rows
                                      /\ writer'.gaps \subseteq store.gaps
                    /\ ~ Writing(a)' => a.events \cap writer'.events = {}
  BY DEF AuditInv
<1>1. CASE UNCHANGED writer
  BY <1>1 DEF AuditInv, Writing, Shadow!BatchId
<1>2. CASE writer'.state # "writing" /\ writer'.events = {}
  BY <1>2 DEF AuditInv, Writing
<1> QED  BY <1>1, <1>2

LEMMA StopStep == ASSUME ShadowBounds, RecorderInv, Shadow!Stop PROVE RecorderInv'
<1> USE DEF RecorderInv
<1>1. Shadow!TypeOK'
  BY RecorderTypes DEF Shadow!Next
<1>2. /\ worker.state = "running" /\ worker'.state = "draining" /\ worker'.batches = worker.batches
      /\ UNCHANGED <<received, queue, overflow, notices, writer, pulse, store, beat>>
  BY DEF Shadow!Stop, Shadow!memory, Shadow!TypeOK
<1>3. QueueInv' /\ WriterInv' /\ BeatInv'
  BY <1>2 DEF QueueInv, WriterInv, BeatInv, Shadow!Active, Shadow!MoreToWrite
<1>4. AuditInv'
  BY <1>2, KeepsAudits
<1>5. Shadow!EventsAccounted'
  <2>1. Shadow!Known' = Shadow!Known /\ Shadow!InMemory' = Shadow!InMemory
    BY <1>2 DEF Shadow!Known, Shadow!InMemory, Shadow!Active
  <2> QED  BY <1>2, <2>1 DEF Shadow!EventsAccounted, WriterInv
<1> QED  BY <1>1, <1>3, <1>4, <1>5

\* A process that ends as it should has nothing left in memory.
LEMMA EndStep == ASSUME ShadowBounds, RecorderInv, Shadow!End PROVE RecorderInv'
<1> USE DEF RecorderInv
<1>1. Shadow!TypeOK'
  BY RecorderTypes DEF Shadow!Next
<1>2. /\ worker.state = "draining" /\ worker'.state = worker.ending /\ worker'.batches = worker.batches
      /\ worker'.ending = worker.ending /\ worker.ending \in {"stopped", "failed"}
      /\ writer.state \in {"over", "dead"} /\ pulse = "idle"
      /\ UNCHANGED <<received, queue, overflow, notices, writer, pulse, store>>
      /\ beat' \in {beat, worker.ending}
  BY DEF Shadow!End, Shadow!Settled, Shadow!memory, Shadow!TypeOK
<1>3. QueueInv' /\ WriterInv' /\ BeatInv'
  BY <1>2 DEF QueueInv, WriterInv, BeatInv, Shadow!MoreToWrite
<1>4. AuditInv'
  BY <1>2, KeepsAudits
<1>5. Shadow!EventsAccounted'
  <2>1. CASE worker'.state = "failed"
    BY <1>2, <2>1 DEF Shadow!EventsAccounted
  <2>2. CASE worker'.state = "stopped"
    <3>1. writer.state = "over" /\ queue = <<>> /\ overflow = {} /\ notices = {}
          /\ writer.events = {} /\ writer.gaps = {}
      BY <1>2, <2>2 DEF WriterInv, Shadow!MoreToWrite
    <3>2. Shadow!ToSet(queue) = {}
      BY <3>1 DEF Shadow!ToSet
    <3>3. \A e \in 1..received : e \in Shadow!Known
      BY <1>2, <3>1, <3>2 DEF Shadow!EventsAccounted, Shadow!InMemory
    <3> QED  BY <1>2, <3>3 DEF Shadow!EventsAccounted, Shadow!Known
  <2> QED  BY <1>2, <2>1, <2>2
<1> QED  BY <1>1, <1>3, <1>4, <1>5

LEMMA CrashStep == ASSUME ShadowBounds, RecorderInv, Shadow!Crash PROVE RecorderInv'
<1> USE DEF RecorderInv
<1>1. Shadow!TypeOK'
  BY RecorderTypes DEF Shadow!Next
<1>2. /\ worker'.state = "crashed" /\ worker'.batches = worker.batches
      /\ UNCHANGED <<received, queue, store, beat>>
      /\ writer' = Shadow!NoBatch /\ pulse' = "idle" /\ Shadow!Active
  BY DEF Shadow!Crash, Shadow!memory, Shadow!TypeOK
<1>3. QueueInv' /\ WriterInv' /\ BeatInv'
  BY <1>2 DEF QueueInv, WriterInv, BeatInv, Shadow!NoBatch, Shadow!Active
<1>4. AuditInv'
  BY <1>2, KeepsAudits DEF Shadow!NoBatch
<1> QED  BY <1>1, <1>2, <1>3, <1>4 DEF Shadow!EventsAccounted

-----------------------------------------------------------------------------
\* A new event has a number of its own, and the queue or the overflow takes it.
LEMMA ReceiveStep == ASSUME ShadowBounds, RecorderInv, Shadow!Receive PROVE RecorderInv'
<1> USE DEF RecorderInv
<1>1. Shadow!TypeOK'
  BY RecorderTypes DEF Shadow!Next
<1>2. /\ worker.state = "running" /\ received' = received + 1 /\ received \in Nat
      /\ received' \in Shadow!Id /\ queue \in Seq(Shadow!Id)
      /\ UNCHANGED <<worker, notices, writer, pulse, store, beat, shadowFaults>>
  BY DEF Shadow!Receive, Shadow!TypeOK, ShadowBounds, Shadow!Id
<1>3. \/ overflow' = overflow \cup {received'} /\ queue' = queue
      \/ queue' = Append(queue, received') /\ overflow' = overflow
  BY DEF Shadow!Receive
<1>4. /\ Len(queue) \in Nat
      /\ \/ Len(queue') = Len(queue)
         \/ Len(queue') = Len(queue) + 1 /\ queue'[Len(queue) + 1] = received'
      /\ \A i \in 1..Len(queue) : queue'[i] = queue[i]
      /\ Shadow!ToSet(queue') \cup overflow' = Shadow!ToSet(queue) \cup overflow \cup {received'}
  <2>1. CASE overflow' = overflow \cup {received'} /\ queue' = queue
    BY <1>2, <2>1
  <2>2. CASE queue' = Append(queue, received') /\ overflow' = overflow
    <3>1. /\ Len(queue') = Len(queue) + 1
          /\ \A i \in 1..Len(queue) : queue'[i] = queue[i]
          /\ queue'[Len(queue) + 1] = received'
          /\ Shadow!ToSet(queue') = Shadow!ToSet(queue) \cup {received'}
      BY ONLY <1>2, <2>2, AppendSet
    <3> QED  BY <1>2, <2>2, <3>1
  <2> QED  BY <1>3, <2>1, <2>2
<1>5. 1..received \subseteq 1..received' /\ received' \notin 1..received
      /\ 1..received' = (1..received) \cup {received'}
  BY <1>2
<1>6. \A i \in 1..Len(queue') :
         \/ i \in 1..Len(queue) /\ queue'[i] = queue[i] /\ queue[i] \in 1..received
         \/ i = Len(queue) + 1 /\ queue'[i] = received'
  BY <1>4 DEF QueueInv
<1>7. QueueInv'
  BY <1>2, <1>4, <1>5, <1>6 DEF QueueInv
<1>8. WriterInv' /\ BeatInv'
  BY <1>2, <1>5, <1>6 DEF WriterInv, BeatInv, Shadow!Active, Shadow!MoreToWrite
<1>9. AuditInv'
  BY <1>2, <1>5, <1>6 DEF AuditInv, Writing, Shadow!BatchId
<1>10. Shadow!EventsAccounted'
  <2>1. Shadow!Known' = Shadow!Known /\ Shadow!InMemory' = Shadow!InMemory \cup {received'}
    BY <1>2, <1>4 DEF Shadow!Known, Shadow!InMemory, Shadow!Active
  <2> QED  BY <1>2, <1>5, <2>1 DEF Shadow!EventsAccounted
<1> QED  BY <1>1, <1>7, <1>8, <1>9, <1>10

LEMMA PulseStep == ASSUME ShadowBounds, RecorderInv, Shadow!Refresh \/ Shadow!Beat PROVE RecorderInv'
<1> USE DEF RecorderInv
<1>1. Shadow!TypeOK'
  BY RecorderTypes DEF Shadow!Next
<1>2. /\ UNCHANGED <<worker, received, queue, overflow, notices, writer, store>>
      /\ pulse' = "beating" => worker.state = "running"
      /\ beat' = "none" => beat = "none"
  BY DEF Shadow!Refresh, Shadow!Beat, Shadow!memory
<1>3. QueueInv' /\ WriterInv' /\ BeatInv'
  BY <1>2 DEF QueueInv, WriterInv, BeatInv, Shadow!Active, Shadow!MoreToWrite
<1>4. AuditInv'
  BY <1>2, KeepsAudits
<1>5. Shadow!EventsAccounted'
  BY <1>2 DEF Shadow!EventsAccounted, Shadow!Known, Shadow!InMemory, Shadow!Active
<1> QED  BY <1>1, <1>3, <1>4, <1>5

-----------------------------------------------------------------------------
\* A batch takes the head of the queue and all that is noted, and its number
\* is on no record.
LEMMA GatherStep == ASSUME ShadowBounds, RecorderInv, Shadow!Gather PROVE RecorderInv'
<1> USE DEF RecorderInv
<1> DEFINE n == IF Len(queue) < ShadowBatchSize THEN Len(queue) ELSE ShadowBatchSize
<1>1. Shadow!TypeOK'
  BY RecorderTypes DEF Shadow!Next, Shadow!WriterStep
<1>2. n \in 0..Len(queue)
  BY BatchFits
<1>3. /\ Shadow!Active /\ writer.state = "idle"
      /\ writer' = [state |-> "writing", events |-> Shadow!ToSet(SubSeq(queue, 1, n)),
                    gaps |-> notices \cup overflow, tries |-> 0]
      /\ queue' = SubSeq(queue, n + 1, Len(queue))
      /\ notices' = {} /\ overflow' = {}
      /\ worker'.state = worker.state /\ worker'.batches = worker.batches + 1
      /\ UNCHANGED <<received, pulse, store, beat, shadowFaults>>
      /\ queue \in Seq(Shadow!Id) /\ worker.batches \in Nat
  BY DEF Shadow!Gather, Shadow!TypeOK
<1> HIDE DEF n
<1>4. /\ writer'.state = "writing" /\ writer'.gaps = notices \cup overflow
      /\ writer'.events = {queue[i] : i \in 1..n}
      /\ Len(queue') = Len(queue) - n
      /\ \A i \in 1..Len(queue') : queue'[i] = queue[n + i]
      /\ queue' \in Seq(Shadow!Id)
  <2>1. /\ Shadow!ToSet(SubSeq(queue, 1, n)) = {queue[i] : i \in 1..n}
        /\ Len(queue') = Len(queue) - n
        /\ \A i \in 1..(Len(queue) - n) : queue'[i] = queue[n + i]
        /\ queue' \in Seq(Shadow!Id)
    BY ONLY <1>2, <1>3, QueueSplits
  <2> QED  BY <1>3, <2>1
<1>5. Len(queue) \in Nat /\ n \in Nat /\ n <= Len(queue)
  BY <1>2, <1>3
<1>6. \A i \in 1..Len(queue') : n + i \in 1..Len(queue)
  BY <1>4, <1>5
<1>7. writer'.events \subseteq 1..received
  BY <1>4, <1>5 DEF QueueInv
<1>8. \A i \in 1..Len(queue') : queue'[i] \notin writer'.events
  <2> SUFFICES ASSUME NEW i \in 1..Len(queue'), NEW j \in 1..n PROVE queue'[i] # queue[j]
    BY <1>4
  <2>1. n + i \in 1..Len(queue) /\ j \in 1..Len(queue) /\ j < n + i
    BY <1>4, <1>5
  <2>2. QueueInv
    OBVIOUS
  <2>3. queue[j] < queue[n + i]
    BY ONLY <2>1, <2>2 DEF QueueInv
  <2>4. queue[j] \in Nat /\ queue[n + i] \in Nat
    BY ONLY <2>1, <2>2 DEF QueueInv
  <2> QED  BY <1>4, <2>3, <2>4
<1>9. QueueInv'
  <2>1. \A i \in 1..Len(queue') : queue'[i] \in 1..received'
    BY <1>3, <1>4, <1>6 DEF QueueInv
  <2>2. \A i, j \in 1..Len(queue') : i < j => queue'[i] < queue'[j]
    <3> SUFFICES ASSUME NEW i \in 1..Len(queue'), NEW j \in 1..Len(queue'), i < j
                 PROVE  queue'[i] < queue'[j]
      OBVIOUS
    <3>1. n + i < n + j
      BY <1>5, <1>4
    <3>2. n + i \in 1..Len(queue) /\ n + j \in 1..Len(queue)
      BY <1>6
    <3>3. queue[n + i] < queue[n + j]
      BY <3>1, <3>2 DEF QueueInv
    <3> QED  BY <1>4, <3>3
  <2> QED  BY <2>1, <2>2 DEF QueueInv
<1>10. WriterInv' /\ BeatInv'
  BY <1>3, <1>4, <1>7, <1>8 DEF WriterInv, BeatInv, Shadow!Active
<1>11. AuditInv'
  <2> SUFFICES ASSUME NEW a \in store.audits
               PROVE  /\ \E m \in 0..(worker.batches + 1) : a.batch = <<m, 0>>
                      /\ a.events \subseteq 1..received
                      /\ \A i \in 1..Len(queue') : queue'[i] \notin a.events
                      /\ ~ Writing(a)'
                      /\ a.events \cap writer'.events = {}
    BY <1>3, <1>7 DEF AuditInv
  <2>1. PICK m \in 0..worker.batches : a.batch = <<m, 0>>
    BY DEF AuditInv
  <2>2. m \in 0..(worker.batches + 1) /\ m # worker'.batches
    BY <1>3, <2>1
  <2>3. ~ Writing(a)'
    BY <2>1, <2>2 DEF Writing, Shadow!BatchId
  <2>4. a.events \subseteq 1..received /\ \A i \in 1..Len(queue) : queue[i] \notin a.events
    BY DEF AuditInv
  <2>5. a.events \cap writer'.events = {}
    BY <1>4, <1>5, <2>4
  <2> QED  BY <1>4, <1>6, <2>1, <2>2, <2>3, <2>4, <2>5
<1>12. Shadow!EventsAccounted'
  <2>1. Shadow!Known' = Shadow!Known /\ Shadow!Active' /\ writer'.state # "dead" /\ writer.state # "dead"
    BY <1>3, <1>4 DEF Shadow!Known, Shadow!Active
  <2>2. Shadow!ToSet(queue) \subseteq Shadow!ToSet(queue') \cup writer'.events
    <3> SUFFICES ASSUME NEW k \in 1..Len(queue)
                 PROVE  \/ \E i \in 1..Len(queue') : queue[k] = queue'[i]
                        \/ queue[k] \in writer'.events
      <4>1. DOMAIN queue = 1..Len(queue) /\ DOMAIN queue' = 1..Len(queue')
        BY <1>3, <1>4
      <4> QED  BY <4>1 DEF Shadow!ToSet
    <3>1. CASE k <= n
      BY <1>4, <1>5, <3>1
    <3>2. CASE ~ (k <= n)
      <4>1. k - n \in 1..Len(queue') /\ n + (k - n) = k
        BY <1>4, <1>5, <3>2
      <4> QED  BY <1>4, <4>1
    <3> QED  BY <3>1, <3>2
  <2>3. Shadow!InMemory \subseteq Shadow!InMemory'
    BY <1>3, <1>4, <2>1, <2>2 DEF Shadow!InMemory, WriterInv
  <2> QED  BY <1>3, <2>1, <2>3 DEF Shadow!EventsAccounted
<1> QED  BY <1>1, <1>9, <1>10, <1>11, <1>12

\* What a transaction leaves in the store, whether the batch was on record or
\* not: the batch, and what was there before.
LEMMA TransactionKeeps ==
  ASSUME ShadowBounds, RecorderInv, writer.state = "writing"
  PROVE  /\ store.rows \cup writer.events \subseteq Shadow!Persisted.rows
         /\ store.gaps \cup writer.gaps \subseteq Shadow!Persisted.gaps
         /\ \A a \in Shadow!Persisted.audits :
               \/ a \in store.audits
               \/ /\ a = [batch |-> Shadow!BatchId(worker.batches, writer.tries), events |-> writer.events]
                  /\ \A c \in store.audits : ~ Writing(c)
         /\ \A a, c \in Shadow!Persisted.audits : a # c => a.events \cap c.events = {}
<1> USE DEF RecorderInv
<1> DEFINE id == Shadow!BatchId(worker.batches, writer.tries)
<1>1. CASE writer.events # {} /\ \E a \in store.audits : a.batch = id
  <2>1. PICK a \in store.audits : a.batch = id
    BY <1>1
  <2>2. writer.events \subseteq store.rows /\ writer.gaps \subseteq store.gaps
    BY <2>1 DEF AuditInv, Writing
  <2>3. Shadow!Persisted = store
    BY <1>1 DEF Shadow!Persisted
  <2> QED  BY <2>2, <2>3 DEF Shadow!EventsAccounted
<1>2. CASE ~ (writer.events # {} /\ \E a \in store.audits : a.batch = id)
  <2>1. /\ Shadow!Persisted.rows = store.rows \cup writer.events
        /\ Shadow!Persisted.gaps = store.gaps \cup writer.gaps
        /\ Shadow!Persisted.audits = IF writer.events = {} THEN store.audits
                              ELSE store.audits \cup {[batch |-> id, events |-> writer.events]}
    BY <1>2 DEF Shadow!Persisted
  <2>2. CASE writer.events = {}
    BY <2>1, <2>2 DEF Shadow!EventsAccounted
  <2>3. CASE writer.events # {}
    <3>1. \A c \in store.audits : ~ Writing(c)
      BY <1>2, <2>3 DEF Writing
    <3>2. \A c \in store.audits : c.events \cap writer.events = {}
      BY <3>1 DEF AuditInv
    <3>3. [batch |-> id, events |-> writer.events].events = writer.events
      OBVIOUS
    <3> HIDE DEF id
    <3>4. \A a, c \in Shadow!Persisted.audits : a # c => a.events \cap c.events = {}
      <4> SUFFICES ASSUME NEW a \in Shadow!Persisted.audits, NEW c \in Shadow!Persisted.audits, a # c
                   PROVE  a.events \cap c.events = {}
        OBVIOUS
      <4>1. CASE a \in store.audits /\ c \in store.audits
        BY <4>1 DEF Shadow!EventsAccounted
      <4>2. CASE a \notin store.audits
        BY <2>1, <2>3, <3>2, <3>3, <4>2
      <4>3. CASE c \notin store.audits
        BY <2>1, <2>3, <3>2, <3>3, <4>3
      <4> QED  BY <4>1, <4>2, <4>3
    <3> QED  BY <2>1, <2>3, <3>1, <3>4 DEF id
  <2> QED  BY <2>2, <2>3
<1> QED  BY <1>1, <1>2

\* The audits after a transaction of a batch that then is written no more, or
\* is tried again.
LEMMA TransactionAudits ==
  ASSUME ShadowBounds, RecorderInv, writer.state = "writing", store' \in {store, Shadow!Persisted},
         UNCHANGED <<received, queue>>, worker'.batches = worker.batches,
         \/ writer'.state # "writing" /\ writer'.events = {}
         \/ writer'.state = "writing" /\ writer'.events = writer.events /\ writer'.gaps = writer.gaps
  PROVE  AuditInv'
<1> USE DEF RecorderInv
<1>1. worker.batches \in Nat
  BY DEF Shadow!TypeOK
<1>2. SUFFICES ASSUME NEW a \in store'.audits
               PROVE  /\ \E n \in 0..worker.batches : a.batch = <<n, 0>>
                      /\ a.events \subseteq 1..received
                      /\ \A i \in 1..Len(queue) : queue[i] \notin a.events
                      /\ Writing(a)' => /\ a.events = writer'.events
                                        /\ writer'.events \subseteq store'.rows
                                        /\ writer'.gaps \subseteq store'.gaps
                      /\ ~ Writing(a)' => a.events \cap writer'.events = {}
  BY DEF AuditInv
<1>3. /\ store.rows \subseteq store'.rows /\ store.gaps \subseteq store'.gaps
      /\ \/ a \in store.audits
         \/ /\ store' = Shadow!Persisted
            /\ a = [batch |-> Shadow!BatchId(worker.batches, writer.tries), events |-> writer.events]
  BY TransactionKeeps
<1>4. Writing(a)' => Writing(a)
  BY DEF Writing, Shadow!BatchId
<1>5. ~ Writing(a)' => ~ Writing(a) \/ writer'.events = {}
  BY DEF Writing, Shadow!BatchId
<1>6. CASE a \in store.audits
  <2>1. /\ \E n \in 0..worker.batches : a.batch = <<n, 0>>
        /\ a.events \subseteq 1..received
        /\ \A i \in 1..Len(queue) : queue[i] \notin a.events
        /\ Writing(a) => /\ a.events = writer.events
                         /\ writer.events \subseteq store.rows
                         /\ writer.gaps \subseteq store.gaps
        /\ ~ Writing(a) => a.events \cap writer.events = {}
    BY <1>6 DEF AuditInv
  <2>2. writer'.events \in {{}, writer.events}
    OBVIOUS
  <2>3. Writing(a)' => writer'.events = writer.events /\ writer'.gaps = writer.gaps
    BY DEF Writing
  <2> QED  BY <1>3, <1>4, <1>5, <2>1, <2>2, <2>3
<1>7. CASE /\ store' = Shadow!Persisted
           /\ a = [batch |-> Shadow!BatchId(worker.batches, writer.tries), events |-> writer.events]
  <2>1. a.batch = <<worker.batches, 0>> /\ a.events = writer.events
    BY <1>7 DEF Shadow!BatchId
  <2>2. worker.batches \in 0..worker.batches
    BY <1>1
  <2>3. writer.events \subseteq 1..received /\ \A i \in 1..Len(queue) : queue[i] \notin writer.events
    BY DEF WriterInv
  <2>4. writer.events \subseteq store'.rows /\ writer.gaps \subseteq store'.gaps
    BY <1>7, TransactionKeeps
  <2>5. ~ Writing(a)' => writer'.events = {}
    BY <2>1 DEF Writing, Shadow!BatchId
  <2>6. Writing(a)' => writer'.events = writer.events /\ writer'.gaps = writer.gaps
    BY DEF Writing
  <2> QED  BY <2>1, <2>2, <2>3, <2>4, <2>5, <2>6
<1> QED  BY <1>3, <1>6, <1>7

\* A batch is on record once its transaction is, and the writer is free.
LEMMA PersistStep == ASSUME ShadowBounds, RecorderInv, Shadow!Persist PROVE RecorderInv'
<1> USE DEF RecorderInv
<1>1. Shadow!TypeOK'
  BY RecorderTypes DEF Shadow!Next, Shadow!WriterStep
<1>2. /\ writer.state = "writing" /\ store' = Shadow!Persisted
      /\ writer'.state = "idle" /\ writer'.events = {} /\ writer'.gaps = {}
      /\ UNCHANGED <<worker, received, queue, overflow, notices, pulse, beat>>
  BY DEF Shadow!Persist, Shadow!NoBatch, Shadow!memory
<1>3. QueueInv' /\ WriterInv' /\ BeatInv'
  BY <1>2 DEF QueueInv, WriterInv, BeatInv, Shadow!Active
<1>4. AuditInv'
  BY <1>2, TransactionAudits
<1>5. Shadow!EventsAccounted'
  <2>1. Shadow!Known \cup Shadow!InMemory \subseteq Shadow!Known' \cup Shadow!InMemory' /\ writer.state # "dead"
    BY <1>2, TransactionKeeps DEF Shadow!Known, Shadow!InMemory, Shadow!Active
  <2>2. \A a, c \in store'.audits : a # c => a.events \cap c.events = {}
    BY <1>2, TransactionKeeps
  <2> QED  BY <1>2, <2>1, <2>2 DEF Shadow!EventsAccounted
<1> QED  BY <1>1, <1>3, <1>4, <1>5

\* An attempt that fails leaves the batch with the writer or kills it.
LEMMA PersistFailsStep == ASSUME ShadowBounds, RecorderInv, Shadow!PersistFails PROVE RecorderInv'
<1> USE DEF RecorderInv
<1>1. Shadow!TypeOK'
  BY RecorderTypes DEF Shadow!Next, Shadow!WriterStep
<1>2. /\ writer.state = "writing" /\ store' \in {store, Shadow!Persisted}
      /\ UNCHANGED <<received, queue, overflow, notices, pulse, beat>>
      /\ worker'.batches = worker.batches
      /\ \/ /\ writer'.state = "writing" /\ writer'.events = writer.events /\ writer'.gaps = writer.gaps
            /\ UNCHANGED worker
         \/ /\ writer'.state = "dead" /\ writer'.events = {} /\ writer'.gaps = {}
            /\ worker'.state = "draining" /\ worker'.ending = "failed"
  BY DEF Shadow!PersistFails, Shadow!NoBatch, Shadow!memory, Shadow!TypeOK
<1>3. QueueInv' /\ WriterInv' /\ BeatInv'
  BY <1>2 DEF QueueInv, WriterInv, BeatInv, Shadow!Active
<1>4. AuditInv'
  BY <1>2, TransactionAudits
<1>5. Shadow!EventsAccounted'
  <2>1. \A a, c \in store'.audits : a # c => a.events \cap c.events = {}
    <3>1. \A a, c \in store.audits : a # c => a.events \cap c.events = {}
      BY DEF Shadow!EventsAccounted
    <3> QED  BY <1>2, <3>1, TransactionKeeps
  <2>2. CASE writer'.state = "dead"
    BY <2>1, <2>2 DEF Shadow!EventsAccounted
  <2>3. CASE writer'.state = "writing"
    <3>1. Shadow!Known \subseteq Shadow!Known' /\ Shadow!InMemory' = Shadow!InMemory /\ UNCHANGED worker
      BY <1>2, <2>3, TransactionKeeps DEF Shadow!Known, Shadow!InMemory, Shadow!Active
    <3> QED  BY <1>2, <2>1, <3>1 DEF Shadow!EventsAccounted
  <2> QED  BY <1>2, <2>2, <2>3
<1> QED  BY <1>1, <1>3, <1>4, <1>5

LEMMA WriterEndsStep == ASSUME ShadowBounds, RecorderInv, Shadow!WriterEnds PROVE RecorderInv'
<1> USE DEF RecorderInv
<1>1. Shadow!TypeOK'
  BY RecorderTypes DEF Shadow!Next, Shadow!WriterStep
<1>2. /\ worker.state = "draining" /\ writer.state = "idle" /\ ~ Shadow!MoreToWrite
      /\ writer'.state = "over" /\ writer'.events = {} /\ writer'.gaps = {}
      /\ UNCHANGED <<worker, received, queue, overflow, notices, pulse, store, beat>>
  BY DEF Shadow!WriterEnds, Shadow!NoBatch, Shadow!memory
<1>3. QueueInv' /\ WriterInv' /\ BeatInv'
  BY <1>2 DEF QueueInv, WriterInv, BeatInv, Shadow!MoreToWrite, Shadow!Active
<1>4. AuditInv'
  BY <1>2, KeepsAudits
<1>5. Shadow!EventsAccounted'
  <2>1. Shadow!Known' = Shadow!Known /\ Shadow!InMemory' = Shadow!InMemory
    BY <1>2 DEF Shadow!Known, Shadow!InMemory, Shadow!Active, WriterInv
  <2> QED  BY <1>2, <2>1 DEF Shadow!EventsAccounted
<1> QED  BY <1>1, <1>3, <1>4, <1>5

LEMMA RecorderStep == ShadowBounds /\ RecorderInv /\ [Shadow!Next]_Shadow!vars => RecorderInv'
<1> SUFFICES ASSUME ShadowBounds, RecorderInv, [Shadow!Next]_Shadow!vars PROVE RecorderInv'
  OBVIOUS
<1>1. CASE UNCHANGED Shadow!vars
  <2>1. UNCHANGED <<worker, received, queue, overflow, notices, writer, pulse, store, beat>>
    BY <1>1 DEF Shadow!vars
  <2>2. Shadow!TypeOK'
    BY RecorderTypes DEF RecorderInv
  <2>3. QueueInv' /\ WriterInv' /\ BeatInv'
    BY <2>1 DEF RecorderInv, QueueInv, WriterInv, BeatInv, Shadow!Active, Shadow!MoreToWrite
  <2>4. AuditInv'
    BY <2>1, KeepsAudits DEF RecorderInv
  <2>5. Shadow!EventsAccounted'
    BY <2>1 DEF RecorderInv, Shadow!EventsAccounted, Shadow!Known, Shadow!InMemory, Shadow!Active
  <2> QED  BY <2>2, <2>3, <2>4, <2>5 DEF RecorderInv
<1> QED
  BY <1>1, StartStep, StopStep, EndStep, CrashStep, ReceiveStep, PulseStep, GatherStep,
     PersistStep, PersistFailsStep, WriterEndsStep DEF Shadow!Next, Shadow!WriterStep

-----------------------------------------------------------------------------
(* The books *)

\* CryptoMarketFeed refuses to start without symbols, or with a queue that
\* cannot take a reset of each.
BookBounds ==
    /\ \E T : Symbols \in Seq(T)
    /\ Symbols # <<>> /\ Len(Symbols) <= BookCapacity
    /\ BookCapacity \in Nat /\ BookBatchSize \in Nat /\ MaxVersion \in Nat /\ MaxMarketFaults \in Nat

-----------------------------------------------------------------------------
(* Their invariant *)

\* The books of every symbol at some moment.
Versions == [Books!Symbol -> 0..MaxVersion]

\* Events are numbered within their connection.
Position == [conn : Nat, seq : Nat]
At(m) == [conn |-> m.conn, seq |-> m.seq]
Here(e) == [conn |-> e.conn, seq |-> e.last]
Before(x, y) == x.conn < y.conn \/ (x.conn = y.conn /\ x.seq < y.seq)

\* Where a reader is that starts at x and has read i events of q.
Place(x, q, i) == IF i = 0 THEN x ELSE At(q[i])
Follows(x, m) == m.conn = x.conn /\ m.seq = x.seq + 1

\* Event m comes after x, while the books of the feed go from v to w.  What
\* lies between them, if they do not follow each other, was dropped.
Link(x, m, v, w) ==
    /\ m.seq > 0
    /\ w[m.symbol] = m.book
    /\ m.kind = "reset" => m.book = 0
    /\ m.conn # x.conn => m.kind = "reset" /\ w = Books!NoBooks
    /\ Follows(x, m) =>
          /\ w = [v EXCEPT ![m.symbol] = m.book]
          /\ m.kind = "update" => m.book = v[m.symbol] + 1
    /\ m.conn = x.conn /\ x.seq = 0 => m.seq = 1

\* The events of q in the order in which they were published after x; b has
\* the books of the feed after each.
Trail(x, q, b) ==
    /\ b \in [0..Len(q) -> Versions]
    /\ \A i, j \in 0..Len(q) : i < j => Before(Place(x, q, i), Place(x, q, j))
    /\ \A i \in 1..Len(q) : Link(Place(x, q, i - 1), q[i], b[i - 1], b[i])

\* A valid book of the engine is whole and that of v; of any other book v has
\* none either, or a snapshot is required.
Agrees(e, v) ==
    \A s \in Books!Symbol :
        /\ e.book[s] > 0 => s \in e.whole /\ e.book[s] = v[s]
        /\ e.book[s] = 0 => v[s] = 0 \/ s \in e.required

\* The queue leads from place y and books v to the feed.
Stream(y, v, q, f) ==
    \E b : /\ Trail(y, q, b)
           /\ b[0] = v /\ b[Len(q)] = f.book
           /\ Place(y, q, Len(q)) = At(f)

\* The engine has read the batch (and may read it again), or is about to.
BatchRead(y, v) ==
    /\ y = Here(engine)
    /\ Agrees(engine, v)
    /\ \A i \in 1..Len(batch) : ~ Before(Here(engine), batch[i])
BatchUnread(y, v) ==
    /\ batch # <<>>
    /\ y = At(batch[Len(batch)])
    /\ \E b : Trail(Here(engine), batch, b) /\ Agrees(engine, b[0]) /\ b[Len(batch)] = v

StreamInv ==
    \E y \in Position, v \in Versions :
        /\ BatchRead(y, v) \/ BatchUnread(y, v)
        /\ Stream(y, v, feedQueue, feed)

\* Only a feed that has not connected has published nothing.
FeedInv ==
    /\ feed.state = "idle" => feed.conn = 0 /\ feed.seq = 0 /\ feed.book = Books!NoBooks
    /\ feed.state \notin {"idle", "stopped"} => feed.conn > 0 /\ feed.seq > 0
    /\ engine.last = 0 => engine.conn = 0

BooksInv == Books!TypeOK /\ FeedInv /\ StreamInv

-----------------------------------------------------------------------------
(* Books and events *)

\* What the first j resets leave of the books v.
Cleared(v, j) == [s \in Books!Symbol |-> IF \E i \in 1..j : Symbols[i] = s THEN 0 ELSE v[s]]

\* The events of a reset.
Resets(f) ==
    [i \in DOMAIN Symbols |->
        [conn |-> f.conn, seq |-> f.seq + i, symbol |-> Symbols[i], kind |-> "reset", book |-> 0]]

LEMMA SymbolFacts ==
  ASSUME BookBounds
  PROVE  /\ Len(Symbols) \in Nat /\ Len(Symbols) > 0 /\ DOMAIN Symbols = 1..Len(Symbols)
         /\ \A i \in 1..Len(Symbols) : Symbols[i] \in Books!Symbol
         /\ \A s \in Books!Symbol : \E i \in 1..Len(Symbols) : Symbols[i] = s
         /\ Books!NoBooks \in Versions
         /\ \A s \in Books!Symbol : Books!NoBooks[s] = 0
<1>1. PICK T : Symbols \in Seq(T)
  BY DEF BookBounds
<1>2. Len(Symbols) \in Nat /\ Len(Symbols) > 0 /\ DOMAIN Symbols = 1..Len(Symbols)
  BY <1>1 DEF BookBounds
<1>3. Books!Symbol = {Symbols[i] : i \in 1..Len(Symbols)}
  BY <1>2 DEF Books!Symbol, Books!ToSet
<1>4. Books!NoBooks \in Versions /\ \A s \in Books!Symbol : Books!NoBooks[s] = 0
  BY DEF Books!NoBooks, Versions, BookBounds
<1> QED  BY <1>2, <1>3, <1>4

LEMMA ClearedFacts ==
  ASSUME BookBounds, NEW v \in Versions
  PROVE  /\ \A j \in Nat : Cleared(v, j) \in Versions
         /\ \A j \in 1..Len(Symbols) : Cleared(v, j)[Symbols[j]] = 0
         /\ Cleared(v, 1) = [v EXCEPT ![Symbols[1]] = 0]
         /\ \A j \in 1..Len(Symbols) :
               j > 1 => Cleared(v, j) = [Cleared(v, j - 1) EXCEPT ![Symbols[j]] = 0]
         /\ Cleared(v, Len(Symbols)) = Books!NoBooks
         /\ v = Books!NoBooks => \A j \in Nat : Cleared(v, j) = Books!NoBooks
<1>1. /\ Len(Symbols) \in Nat /\ Len(Symbols) > 0
      /\ \A i \in 1..Len(Symbols) : Symbols[i] \in Books!Symbol
      /\ \A s \in Books!Symbol : \E i \in 1..Len(Symbols) : Symbols[i] = s
      /\ v \in [Books!Symbol -> 0..MaxVersion] /\ MaxVersion \in Nat
      /\ Books!NoBooks = [s \in Books!Symbol |-> 0]
  BY SymbolFacts DEF Versions, Books!NoBooks, BookBounds
<1> HIDE DEF Books!Symbol
<1>2. \A j \in Nat : Cleared(v, j) \in Versions
  BY <1>1 DEF Cleared, Versions
<1>3. \A j \in 1..Len(Symbols) : Cleared(v, j)[Symbols[j]] = 0
  BY <1>1 DEF Cleared
<1>4. Cleared(v, 1) = [v EXCEPT ![Symbols[1]] = 0]
  <2>1. (\A i \in 1..1 : i = 1) /\ 1 \in 1..1
    OBVIOUS
  <2>2. \A s \in Books!Symbol : Cleared(v, 1)[s] = IF s = Symbols[1] THEN 0 ELSE v[s]
    BY <1>1, <2>1 DEF Cleared
  <2> QED  BY <1>1, <2>2 DEF Cleared
<1>5. ASSUME NEW j \in 1..Len(Symbols), j > 1
      PROVE  Cleared(v, j) = [Cleared(v, j - 1) EXCEPT ![Symbols[j]] = 0]
  <2>1. j - 1 \in Nat /\ \A i \in 1..j : i = j \/ i \in 1..(j - 1)
    BY <1>1, <1>5
  <2>2. \A i \in 1..(j - 1) : i \in 1..j
    BY <1>1, <1>5
  <2>3. \A s \in Books!Symbol : Cleared(v, j)[s] = IF s = Symbols[j] THEN 0 ELSE Cleared(v, j - 1)[s]
    BY <1>1, <2>1, <2>2 DEF Cleared
  <2> QED  BY <1>1, <2>3 DEF Cleared
<1>6. Cleared(v, Len(Symbols)) = Books!NoBooks
  BY <1>1 DEF Cleared
<1>7. v = Books!NoBooks => \A j \in Nat : Cleared(v, j) = Books!NoBooks
  BY <1>1 DEF Cleared
<1> QED  BY <1>2, <1>3, <1>4, <1>5, <1>6, <1>7

\* An event that is in its type.
LEMMA EventFields ==
  ASSUME NEW m \in Books!Event
  PROVE  /\ m.conn \in Nat /\ m.seq \in Nat /\ m.symbol \in Books!Symbol /\ m.book \in 0..MaxVersion
         /\ m.kind \in {"reset", "snapshot", "update", "broken", "odd"}
         /\ At(m) \in Position
BY DEF Books!Event, At, Position

\* The order of positions.
LEMMA BeforeFacts ==
  /\ \A x, y, z \in Position : Before(x, y) /\ Before(y, z) => Before(x, z)
  /\ \A x \in Position : ~ Before(x, x)
  /\ \A x, y \in Position : x = y \/ Before(x, y) \/ Before(y, x)
  /\ \A x, y \in Position : Before(x, y) => ~ Before(y, x)
<1>1. \A x \in Position : x.conn \in Nat /\ x.seq \in Nat /\ x = [conn |-> x.conn, seq |-> x.seq]
  BY DEF Position
<1> QED  BY <1>1 DEF Before

\* The places of a sequence.
LEMMA Places ==
  ASSUME NEW x \in Position, NEW q \in Seq(Books!Event)
  PROVE  /\ Len(q) \in Nat
         /\ \A i \in 1..Len(q) : q[i] \in Books!Event
         /\ \A i \in 0..Len(q) : Place(x, q, i) \in Position
         /\ \A i \in 1..Len(q) : Place(x, q, i) = At(q[i])
         /\ Place(x, q, 0) = x
<1>1. Len(q) \in Nat /\ \A i \in 1..Len(q) : q[i] \in Books!Event
  OBVIOUS
<1>2. \A i \in 1..Len(q) : At(q[i]) \in Position
  BY <1>1, EventFields
<1> QED  BY <1>1, <1>2 DEF Place

\* The trail of an event more.
LEMMA TrailPush ==
  ASSUME NEW x \in Position, NEW q \in Seq(Books!Event), NEW b, Trail(x, q, b),
         NEW m \in Books!Event, NEW w \in Versions, Before(Place(x, q, Len(q)), At(m)),
         Link(Place(x, q, Len(q)), m, b[Len(q)], w)
  PROVE  \E c : /\ Trail(x, Append(q, m), c)
                /\ c[0] = b[0] /\ c[Len(q) + 1] = w
                /\ Place(x, Append(q, m), Len(q) + 1) = At(m)
<1> DEFINE n == Len(q)
           t == Append(q, m)
           c == [i \in 0..(n + 1) |-> IF i = n + 1 THEN w ELSE b[i]]
<1>1. /\ n \in Nat /\ t \in Seq(Books!Event) /\ Len(t) = n + 1
      /\ \A i \in 1..n : t[i] = q[i]
      /\ t[n + 1] = m
  OBVIOUS
<1>2. b \in [0..n -> Versions]
  BY DEF Trail
<1>3. c \in [0..(n + 1) -> Versions] /\ c[n + 1] = w /\ \A i \in 0..n : c[i] = b[i]
  BY <1>1, <1>2
<1>4. Place(x, t, n + 1) = At(m) /\ \A i \in 0..n : Place(x, t, i) = Place(x, q, i)
  BY <1>1 DEF Place
<1>5. /\ \A i \in 0..n : Place(x, q, i) \in Position
      /\ At(m) \in Position
  BY Places, EventFields
<1> HIDE DEF t, c
<1>6. ASSUME NEW i \in 0..(n + 1), NEW j \in 0..(n + 1), i < j
      PROVE  Before(Place(x, t, i), Place(x, t, j))
  <2>1. CASE j = n + 1
    <3>1. i \in 0..n /\ n \in 0..n
      BY <1>1, <1>6
    <3>2. i = n \/ Before(Place(x, q, i), Place(x, q, n))
      BY <1>1, <3>1 DEF Trail
    <3>3. Before(Place(x, q, i), At(m))
      BY <1>5, <3>1, <3>2, BeforeFacts
    <3> QED  BY <1>4, <2>1, <3>1, <3>3
  <2>2. CASE j # n + 1
    <3>1. i \in 0..n /\ j \in 0..n
      BY <1>1, <1>6, <2>2
    <3> QED  BY <1>4, <1>6, <3>1 DEF Trail
  <2> QED  BY <2>1, <2>2
<1>7. ASSUME NEW i \in 1..(n + 1) PROVE Link(Place(x, t, i - 1), t[i], c[i - 1], c[i])
  <2>1. CASE i = n + 1
    <3>1. i - 1 = n /\ n \in 0..n
      BY <1>1, <2>1
    <3> QED  BY <1>1, <1>3, <1>4, <2>1, <3>1
  <2>2. CASE i # n + 1
    <3>1. i \in 1..n /\ i \in 0..n /\ i - 1 \in 0..n
      BY <1>1, <2>2
    <3>2. Link(Place(x, q, i - 1), q[i], b[i - 1], b[i])
      BY <3>1 DEF Trail
    <3> QED  BY <1>1, <1>3, <1>4, <3>1, <3>2
  <2> QED  BY <2>1, <2>2
<1>8. Trail(x, t, c)
  BY <1>1, <1>3, <1>6, <1>7 DEF Trail
<1>9. 0 \in 0..n
  BY <1>1
<1> QED  BY <1>1, <1>3, <1>4, <1>8, <1>9 DEF t

\* The first k events of a trail, and what is left after them.
LEMMA TrailSplit ==
  ASSUME NEW x \in Position, NEW q \in Seq(Books!Event), NEW b, Trail(x, q, b), NEW k \in 0..Len(q)
  PROVE  LET p == SubSeq(q, 1, k)
             r == SubSeq(q, k + 1, Len(q))
             y == Place(x, q, k)
         IN  /\ p \in Seq(Books!Event) /\ Len(p) = k /\ \A i \in 1..k : p[i] = q[i]
             /\ r \in Seq(Books!Event) /\ Len(r) = Len(q) - k
             /\ y \in Position /\ y = Place(x, p, k)
             /\ \E c : Trail(x, p, c) /\ \A i \in 0..k : c[i] = b[i]
             /\ \E c : /\ Trail(y, r, c) /\ c[0] = b[k] /\ c[Len(q) - k] = b[Len(q)]
                       /\ Place(y, r, Len(q) - k) = Place(x, q, Len(q))
<1> DEFINE n == Len(q)
           p == SubSeq(q, 1, k)
           r == SubSeq(q, k + 1, n)
           y == Place(x, q, k)
           c == [i \in 0..k |-> b[i]]
           d == [i \in 0..(n - k) |-> b[k + i]]
<1>1. n \in Nat /\ k \in Nat /\ k <= n /\ \A i \in 1..n : q[i] \in Books!Event
  OBVIOUS
<1>2. p \in Seq(Books!Event) /\ Len(p) = k /\ \A i \in 1..k : p[i] = q[i]
  <2>1. \A i \in 1..k : q[i] \in Books!Event
    BY <1>1
  <2>2. /\ p \in Seq(Books!Event)
        /\ Len(p) = IF 1 <= k THEN k - 1 + 1 ELSE 0
        /\ \A i \in 1..(k - 1 + 1) : p[i] = q[1 + i - 1]
    BY <1>1, <2>1, SubSeqProperties
  <2>3. \A i \in 1..k : i \in 1..(k - 1 + 1) /\ 1 + i - 1 = i
    BY <1>1
  <2>4. Len(p) = k
    BY <1>1, <2>2
  <2> HIDE DEF p
  <2> QED  BY <2>2, <2>3, <2>4
<1>3. r \in Seq(Books!Event) /\ Len(r) = n - k /\ \A i \in 1..(n - k) : r[i] = q[k + i]
  <2>1. \A i \in (k + 1)..n : q[i] \in Books!Event
    BY <1>1
  <2>2. k + 1 \in Int /\ n \in Int
    BY <1>1
  <2>3. /\ r \in Seq(Books!Event)
        /\ Len(r) = IF k + 1 <= n THEN n - (k + 1) + 1 ELSE 0
        /\ \A i \in 1..(n - (k + 1) + 1) : r[i] = q[k + 1 + i - 1]
    BY <2>1, <2>2, SubSeqProperties
  <2>4. \A i \in 1..(n - k) : i \in 1..(n - (k + 1) + 1) /\ k + 1 + i - 1 = k + i
    BY <1>1
  <2>5. Len(r) = n - k
    BY <1>1, <2>3
  <2> HIDE DEF r
  <2> QED  BY <2>3, <2>4, <2>5
<1>4. b \in [0..n -> Versions]
  BY DEF Trail
<1>5. /\ c \in [0..k -> Versions] /\ \A i \in 0..k : c[i] = b[i]
      /\ d \in [0..(n - k) -> Versions] /\ \A i \in 0..(n - k) : d[i] = b[k + i]
  BY <1>1, <1>4
<1> HIDE DEF p, r, c, d
<1>6. \A i \in 0..k : i \in 0..n /\ Place(x, p, i) = Place(x, q, i)
  BY <1>1, <1>2 DEF Place
<1>7. \A i \in 0..(n - k) : k + i \in 0..n /\ Place(y, r, i) = Place(x, q, k + i)
  <2>1. \A i \in 0..(n - k) : i = 0 \/ i \in 1..(n - k)
    BY <1>1
  <2>2. k + 0 = k /\ k \in 0..n /\ Place(y, r, 0) = y
    BY <1>1 DEF Place
  <2>3. ASSUME NEW i \in 1..(n - k) PROVE k + i \in 0..n /\ Place(y, r, i) = Place(x, q, k + i)
    <3>1. i # 0 /\ k + i # 0 /\ k + i \in 0..n
      BY <1>1
    <3>2. r[i] = q[k + i]
      BY <1>3
    <3> QED  BY <3>1, <3>2 DEF Place
  <2> HIDE DEF y
  <2>4. y = Place(x, q, k)
    BY DEF y
  <2> QED  BY <2>1, <2>2, <2>3, <2>4
<1>8. Trail(x, p, c)
  <2>1. \A i, j \in 0..k : i < j => Before(Place(x, p, i), Place(x, p, j))
    BY <1>6 DEF Trail
  <2>2. ASSUME NEW i \in 1..k PROVE Link(Place(x, p, i - 1), p[i], c[i - 1], c[i])
    <3>1. i \in 1..n /\ i \in 0..k /\ i - 1 \in 0..k
      BY <1>1
    <3>2. Link(Place(x, q, i - 1), q[i], b[i - 1], b[i])
      BY <3>1 DEF Trail
    <3> QED  BY <1>2, <1>5, <1>6, <3>1, <3>2
  <2> QED  BY <1>2, <1>5, <2>1, <2>2 DEF Trail
<1>9. Trail(y, r, d)
  <2>1. ASSUME NEW i \in 0..(n - k), NEW j \in 0..(n - k), i < j
        PROVE  Before(Place(y, r, i), Place(y, r, j))
    <3>1. k + i < k + j
      BY <1>1, <2>1
    <3> QED  BY <1>7, <3>1 DEF Trail
  <2>2. ASSUME NEW i \in 1..(n - k) PROVE Link(Place(y, r, i - 1), r[i], d[i - 1], d[i])
    <3>1. k + i \in 1..n /\ i \in 0..(n - k) /\ i - 1 \in 0..(n - k) /\ k + i - 1 = k + (i - 1)
      BY <1>1
    <3>2. Link(Place(x, q, k + i - 1), q[k + i], b[k + i - 1], b[k + i])
      BY <3>1 DEF Trail
    <3> QED  BY <1>3, <1>5, <1>7, <3>1, <3>2
  <2> QED  BY <1>3, <1>5, <2>1, <2>2 DEF Trail
<1>10. y \in Position /\ y = Place(x, p, k)
  <2>1. k \in 0..k /\ k \in 0..n
    BY <1>1
  <2> QED  BY <1>6, <2>1, Places
<1>11. d[0] = b[k] /\ d[n - k] = b[n] /\ Place(y, r, n - k) = Place(x, q, n)
  <2>1. 0 \in 0..(n - k) /\ n - k \in 0..(n - k) /\ k + 0 = k /\ k + (n - k) = n
    BY <1>1
  <2> QED  BY <1>5, <1>7, <2>1
<1> QED  BY <1>2, <1>3, <1>5, <1>8, <1>9, <1>10, <1>11 DEF p, r

\* The sequence without events.
LEMMA TrailEmpty ==
  ASSUME NEW x \in Position, NEW v \in Versions
  PROVE  \E b : Trail(x, <<>>, b) /\ b[0] = v
<1> DEFINE b == [i \in 0..0 |-> v]
<1>1. /\ b \in [0..0 -> Versions] /\ b[0] = v /\ Len(<<>>) = 0
      /\ \A i, j \in 0..0 : ~ (i < j)
      /\ \A i \in 1..0 : FALSE
  OBVIOUS
<1>2. Trail(x, <<>>, b)
  BY <1>1 DEF Trail
<1> QED  BY <1>1, <1>2

\* The trail of a reset of every book: f has the number of the last event
\* before it.
LEMMA TrailReset ==
  ASSUME BookBounds, NEW x \in Position, NEW q \in Seq(Books!Event), NEW b, Trail(x, q, b),
         NEW f, f.conn \in Nat, f.seq \in Nat,
         Place(x, q, Len(q)) = At(f) \/ Before(Place(x, q, Len(q)), At(f)),
         f.conn = 0 => f.seq = 0, x.seq = 0 => x.conn = 0
  PROVE  LET t == q \o Resets(f) IN
         /\ t \in Seq(Books!Event) /\ Len(t) = Len(q) + Len(Symbols)
         /\ \E c : /\ Trail(x, t, c) /\ c[0] = b[0] /\ c[Len(t)] = Books!NoBooks
                   /\ Place(x, t, Len(t)) = [conn |-> f.conn, seq |-> f.seq + Len(Symbols)]
<1> DEFINE n == Len(q)
           l == Len(Symbols)
           r == Resets(f)
           t == q \o r
           z == Place(x, q, n)
           u == IF z = At(f) THEN b[n] ELSE Books!NoBooks
           c == [i \in 0..(n + l) |-> IF i <= n THEN b[i] ELSE Cleared(u, i - n)]
           M(j) == [conn |-> f.conn, seq |-> f.seq + j, symbol |-> Symbols[j], kind |-> "reset",
                    book |-> 0]
<1>1. /\ n \in Nat /\ l \in Nat /\ l > 0
      /\ \A i \in 1..n : q[i] \in Books!Event
      /\ b \in [0..n -> Versions] /\ 0 \in 0..n /\ n \in 0..n
      /\ Books!NoBooks \in Versions
  BY SymbolFacts DEF Trail
<1>2. \A j \in 1..l : M(j) \in Books!Event
  <2>1. \A j \in 1..l : Symbols[j] \in Books!Symbol /\ f.seq + j \in Nat
    BY SymbolFacts
  <2>2. 0 \in 0..MaxVersion
    BY DEF BookBounds
  <2> QED  BY <2>1, <2>2 DEF Books!Event
<1>3. r \in Seq(Books!Event) /\ Len(r) = l /\ \A j \in 1..l : r[j] = M(j)
  <2>1. r = [j \in 1..l |-> M(j)]
    BY SymbolFacts DEF Resets
  <2> HIDE DEF r, M
  <2>2. r \in [1..l -> Books!Event]
    BY <1>2, <2>1
  <2> QED  BY <1>1, <2>1, <2>2
<1> HIDE DEF r
<1>4. /\ t \in Seq(Books!Event) /\ Len(t) = n + l
      /\ \A i \in 1..n : t[i] = q[i]
      /\ \A j \in 1..l : t[n + j] = M(j)
  <2>1. /\ t \in Seq(Books!Event) /\ Len(t) = n + Len(r)
        /\ \A i \in 1..(n + Len(r)) : t[i] = IF i <= n THEN q[i] ELSE r[i - n]
    <3>1. q \in Seq(Books!Event) /\ r \in Seq(Books!Event)
      BY <1>3
    <3> QED  BY ONLY <3>1, ConcatProperties
  <2> HIDE DEF t, M
  <2>2. \A j \in 1..l : n + j \in 1..(n + l) /\ ~ (n + j <= n) /\ (n + j) - n = j
    BY <1>1
  <2>3. \A i \in 1..n : i \in 1..(n + l) /\ i <= n
    BY <1>1
  <2> QED  BY <1>3, <2>1, <2>2, <2>3
<1> HIDE DEF t
<1>5. /\ z \in Position /\ At(f) \in Position /\ u \in Versions
      /\ \A i \in 0..n : Place(x, t, i) = Place(x, q, i) /\ Place(x, q, i) \in Position
      /\ \A j \in 1..l : Place(x, t, n + j) = [conn |-> f.conn, seq |-> f.seq + j]
  <2>1. z \in Position /\ \A i \in 0..n : Place(x, q, i) \in Position
    BY <1>1, Places
  <2>2. At(f) \in Position
    BY DEF At, Position
  <2>3. \A i \in 0..n : Place(x, t, i) = Place(x, q, i)
    BY <1>1, <1>4 DEF Place
  <2>4. \A j \in 1..l : n + j # 0 /\ Place(x, t, n + j) = At(M(j))
    BY <1>1, <1>4 DEF Place
  <2>5. \A j \in 1..l : At(M(j)) = [conn |-> f.conn, seq |-> f.seq + j]
    BY DEF At
  <2>6. u \in Versions
    BY <1>1
  <2> QED  BY <2>1, <2>2, <2>3, <2>4, <2>5, <2>6
<1>6. /\ c \in [0..(n + l) -> Versions]
      /\ \A i \in 0..n : c[i] = b[i]
      /\ \A j \in 1..l : n + j \in 0..(n + l) /\ c[n + j] = Cleared(u, j)
  <2>1. \A j \in Nat : Cleared(u, j) \in Versions
    BY <1>5, ClearedFacts
  <2>2. \A i \in 0..(n + l) : ~ (i <= n) => i - n \in Nat
    BY <1>1
  <2>3. \A i \in 0..n : i \in 0..(n + l) /\ i <= n
    BY <1>1
  <2>4. \A j \in 1..l : n + j \in 0..(n + l) /\ ~ (n + j <= n) /\ (n + j) - n = j
    BY <1>1
  <2> HIDE DEF u
  <2>5. c \in [0..(n + l) -> Versions]
    BY <1>1, <2>1, <2>2, <2>3
  <2> QED  BY <2>3, <2>4, <2>5
<1> HIDE DEF c
<1>7. ASSUME NEW i \in 0..(n + l), NEW j \in 0..(n + l), i < j
      PROVE  Before(Place(x, t, i), Place(x, t, j))
  <2>1. CASE j \in 0..n
    <3>1. i \in 0..n
      BY <1>1, <1>7, <2>1
    <3> QED  BY <1>5, <1>7, <2>1, <3>1 DEF Trail
  <2>2. CASE i \in 0..n /\ j \notin 0..n
    <3>1. j - n \in 1..l /\ n + (j - n) = j
      BY <1>1, <2>2
    <3>2. Place(x, t, j) = [conn |-> f.conn, seq |-> f.seq + (j - n)]
      BY <1>5, <3>1
    <3>3. Before(At(f), Place(x, t, j)) /\ Place(x, t, j) \in Position
      BY <3>1, <3>2 DEF Before, At, Position
    <3>4. i = n \/ Before(Place(x, q, i), z)
      BY <1>1, <2>2 DEF Trail
    <3> QED  BY <1>5, <2>2, <3>3, <3>4, BeforeFacts
  <2>3. CASE i \notin 0..n /\ j \notin 0..n
    <3>1. i - n \in 1..l /\ n + (i - n) = i /\ j - n \in 1..l /\ n + (j - n) = j
      BY <1>1, <2>3
    <3>2. /\ Place(x, t, i) = [conn |-> f.conn, seq |-> f.seq + (i - n)]
          /\ Place(x, t, j) = [conn |-> f.conn, seq |-> f.seq + (j - n)]
      BY <1>5, <3>1
    <3>3. f.seq + (i - n) < f.seq + (j - n)
      BY <1>1, <1>7
    <3> QED  BY <3>2, <3>3 DEF Before
  <2>4. i \notin 0..n => j \notin 0..n
    BY <1>1, <1>7
  <2> QED  BY <2>1, <2>2, <2>3, <2>4
<1>8. ASSUME NEW i \in 1..(n + l) PROVE Link(Place(x, t, i - 1), t[i], c[i - 1], c[i])
  <2>1. CASE i \in 1..n
    <3>1. i \in 0..n /\ i - 1 \in 0..n
      BY <1>1, <2>1
    <3>2. Link(Place(x, q, i - 1), q[i], b[i - 1], b[i])
      BY <2>1 DEF Trail
    <3> QED  BY <1>4, <1>5, <1>6, <2>1, <3>1, <3>2
  <2>2. CASE i = n + 1
    <3>1. i - 1 = n /\ 1 \in 1..l
      BY <1>1, <2>2
    <3>2. /\ Place(x, t, i - 1) = z /\ t[i] = M(1) /\ c[i - 1] = b[n] /\ c[i] = Cleared(u, 1)
      BY <1>1, <1>4, <1>5, <1>6, <2>2, <3>1
    <3>3. Cleared(u, 1)[Symbols[1]] = 0 /\ Cleared(u, 1) = [u EXCEPT ![Symbols[1]] = 0]
      BY <1>5, <3>1, ClearedFacts
    <3>4. f.conn # z.conn => Cleared(u, 1) = Books!NoBooks
      <4>1. f.conn # z.conn => u = Books!NoBooks
        BY DEF At
      <4>2. 1 \in Nat
        OBVIOUS
      <4> QED  BY <1>5, <4>1, <4>2, ClearedFacts
    <3>5. Follows(z, M(1)) => Cleared(u, 1) = [b[n] EXCEPT ![Symbols[1]] = 0]
      <4> SUFFICES ASSUME Follows(z, M(1)) PROVE u = b[n]
        BY <3>3
      <4>1. z.conn = f.conn /\ z.seq = f.seq
        BY <1>5 DEF Follows, Position
      <4>2. z = At(f)
        BY <1>5, <4>1 DEF At, Position
      <4> QED  BY <4>2
    <3>6. f.conn = z.conn /\ z.seq = 0 => f.seq + 1 = 1
      <4> SUFFICES ASSUME f.conn = z.conn, z.seq = 0 PROVE f.seq = 0
        OBVIOUS
      <4>1. n = 0
        <5> SUFFICES ASSUME n # 0 PROVE FALSE
          OBVIOUS
        <5>1. n \in 1..n /\ z = At(q[n])
          BY <1>1 DEF Place
        <5>2. q[n].seq > 0
          BY <5>1 DEF Trail, Link
        <5> QED  BY <5>1, <5>2 DEF At
      <4>2. z = x
        BY <4>1 DEF Place
      <4> QED  BY <4>2
    <3> HIDE DEF z, u
    <3> QED  BY <3>2, <3>3, <3>4, <3>5, <3>6 DEF Link
  <2>3. CASE i \notin 1..(n + 1)
    <3>1. PICK j \in 1..l : j > 1 /\ i = n + j
      <4>1. i - n \in 1..l /\ i - n > 1 /\ i = n + (i - n)
        BY <1>1, <2>3
      <4> QED  BY <4>1
    <3>2. j - 1 \in 1..l /\ i - 1 = n + (j - 1)
      BY <1>1, <3>1
    <3>3. /\ Place(x, t, i - 1) = [conn |-> f.conn, seq |-> f.seq + (j - 1)]
          /\ t[i] = M(j) /\ c[i - 1] = Cleared(u, j - 1) /\ c[i] = Cleared(u, j)
      BY <1>4, <1>5, <1>6, <3>1, <3>2
    <3>4. /\ Cleared(u, j)[Symbols[j]] = 0
          /\ Cleared(u, j) = [Cleared(u, j - 1) EXCEPT ![Symbols[j]] = 0]
      BY <1>5, <3>1, ClearedFacts
    <3>5. f.seq + j > 0 /\ f.seq + (j - 1) # 0
      BY <3>1
    <3> HIDE DEF u
    <3> QED  BY <3>3, <3>4, <3>5 DEF Link
  <2>4. i \in 1..n \/ i = n + 1 \/ i \notin 1..(n + 1)
    BY <1>1
  <2> QED  BY <2>1, <2>2, <2>3, <2>4
<1>9. Trail(x, t, c)
  BY <1>4, <1>6, <1>7, <1>8 DEF Trail
<1>10. c[0] = b[0] /\ c[n + l] = Books!NoBooks
  <2>1. l \in 1..l
    BY <1>1
  <2>2. Cleared(u, l) = Books!NoBooks
    BY <1>5, ClearedFacts
  <2> QED  BY <1>1, <1>6, <2>1, <2>2
<1>11. Place(x, t, n + l) = [conn |-> f.conn, seq |-> f.seq + l]
  <2>1. l \in 1..l
    BY <1>1
  <2> QED  BY <1>5, <2>1
<1> QED  BY <1>4, <1>9, <1>10, <1>11 DEF t, r

-----------------------------------------------------------------------------
(* The engine *)

Engine == [conn : Nat, last : Nat, book : Versions, whole : SUBSET Books!Symbol,
           required : SUBSET Books!Symbol, asks : SUBSET Nat]

LEMMA EngineFields ==
  ASSUME NEW e \in Engine
  PROVE  /\ e.conn \in Nat /\ e.last \in Nat /\ e.book \in Versions
         /\ e.whole \in SUBSET Books!Symbol /\ e.required \in SUBSET Books!Symbol
         /\ e.asks \in SUBSET Nat
         /\ Here(e) \in Position
BY DEF Engine, Here, Position

\* What Invalidate leaves.
LEMMA InvalidateFacts ==
  ASSUME BookBounds, NEW e \in Engine, NEW S \in SUBSET Books!Symbol, NEW request \in BOOLEAN
  PROVE  LET i == Books!Invalidate(e, S, request) IN
         /\ i \in Engine
         /\ i.conn = e.conn /\ i.last = e.last /\ i.whole = e.whole
         /\ i.required = IF request THEN e.required \cup S ELSE e.required \ S
         /\ \A s \in Books!Symbol : i.book[s] = IF s \in S THEN 0 ELSE e.book[s]
<1> DEFINE b == [s \in Books!Symbol |-> IF s \in S THEN 0 ELSE e.book[s]]
           r == IF request THEN e.required \cup S ELSE e.required \ S
           a == IF request /\ ~ S \subseteq e.required THEN e.asks \cup {e.conn} ELSE e.asks
           i == [e EXCEPT !.book = b, !.required = r, !.asks = a]
<1>1. b \in Versions /\ r \in SUBSET Books!Symbol /\ a \in SUBSET Nat
  BY EngineFields DEF Versions, BookBounds
<1>2. Books!Invalidate(e, S, request) = i
  BY DEF Books!Invalidate
<1>3. \A s \in Books!Symbol : b[s] = IF s \in S THEN 0 ELSE e.book[s]
  OBVIOUS
<1> HIDE DEF b, r, a
<1>4. /\ i \in Engine /\ i.conn = e.conn /\ i.last = e.last /\ i.whole = e.whole
      /\ i.required = r /\ i.book = b
  BY <1>1 DEF Engine
<1> QED  BY <1>2, <1>3, <1>4 DEF r

\* Everything invalid and requested agrees with any books.
LEMMA AllRequested ==
  ASSUME BookBounds, NEW e \in Engine, NEW v
  PROVE  Agrees(Books!Invalidate(e, Books!Symbol, TRUE), v)
<1> DEFINE i == Books!Invalidate(e, Books!Symbol, TRUE)
<1>1. i.required = e.required \cup Books!Symbol /\ \A s \in Books!Symbol : i.book[s] = 0
  BY InvalidateFacts
<1> HIDE DEF i
<1>2. Agrees(i, v)
  BY <1>1 DEF Agrees
<1> QED  BY <1>2 DEF i

\* An engine that has read up to an event and agrees with the books before it,
\* but for that of its symbol.
LEMMA AcceptAgrees ==
  ASSUME BookBounds, NEW g \in Engine, NEW m \in Books!Event, NEW v \in Versions, NEW w \in Versions,
         Agrees(g, v),
         w[m.symbol] = m.book, m.kind = "reset" => m.book = 0,
         \A s \in Books!Symbol : s # m.symbol =>
            w[s] = v[s] \/ (g.book[s] = 0 /\ (w[s] = 0 \/ s \in g.required)),
         m.kind = "update" /\ g.book[m.symbol] > 0 => m.book = v[m.symbol] + 1
  PROVE  LET a == Books!Accept(g, m) IN
         a \in Engine /\ a.conn = g.conn /\ a.last = g.last /\ Agrees(a, w)
<1> DEFINE s == m.symbol
<1>1. /\ s \in Books!Symbol /\ m.book \in 0..MaxVersion /\ MaxVersion \in Nat
      /\ m.kind \in {"reset", "snapshot", "update", "broken", "odd"}
      /\ g.book \in [Books!Symbol -> 0..MaxVersion] /\ {s} \in SUBSET Books!Symbol
      /\ v \in [Books!Symbol -> 0..MaxVersion] /\ w \in [Books!Symbol -> 0..MaxVersion]
  BY EventFields, EngineFields DEF Versions, BookBounds
<1> DEFINE Rest(a) == /\ a \in Engine /\ a.conn = g.conn /\ a.last = g.last
                      /\ \A t \in Books!Symbol \ {s} : /\ a.book[t] = g.book[t]
                                                       /\ t \in g.whole => t \in a.whole
                                                       /\ t \in g.required => t \in a.required
           Own(a) == /\ a.book[s] > 0 => s \in a.whole /\ a.book[s] = m.book
                     /\ a.book[s] = 0 => m.book = 0 \/ s \in a.required
<1>2. ASSUME NEW a, Rest(a), Own(a)
      PROVE  a \in Engine /\ a.conn = g.conn /\ a.last = g.last /\ Agrees(a, w)
  <2>1. ASSUME NEW t \in Books!Symbol
        PROVE  /\ a.book[t] > 0 => t \in a.whole /\ a.book[t] = w[t]
               /\ a.book[t] = 0 => w[t] = 0 \/ t \in a.required
    <3>1. CASE t = s
      BY <1>2, <3>1
    <3>2. CASE t # s
      <4>1. /\ g.book[t] > 0 => t \in g.whole /\ g.book[t] = v[t]
            /\ g.book[t] = 0 => v[t] = 0 \/ t \in g.required
        BY DEF Agrees
      <4>2. /\ a.book[t] = g.book[t]
            /\ t \in g.whole => t \in a.whole
            /\ t \in g.required => t \in a.required
        BY <1>2, <3>2
      <4>3. w[t] = v[t] \/ (g.book[t] = 0 /\ (w[t] = 0 \/ t \in g.required))
        BY <3>2
      <4> QED  BY <4>1, <4>2, <4>3
    <3> QED  BY <3>1, <3>2
  <2> QED  BY <1>2, <2>1 DEF Agrees
<1> HIDE DEF Rest, Own, s
<1> SUFFICES Rest(Books!Accept(g, m)) /\ Own(Books!Accept(g, m))
  BY <1>2
<1>3. CASE m.kind = "reset"
  <2> DEFINE a == Books!Invalidate(g, {s}, FALSE)
  <2>0. LET i == Books!Invalidate(g, {s}, FALSE) IN
        /\ i \in Engine
        /\ i.conn = g.conn /\ i.last = g.last /\ i.whole = g.whole
        /\ i.required = IF FALSE THEN g.required \cup {s} ELSE g.required \ {s}
        /\ \A t \in Books!Symbol : i.book[t] = IF t \in {s} THEN 0 ELSE g.book[t]
    <3>1. {s} \in SUBSET Books!Symbol /\ FALSE \in BOOLEAN /\ TRUE \in BOOLEAN
      BY <1>1
    <3> QED  BY ONLY BookBounds, g \in Engine, <3>1, InvalidateFacts
  <2>1. Books!Accept(g, m) = a
    BY <1>3 DEF Books!Accept, s
  <2>2. /\ a \in Engine /\ a.conn = g.conn /\ a.last = g.last /\ a.whole = g.whole
        /\ a.required = g.required \ {s}
        /\ \A t \in Books!Symbol : a.book[t] = IF t \in {s} THEN 0 ELSE g.book[t]
    BY <2>0
  <2> HIDE DEF a
  <2>3. Rest(a)
    BY <2>2 DEF Rest
  <2>4. Own(a)
    BY <1>1, <1>3, <2>2 DEF Own
  <2> QED  BY <2>1, <2>3, <2>4
<1>4. CASE m.kind = "snapshot"
  <2> DEFINE b == [g.book EXCEPT ![s] = m.book]
             a == [g EXCEPT !.book = b, !.whole = g.whole \cup {s}, !.required = g.required \ {s}]
  <2>1. Books!Accept(g, m) = a
    BY <1>4 DEF Books!Accept, s
  <2>2. b \in Versions /\ b[s] = m.book /\ \A t \in Books!Symbol \ {s} : b[t] = g.book[t]
    BY <1>1 DEF Versions
  <2> HIDE DEF b
  <2>3. /\ a \in Engine /\ a.conn = g.conn /\ a.last = g.last
        /\ a.book = b /\ a.whole = g.whole \cup {s} /\ a.required = g.required \ {s}
    BY <1>1, <2>2 DEF Engine
  <2> HIDE DEF a
  <2>4. Rest(a)
    BY <2>2, <2>3 DEF Rest
  <2>5. Own(a)
    BY <1>1, <2>2, <2>3 DEF Own
  <2> QED  BY <2>1, <2>4, <2>5
<1>5. CASE m.kind = "update" /\ g.book[s] > 0
  <2> DEFINE b == [g.book EXCEPT ![s] = m.book]
             o == IF m.book = g.book[s] + 1 THEN g.whole ELSE g.whole \ {s}
             a == [g EXCEPT !.book = b, !.whole = o]
  <2>1. Books!Accept(g, m) = a
    BY <1>5 DEF Books!Accept, s
  <2>2. b \in Versions /\ b[s] = m.book /\ \A t \in Books!Symbol \ {s} : b[t] = g.book[t]
    BY <1>1 DEF Versions
  <2>3. g.book[s] = v[s] /\ s \in g.whole /\ m.book = v[s] + 1
    BY <1>1, <1>5 DEF Agrees, s
  <2>4. o = g.whole /\ g.whole \in SUBSET Books!Symbol
    BY <2>3, EngineFields
  <2> HIDE DEF b, o
  <2>5. /\ a \in Engine /\ a.conn = g.conn /\ a.last = g.last
        /\ a.book = b /\ a.whole = g.whole /\ a.required = g.required
    BY <1>1, <2>2, <2>4 DEF Engine
  <2> HIDE DEF a
  <2>6. Rest(a)
    BY <2>2, <2>5 DEF Rest
  <2>7. Own(a)
    BY <1>1, <2>2, <2>3, <2>5 DEF Own
  <2> QED  BY <2>1, <2>6, <2>7
<1>6. CASE m.kind \notin {"reset", "snapshot"} /\ ~ (m.kind = "update" /\ g.book[s] > 0)
  <2> DEFINE a == Books!Invalidate(g, {s}, TRUE)
  <2>0. LET i == Books!Invalidate(g, {s}, TRUE) IN
        /\ i \in Engine
        /\ i.conn = g.conn /\ i.last = g.last /\ i.whole = g.whole
        /\ i.required = IF TRUE THEN g.required \cup {s} ELSE g.required \ {s}
        /\ \A t \in Books!Symbol : i.book[t] = IF t \in {s} THEN 0 ELSE g.book[t]
    <3>1. {s} \in SUBSET Books!Symbol /\ FALSE \in BOOLEAN /\ TRUE \in BOOLEAN
      BY <1>1
    <3> QED  BY ONLY BookBounds, g \in Engine, <3>1, InvalidateFacts
  <2>1. Books!Accept(g, m) = a
    BY <1>6 DEF Books!Accept, s
  <2>2. /\ a \in Engine /\ a.conn = g.conn /\ a.last = g.last /\ a.whole = g.whole
        /\ a.required = g.required \cup {s}
        /\ \A t \in Books!Symbol : a.book[t] = IF t \in {s} THEN 0 ELSE g.book[t]
    BY <2>0
  <2> HIDE DEF a
  <2>3. Rest(a)
    BY <2>2 DEF Rest
  <2>4. Own(a)
    BY <1>1, <2>2 DEF Own
  <2> QED  BY <2>1, <2>3, <2>4
<1> QED  BY <1>3, <1>4, <1>5, <1>6

\* The next event of a trail.
LEMMA EventAgrees ==
  ASSUME BookBounds, NEW e \in Engine, NEW m \in Books!Event, NEW v \in Versions, NEW w \in Versions,
         Agrees(e, v), Before(Here(e), At(m)), Link(Here(e), m, v, w), e.last = 0 => e.conn = 0
  PROVE  LET r == Books!OnEvent(e, m) IN
         r \in Engine /\ Here(r) = At(m) /\ r.last # 0 /\ Agrees(r, w)
<1>1. /\ e.conn \in Nat /\ e.last \in Nat /\ m.conn \in Nat /\ m.seq \in Nat /\ m.symbol \in Books!Symbol
      /\ m.seq > 0 /\ w[m.symbol] = m.book /\ (m.kind = "reset" => m.book = 0)
      /\ m.book \in 0..MaxVersion /\ MaxVersion \in Nat
      /\ v \in [Books!Symbol -> 0..MaxVersion] /\ w \in [Books!Symbol -> 0..MaxVersion]
      /\ e.book \in [Books!Symbol -> 0..MaxVersion]
  BY EngineFields, EventFields DEF Link, Versions, BookBounds
<1>2. e.conn < m.conn \/ (e.conn = m.conn /\ e.last < m.seq)
  BY DEF Before, Here, At
<1>3. \A g \in Engine : [g EXCEPT !.last = m.seq] \in Engine
  BY <1>1 DEF Engine
<1> DEFINE Later(g) == [g EXCEPT !.last = m.seq]
<1>4. ASSUME NEW g \in Engine
      PROVE  /\ Later(g) \in Engine /\ Later(g).conn = g.conn /\ Later(g).last = m.seq
             /\ Later(g).book = g.book /\ Later(g).whole = g.whole
             /\ Later(g).required = g.required
             /\ \A b : Agrees(g, b) => Agrees(Later(g), b)
  <2>1. /\ Later(g) \in Engine /\ Later(g).conn = g.conn /\ Later(g).last = m.seq
        /\ Later(g).book = g.book /\ Later(g).whole = g.whole
        /\ Later(g).required = g.required
    BY <1>1 DEF Engine
  <2> HIDE DEF Later
  <2> QED  BY <2>1 DEF Agrees
<1> HIDE DEF Later
<1>5. ASSUME NEW a \in Engine, a.conn = m.conn, a.last = m.seq, Agrees(a, w), Books!OnEvent(e, m) = a
      PROVE  /\ Books!OnEvent(e, m) \in Engine /\ Here(Books!OnEvent(e, m)) = At(m)
             /\ Books!OnEvent(e, m).last # 0 /\ Agrees(Books!OnEvent(e, m), w)
  BY <1>1, <1>5 DEF Here, At
<1>6. CASE e.conn < m.conn
  <2> DEFINE f == [Books!Invalidate(e, Books!Symbol, FALSE) EXCEPT !.conn = m.conn, !.last = 0]
             i == Books!Invalidate(e, Books!Symbol, FALSE)
  <2>1. /\ i \in Engine
        /\ \A s \in Books!Symbol : i.book[s] = 0
    BY InvalidateFacts
  <2>2. /\ f \in Engine /\ f.conn = m.conn /\ f.last = 0
        /\ \A s \in Books!Symbol : f.book[s] = 0
    <3> HIDE DEF i
    <3>1. f = [i EXCEPT !.conn = m.conn, !.last = 0]
      BY DEF i
    <3> HIDE DEF f
    <3> QED  BY <1>1, <2>1, <3>1 DEF Engine
  <2>3. Books!OnEvent(e, m) = Books!Accept(Later(f), m)
    <3>1. ~ (m.conn < e.conn) /\ ~ (m.conn = e.conn)
      BY <1>1, <1>6
    <3> HIDE DEF f
    <3>2. ~ (f.last > 0) /\ m.seq # f.last /\ ~ (m.seq < f.last)
      BY <1>1, <2>2
    <3> QED  BY <3>1, <3>2 DEF Books!OnEvent, Later, f
  <2> HIDE DEF f
  <2>4. m.kind = "reset" /\ w = Books!NoBooks
    BY <1>1, <1>6 DEF Link, Here
  <2>5. Books!NoBooks \in Versions /\ \A s \in Books!Symbol : Books!NoBooks[s] = 0
    BY SymbolFacts
  <2>6. Agrees(Later(f), Books!NoBooks) /\ Later(f) \in Engine /\ Later(f).conn = m.conn
        /\ Later(f).last = m.seq
    <3>1. Agrees(f, Books!NoBooks)
      BY <2>2, <2>5 DEF Agrees
    <3> QED  BY <1>4, <2>2, <3>1
  <2>7. LET a == Books!Accept(Later(f), m) IN
        a \in Engine /\ a.conn = Later(f).conn /\ a.last = Later(f).last /\ Agrees(a, w)
    BY <1>1, <2>4, <2>5, <2>6, AcceptAgrees
  <2> QED  BY <1>5, <2>3, <2>6, <2>7
<1>7. CASE e.conn = m.conn /\ m.seq = e.last + 1
  <2>1. Books!OnEvent(e, m) = Books!Accept(Later(e), m)
    <3>1. ~ (m.conn < e.conn) /\ m.conn = e.conn
      BY <1>1, <1>7
    <3>2. ~ (m.seq # e.last + 1) /\ m.seq # e.last /\ ~ (m.seq < e.last)
      BY <1>1, <1>7
    <3> QED  BY <3>1, <3>2 DEF Books!OnEvent, Later
  <2>2. w = [v EXCEPT ![m.symbol] = m.book] /\ (m.kind = "update" => m.book = v[m.symbol] + 1)
    BY <1>7 DEF Link, Follows, Here
  <2>3. \A s \in Books!Symbol : s # m.symbol => w[s] = v[s]
    BY <1>1, <2>2
  <2>4. /\ Later(e) \in Engine /\ Later(e).conn = e.conn /\ Later(e).last = m.seq
        /\ Agrees(Later(e), v)
    BY <1>4
  <2>5. LET a == Books!Accept(Later(e), m) IN
        a \in Engine /\ a.conn = Later(e).conn /\ a.last = Later(e).last /\ Agrees(a, w)
    <3>1. /\ w[m.symbol] = m.book /\ (m.kind = "reset" => m.book = 0)
          /\ m.kind = "update" /\ Later(e).book[m.symbol] > 0 => m.book = v[m.symbol] + 1
          /\ \A s \in Books!Symbol : s # m.symbol =>
                \/ w[s] = v[s]
                \/ Later(e).book[s] = 0 /\ (w[s] = 0 \/ s \in Later(e).required)
      BY <1>1, <2>2, <2>3
    <3> QED
      BY ONLY BookBounds, m \in Books!Event, v \in Versions, w \in Versions, <2>4, <3>1, AcceptAgrees
  <2> QED  BY <1>5, <1>7, <2>1, <2>4, <2>5
<1>8. CASE e.conn = m.conn /\ m.seq # e.last + 1
  <2> DEFINE i == Books!Invalidate(e, Books!Symbol, TRUE)
  <2>1. e.last > 0
    BY <1>1, <1>8 DEF Link, Here
  <2>2. Books!OnEvent(e, m) = Books!Accept(Later(i), m)
    <3>1. ~ (m.conn < e.conn) /\ m.conn = e.conn
      BY <1>1, <1>8
    <3>2. e.last > 0 /\ m.seq # e.last + 1 /\ m.seq # e.last /\ ~ (m.seq < e.last)
      BY <1>1, <1>2, <1>8, <2>1
    <3> QED  BY <3>1, <3>2 DEF Books!OnEvent, Later
  <2>3. /\ i \in Engine /\ i.conn = e.conn /\ i.required = e.required \cup Books!Symbol
        /\ \A s \in Books!Symbol : i.book[s] = 0
    BY InvalidateFacts
  <2>4. Agrees(i, w)
    BY AllRequested
  <2> HIDE DEF i
  <2>5. /\ Later(i) \in Engine /\ Later(i).conn = e.conn /\ Later(i).last = m.seq
        /\ Later(i).book = i.book /\ Agrees(Later(i), w)
    BY <1>4, <2>3, <2>4
  <2>6. LET a == Books!Accept(Later(i), m) IN
        a \in Engine /\ a.conn = Later(i).conn /\ a.last = Later(i).last /\ Agrees(a, w)
    <3>1. ~ (Later(i).book[m.symbol] > 0)
      BY <1>1, <2>3, <2>5
    <3> QED  BY <1>1, <2>5, <3>1, AcceptAgrees
  <2> QED  BY <1>5, <1>8, <2>2, <2>5, <2>6
<1> QED  BY <1>1, <1>2, <1>6, <1>7, <1>8

\* An event that was read before.
LEMMA ReplayAgrees ==
  ASSUME BookBounds, NEW e \in Engine, NEW m \in Books!Event, NEW v,
         Agrees(e, v), ~ Before(Here(e), At(m))
  PROVE  LET r == Books!OnEvent(e, m) IN r \in Engine /\ Here(r) = Here(e) /\ Agrees(r, v)
<1> DEFINE i == Books!Invalidate(e, Books!Symbol, TRUE)
<1>1. e.conn \in Nat /\ e.last \in Nat /\ m.conn \in Nat /\ m.seq \in Nat
  BY EngineFields, EventFields
<1>2. m.conn < e.conn \/ (m.conn = e.conn /\ m.seq <= e.last)
  BY <1>1 DEF Before, Here, At
<1>3. Books!OnEvent(e, m) = e \/ Books!OnEvent(e, m) = i
  <2>1. CASE m.conn < e.conn
    BY <2>1 DEF Books!OnEvent
  <2>2. CASE m.conn = e.conn /\ m.seq = e.last
    <3>1. ~ (m.conn < e.conn) /\ ~ (m.seq < e.last)
      BY <1>1, <2>2
    <3> QED  BY <2>2, <3>1 DEF Books!OnEvent
  <2>3. CASE m.conn = e.conn /\ m.seq < e.last
    <3>1. ~ (m.conn < e.conn) /\ m.seq # e.last
      BY <1>1, <2>3
    <3> QED  BY <2>3, <3>1 DEF Books!OnEvent
  <2>4. m.conn < e.conn \/ (m.conn = e.conn /\ (m.seq = e.last \/ m.seq < e.last))
    BY <1>1, <1>2
  <2> QED  BY <2>1, <2>2, <2>3, <2>4
<1>4. i \in Engine /\ Here(i) = Here(e)
  <2>1. i \in Engine /\ i.conn = e.conn /\ i.last = e.last
    BY InvalidateFacts
  <2> HIDE DEF i
  <2> QED  BY <2>1 DEF Here
<1>5. Agrees(i, v)
  BY AllRequested
<1> HIDE DEF i
<1> QED  BY <1>3, <1>4, <1>5

\* FoldLeft over a batch, as the engine after each of its events.
Fold(e, q, r) ==
    /\ r[0] = e
    /\ \A i \in 1..Len(q) : r[i] = Books!OnEvent(r[i - 1], q[i])
    /\ Books!FoldLeft(Books!OnEvent, e, q) = r[Len(q)]

\* The greatest of the first numbers.
LEMMA MaxFacts ==
  ASSUME NEW n \in Nat
  PROVE  \A S \in SUBSET (1..(n + 1)) : n + 1 \in S => Books!Max(S) = n + 1
<1> SUFFICES ASSUME NEW S \in SUBSET (1..(n + 1)), n + 1 \in S PROVE Books!Max(S) = n + 1
  OBVIOUS
<1>1. \A y \in S : y \in Nat /\ y <= n + 1
  OBVIOUS
<1>2. \A y \in S : n + 1 >= y
  BY <1>1
<1>3. \A x \in S : (\A y \in S : x >= y) => x = n + 1
  BY <1>1
<1> QED  BY <1>2, <1>3 DEF Books!Max

\* The recursive function of FoldLeft exists.
FoldLaw(e, q, n, h) ==
    \A S \in SUBSET (1..n) :
        h[S] = IF S = {} THEN e ELSE Books!OnEvent(h[S \ {Books!Max(S)}], q[Books!Max(S)])

FoldStep(e, q, n, h) ==
    h = [S \in SUBSET (1..n) |->
            IF S = {} THEN e ELSE Books!OnEvent(h[S \ {Books!Max(S)}], q[Books!Max(S)])]

LEMMA FoldExists == ASSUME NEW e, NEW q, NEW n \in Nat PROVE \E h : FoldStep(e, q, n, h)
<1> DEFINE M == {k \in Nat : \E h : h = [S \in SUBSET (1..k) |-> h[S]] /\ FoldLaw(e, q, k, h)}
<1>1. 0 \in M
  <2> DEFINE h == [S \in SUBSET (1..0) |-> e]
  <2>1. \A S \in SUBSET (1..0) : S = {} /\ h[S] = e
    OBVIOUS
  <2>2. h = [S \in SUBSET (1..0) |-> h[S]]
    OBVIOUS
  <2> HIDE DEF h
  <2>3. FoldLaw(e, q, 0, h)
    BY <2>1 DEF FoldLaw
  <2> QED  BY <2>2, <2>3
<1>2. ASSUME NEW k \in M PROVE k + 1 \in M
  <2>1. k \in Nat /\ k + 1 \in Nat
    OBVIOUS
  <2>2. PICK h : FoldLaw(e, q, k, h)
    OBVIOUS
  <2> HIDE DEF M
  <2> DEFINE g == [S \in SUBSET (1..(k + 1)) |->
                      IF k + 1 \in S THEN Books!OnEvent(h[S \ {k + 1}], q[k + 1]) ELSE h[S]]
  <2>3. g = [S \in SUBSET (1..(k + 1)) |-> g[S]]
    OBVIOUS
  <2>4. \A S \in SUBSET (1..(k + 1)) :
           g[S] = IF k + 1 \in S THEN Books!OnEvent(h[S \ {k + 1}], q[k + 1]) ELSE h[S]
    OBVIOUS
  <2> HIDE DEF g
  <2>5. ASSUME NEW S \in SUBSET (1..(k + 1))
        PROVE  g[S] = IF S = {} THEN e ELSE Books!OnEvent(g[S \ {Books!Max(S)}], q[Books!Max(S)])
    <3>1. CASE k + 1 \in S
      <4>1. Books!Max(S) = k + 1 /\ S # {}
        BY <2>1, <3>1, MaxFacts
      <4>2. S \ {k + 1} \in SUBSET (1..(k + 1)) /\ k + 1 \notin S \ {k + 1}
        BY <2>1
      <4>3. g[S \ {k + 1}] = h[S \ {k + 1}]
        BY <2>4, <4>2
      <4> QED  BY <2>4, <3>1, <4>1, <4>3
    <3>2. CASE k + 1 \notin S
      <4>1. S \in SUBSET (1..k)
        BY <2>1, <3>2
      <4>2. g[S] = h[S] /\ g[S \ {Books!Max(S)}] = h[S \ {Books!Max(S)}]
        <5>1. S \ {Books!Max(S)} \in SUBSET (1..(k + 1)) /\ k + 1 \notin S \ {Books!Max(S)}
          BY <3>2
        <5> QED  BY <2>4, <3>2, <5>1
      <4> QED  BY <2>2, <4>1, <4>2 DEF FoldLaw
    <3> QED  BY <3>1, <3>2
  <2>6. FoldLaw(e, q, k + 1, g)
    BY <2>5 DEF FoldLaw
  <2> QED  BY <2>1, <2>3, <2>6 DEF M
<1> HIDE DEF M
<1>3. M = Nat
  <2>1. M \subseteq Nat
    BY DEF M
  <2> QED  BY <1>1, <1>2, <2>1, SetInduction
<1>4. PICK h : h = [S \in SUBSET (1..n) |-> h[S]] /\ FoldLaw(e, q, n, h)
  BY <1>3 DEF M
<1>5. FoldStep(e, q, n, h)
  BY <1>4 DEF FoldLaw, FoldStep
<1> QED  BY <1>5

LEMMA FoldIs ==
  ASSUME NEW e, NEW q \in Seq(Books!Event)
  PROVE  \E r : Fold(e, q, r)
<1> DEFINE n == Len(q)
           Body(h, S) == IF S = {} THEN e ELSE Books!OnEvent(h[S \ {Books!Max(S)}], q[Books!Max(S)])
           h == CHOOSE h : FoldStep(e, q, n, h)
           r == [i \in 0..n |-> h[1..i]]
<1>1. n \in Nat /\ DOMAIN q = 1..n
  OBVIOUS
<1>2. Books!FoldLeft(Books!OnEvent, e, q) = h[1..n]
  BY <1>1 DEF Books!FoldLeft, Books!MapThenFoldSet, FoldStep
<1>3. \E g : FoldStep(e, q, n, g)
  BY <1>1, FoldExists
<1>4. FoldStep(e, q, n, h)
  BY <1>3
<1> HIDE DEF h
<1>5. \A S \in SUBSET (1..n) : h[S] = Body(h, S)
  <2>1. h = [S \in SUBSET (1..n) |-> Body(h, S)]
    BY <1>4 DEF FoldStep
  <2> HIDE DEF Body
  <2> QED  BY <2>1
<1>6. \A i \in 0..n : r[i] = h[1..i]
  OBVIOUS
<1> HIDE DEF r
<1>7. r[0] = e
  <2>1. 1..0 = {} /\ 0 \in 0..n
    BY <1>1
  <2> QED  BY <1>5, <1>6, <2>1
<1>8. ASSUME NEW i \in 1..n PROVE r[i] = Books!OnEvent(r[i - 1], q[i])
  <2>1. /\ i \in 0..n /\ i - 1 \in 0..n /\ i - 1 \in Nat /\ i - 1 + 1 = i
        /\ 1..i \in SUBSET (1..n) /\ 1..i # {} /\ (1..i) \ {i} = 1..(i - 1)
    <3>1. i \in Nat /\ 1 <= i /\ i <= n
      BY <1>1
    <3>2. \A k : k \in (1..i) \ {i} <=> k \in 1..(i - 1)
      BY <3>1
    <3>3. \A k \in 1..i : k \in 1..n
      BY <1>1, <3>1
    <3>4. i \in 1..i
      BY <3>1
    <3>5. (1..i) \ {i} = 1..(i - 1)
      BY <3>2
    <3>6. 1..i \in SUBSET (1..n) /\ 1..i # {}
      BY <3>3, <3>4
    <3>7. i \in 0..n /\ i - 1 \in 0..n /\ i - 1 \in Nat /\ i - 1 + 1 = i
      BY <1>1, <3>1
    <3> QED  BY <3>5, <3>6, <3>7
  <2>2. Books!Max(1..i) = i
    <3>1. 1..i \in SUBSET (1..((i - 1) + 1)) /\ (i - 1) + 1 \in 1..i
      BY <2>1
    <3>2. Books!Max(1..i) = (i - 1) + 1
      BY <2>1, <3>1, MaxFacts
    <3> QED  BY <2>1, <3>2
  <2>3. h[1..i] = Books!OnEvent(h[1..(i - 1)], q[i])
    BY <1>5, <2>1, <2>2
  <2> QED  BY <1>6, <2>1, <2>3
<1>9. r[n] = h[1..n]
  BY <1>1, <1>6
<1>10. Fold(e, q, r)
  BY <1>2, <1>7, <1>8, <1>9 DEF Fold
<1> QED  BY <1>10

-----------------------------------------------------------------------------
(* The feed *)

Feed == [state : {"idle", "connecting", "awaiting_snapshots", "streaming",
                  "resnapshot_requested", "reconnecting"} \cup Books!Over,
         conn : Nat, seq : Nat, book : Versions, coalesced : BOOLEAN]

\* The events of q are those up to f.
Leads(y, v, q, f) ==
    \E b : /\ Trail(y, q, b) /\ b[0] = v
           /\ Place(y, q, Len(q)) = At(f) \/ Before(Place(y, q, Len(q)), At(f))

\* A start that no event has left behind.
Origin == {y \in Position : y.seq = 0 => y.conn = 0}

\* A reset of every book goes on with the trail, whether the queue is kept or
\* emptied for it.
LEMMA ResetLeads ==
  ASSUME BookBounds, NEW y \in Origin, NEW v \in Versions,
         NEW q \in Seq(Books!Event), Len(q) <= BookCapacity,
         NEW f \in Feed, f.conn = 0 => f.seq = 0, Leads(y, v, q, f)
  PROVE  LET r == Books!Reset(f, q) IN
         /\ r.queue \in Seq(Books!Event) /\ Len(r.queue) <= BookCapacity
         /\ r.feed \in Feed /\ r.feed.state = f.state /\ r.feed.conn = f.conn
         /\ r.feed.seq = f.seq + Len(Symbols) /\ r.feed.seq > 0
         /\ Stream(y, v, r.queue, r.feed)
<1> DEFINE l == Len(Symbols)
           g == [f EXCEPT !.seq = @ + l, !.book = Books!NoBooks]
           kept == IF Len(q) + l > BookCapacity THEN <<>> ELSE q
           t == kept \o Resets(f)
<1>1. /\ l \in Nat /\ l > 0 /\ l <= BookCapacity /\ BookCapacity \in Nat /\ Len(q) \in Nat
      /\ f.conn \in Nat /\ f.seq \in Nat /\ Books!NoBooks \in Versions /\ y \in Position
      /\ y.seq = 0 => y.conn = 0
  BY SymbolFacts DEF BookBounds, Feed, Origin
<1>2. Books!Reset(f, q) = [feed |-> g, queue |-> t]
  BY DEF Books!Reset, Resets
<1>3. /\ g \in Feed /\ g.state = f.state /\ g.conn = f.conn /\ g.seq = f.seq + l
      /\ g.book = Books!NoBooks
  <2>1. f.seq + l \in Nat
    BY <1>1
  <2> HIDE DEF l
  <2> QED  BY <1>1, <2>1 DEF Feed
<1> HIDE DEF g
<1>4. \E b : /\ kept \in Seq(Books!Event) /\ Len(kept) + l <= BookCapacity
             /\ Trail(y, kept, b) /\ b[0] = v
             /\ Place(y, kept, Len(kept)) = At(f) \/ Before(Place(y, kept, Len(kept)), At(f))
  <2>1. PICK b : /\ Trail(y, q, b) /\ b[0] = v
                 /\ Place(y, q, Len(q)) = At(f) \/ Before(Place(y, q, Len(q)), At(f))
    BY DEF Leads
  <2>2. CASE ~ (Len(q) + l > BookCapacity)
    <3>1. kept = q /\ Len(q) + l <= BookCapacity
      BY <1>1, <2>2
    <3> HIDE DEF kept
    <3> QED  BY <2>1, <3>1
  <2>3. CASE Len(q) + l > BookCapacity
    <3>1. kept = <<>> /\ kept \in Seq(Books!Event) /\ Len(kept) = 0
      BY <2>3
    <3> HIDE DEF kept
    <3>2. PICK c : Trail(y, <<>>, c) /\ c[0] = v
      BY <1>1, TrailEmpty
    <3>3. Place(y, kept, Len(kept)) = y /\ Place(y, q, 0) = y
      BY <3>1 DEF Place
    <3>4. Before(y, Place(y, q, Len(q)))
      <4>1. 0 \in 0..Len(q) /\ Len(q) \in 0..Len(q) /\ 0 < Len(q)
        BY <1>1, <2>3
      <4> QED  BY <2>1, <3>3, <4>1 DEF Trail
    <3>5. Before(y, At(f))
      <4>1. Place(y, q, Len(q)) \in Position /\ At(f) \in Position
        <5>1. Len(q) \in 0..Len(q)
          BY <1>1
        <5>2. At(f) \in Position
          BY <1>1 DEF At, Position
        <5> QED  BY <1>1, <5>1, <5>2, Places
      <4> QED  BY <1>1, <2>1, <3>4, <4>1, BeforeFacts
    <3> QED  BY <1>1, <3>1, <3>2, <3>3, <3>5
  <2> QED  BY <2>2, <2>3
<1>5. PICK b : /\ kept \in Seq(Books!Event) /\ Len(kept) + l <= BookCapacity
               /\ Trail(y, kept, b) /\ b[0] = v
               /\ Place(y, kept, Len(kept)) = At(f) \/ Before(Place(y, kept, Len(kept)), At(f))
  BY <1>4
<1> HIDE DEF kept
<1>6. /\ t \in Seq(Books!Event) /\ Len(t) = Len(kept) + l
      /\ \E c : /\ Trail(y, t, c) /\ c[0] = b[0] /\ c[Len(t)] = Books!NoBooks
                /\ Place(y, t, Len(t)) = [conn |-> f.conn, seq |-> f.seq + l]
  BY <1>1, <1>5, TrailReset
<1> HIDE DEF t
<1>7. At(g) = [conn |-> f.conn, seq |-> f.seq + l]
  BY <1>3 DEF At
<1>8. Stream(y, v, t, g)
  BY <1>3, <1>5, <1>6, <1>7 DEF Stream
<1>9. Books!Reset(f, q).feed = g /\ Books!Reset(f, q).queue = t
  BY <1>2
<1> HIDE DEF l
<1> QED
  <2>1. Len(t) <= BookCapacity
    BY <1>1, <1>5, <1>6
  <2>2. g.seq > 0
    BY <1>1, <1>3
  <2> QED  BY <1>3, <1>6, <1>8, <1>9, <2>1, <2>2 DEF l

MessageKind == {"snapshot", "update", "broken", "odd"}

\* A message goes on with the trail.
LEMMA MessageLeads ==
  ASSUME BookBounds, NEW y \in Position, NEW v, NEW q \in Seq(Books!Event), NEW f \in Feed,
         Stream(y, v, q, f), NEW s \in Books!Symbol, f.book[s] < MaxVersion,
         NEW kind \in MessageKind,
         NEW g, g.conn = f.conn, g.seq = f.seq + 1, g.book = [f.book EXCEPT ![s] = @ + 1]
  PROVE  LET m == [conn |-> f.conn, seq |-> f.seq + 1, symbol |-> s, kind |-> kind,
                   book |-> f.book[s] + 1]
         IN  m \in Books!Event /\ Append(q, m) \in Seq(Books!Event) /\ Len(Append(q, m)) = Len(q) + 1
             /\ g.book \in Versions /\ Stream(y, v, Append(q, m), g)
<1> DEFINE m == [conn |-> f.conn, seq |-> f.seq + 1, symbol |-> s, kind |-> kind,
                 book |-> f.book[s] + 1]
           w == [f.book EXCEPT ![s] = @ + 1]
           x == Place(y, q, Len(q))
<1>1. /\ f.conn \in Nat /\ f.seq \in Nat /\ f.book \in [Books!Symbol -> 0..MaxVersion]
      /\ MaxVersion \in Nat
  BY DEF Feed, Versions, BookBounds
<1>2. f.book[s] + 1 \in 0..MaxVersion
  BY <1>1
<1>3. m \in Books!Event
  <2>1. kind \in {"reset", "snapshot", "update", "broken", "odd"} /\ f.seq + 1 \in Nat
    BY <1>1 DEF MessageKind
  <2> QED  BY <1>1, <1>2, <2>1 DEF Books!Event
<1>4. w \in Versions /\ w[s] = f.book[s] + 1 /\ w = [f.book EXCEPT ![s] = f.book[s] + 1]
  BY <1>1, <1>2 DEF Versions
<1>5. PICK b : Trail(y, q, b) /\ b[0] = v /\ b[Len(q)] = f.book /\ x = At(f)
  BY DEF Stream
<1>6. Before(x, At(m))
  BY <1>1, <1>5 DEF Before, At
<1>7. Link(x, m, b[Len(q)], w)
  <2>1. m.conn = f.conn /\ m.seq = f.seq + 1 /\ m.symbol = s /\ m.kind = kind
        /\ m.book = f.book[s] + 1
    OBVIOUS
  <2>2. x.conn = f.conn /\ x.seq = f.seq
    BY <1>5 DEF At
  <2> HIDE DEF m, w, x
  <2> QED  BY <1>1, <1>4, <1>5, <2>1, <2>2 DEF Link, MessageKind
<1>8. At(m) = At(g)
  BY DEF At
<1> HIDE DEF m, w, x
<1>9. PICK c : /\ Trail(y, Append(q, m), c) /\ c[0] = b[0] /\ c[Len(q) + 1] = w
               /\ Place(y, Append(q, m), Len(q) + 1) = At(m)
  <2>1. Before(Place(y, q, Len(q)), At(m)) /\ Link(Place(y, q, Len(q)), m, b[Len(q)], w)
    BY <1>6, <1>7 DEF x
  <2> QED  BY <1>3, <1>4, <1>5, <2>1, TrailPush
<1>10. Append(q, m) \in Seq(Books!Event) /\ Len(Append(q, m)) = Len(q) + 1
  BY <1>3
<1>11. g.book = w
  BY DEF w
<1>12. Stream(y, v, Append(q, m), g)
  BY <1>5, <1>8, <1>9, <1>10, <1>11 DEF Stream
<1> QED  BY <1>3, <1>4, <1>10, <1>11, <1>12 DEF m

\* What is published leads to the feed.
LEMMA StreamLeads ==
  ASSUME NEW y, NEW v, NEW q, NEW f, Stream(y, v, q, f), NEW g, g.conn = f.conn, g.seq = f.seq
  PROVE  Leads(y, v, q, g)
<1>1. At(g) = At(f)
  BY DEF At
<1> QED  BY <1>1 DEF Stream, Leads

\* Nothing but the place, the number and the books of the feed matters.
LEMMA StreamSame ==
  ASSUME NEW y, NEW v, NEW q, NEW f, Stream(y, v, q, f),
         NEW g, g.conn = f.conn, g.seq = f.seq, g.book = f.book
  PROVE  Stream(y, v, q, g)
<1>1. At(g) = At(f)
  BY DEF At
<1> QED  BY <1>1 DEF Stream

-----------------------------------------------------------------------------
(* The steps *)

BooksTyped ==
    /\ feed \in Feed
    /\ feedQueue \in Seq(Books!Event) /\ Len(feedQueue) <= BookCapacity
    /\ batch \in Seq(Books!Event) /\ Len(batch) <= BookBatchSize
    /\ engine \in Engine /\ engine.asks = {}
    /\ asked \subseteq Nat
    /\ marketFaults \in 0..MaxMarketFaults

LEMMA TypedIs == Books!TypeOK <=> BooksTyped
<1> DEFINE E0 == [conn : Nat, last : Nat, book : Versions, whole : SUBSET Books!Symbol,
                  required : SUBSET Books!Symbol, asks : {{}}]
<1>1. \A e : e \in E0 <=> e \in Engine /\ e.asks = {}
  BY DEF Engine
<1> HIDE DEF E0
<1>2. Books!TypeOK <=> /\ feed \in Feed
                       /\ feedQueue \in Seq(Books!Event) /\ Len(feedQueue) <= BookCapacity
                       /\ batch \in Seq(Books!Event) /\ Len(batch) <= BookBatchSize
                       /\ engine \in E0
                       /\ asked \subseteq Nat
                       /\ marketFaults \in 0..MaxMarketFaults
  BY DEF Books!TypeOK, Feed, E0, Versions
<1> QED  BY <1>1, <1>2 DEF BooksTyped

LEMMA TypedNext == Books!TypeOK' <=> BooksTyped'
BY TypedIs, PTL

\* The trail of what is unread starts behind an event or at the beginning.
LEMMA UnreadOrigin ==
  ASSUME BooksInv, NEW y \in Position, NEW v, BatchRead(y, v) \/ BatchUnread(y, v)
  PROVE  y \in Origin
<1>1. CASE BatchRead(y, v)
  BY <1>1 DEF BatchRead, Here, BooksInv, FeedInv, Origin
<1>2. CASE BatchUnread(y, v)
  <2>1. PICK b : Trail(Here(engine), batch, b)
    BY <1>2 DEF BatchUnread
  <2>2. Len(batch) \in 1..Len(batch)
    BY <1>2, TypedIs DEF BatchUnread, BooksInv, BooksTyped
  <2>3. batch[Len(batch)].seq > 0
    BY <2>1, <2>2 DEF Trail, Link
  <2>4. y = At(batch[Len(batch)])
    BY <1>2 DEF BatchUnread
  <2> QED  BY <2>3, <2>4 DEF At, Origin
<1> QED  BY <1>1, <1>2

\* A step of the feed goes on with the trail.
LEMMA FeedGoesOn ==
  ASSUME BooksInv, UNCHANGED <<batch, engine>>,
         \A y \in Origin, v \in Versions :
            Stream(y, v, feedQueue, feed) => Stream(y, v, feedQueue', feed')
  PROVE  StreamInv'
<1>1. PICK y \in Position, v \in Versions : /\ BatchRead(y, v) \/ BatchUnread(y, v)
                                            /\ Stream(y, v, feedQueue, feed)
  BY DEF BooksInv, StreamInv
<1>2. y \in Origin
  BY <1>1, UnreadOrigin
<1>3. Stream(y, v, feedQueue', feed')
  BY <1>1, <1>2
<1>4. BatchRead(y, v)' \/ BatchUnread(y, v)'
  BY <1>1 DEF BatchRead, BatchUnread
<1>5. \A q, f : q = feedQueue' /\ f = feed' => (Stream(y, v, q, f) <=> Stream(y, v, feedQueue', feed'))
  OBVIOUS
<1>6. Stream(y, v, feedQueue, feed)'
  BY <1>3
<1> QED  BY <1>4, <1>6 DEF StreamInv

\* A step that resets the books, of a feed that has the number of the last event.
LEMMA ResetGoesOn ==
  ASSUME BookBounds, BooksInv, UNCHANGED <<batch, engine>>,
         NEW f \in Feed, NEW q \in Seq(Books!Event), Len(q) <= BookCapacity,
         f.conn = 0 => f.seq = 0,
         f.state = "stopped" \/ (f.state # "idle" /\ f.conn > 0),
         \A y \in Origin, v \in Versions : Stream(y, v, feedQueue, feed) => Leads(y, v, q, f),
         Books!ResetIn(f, q), asked' \in SUBSET Nat, marketFaults' \in 0..MaxMarketFaults
  PROVE  BooksInv'
<1>1. feed' = Books!Reset(f, q).feed /\ feedQueue' = Books!Reset(f, q).queue
  BY DEF Books!ResetIn
<1>2. ASSUME NEW y \in Origin, NEW v \in Versions, Stream(y, v, feedQueue, feed)
      PROVE  /\ feedQueue' \in Seq(Books!Event) /\ Len(feedQueue') <= BookCapacity
             /\ feed' \in Feed /\ feed'.state = f.state /\ feed'.conn = f.conn /\ feed'.seq > 0
             /\ Stream(y, v, feedQueue', feed')
  <2>1. Leads(y, v, q, f)
    BY <1>2
  <2> QED  BY <1>1, <2>1, ResetLeads
<1>3. StreamInv'
  BY <1>2, FeedGoesOn
<1>4. PICK y \in Origin, v \in Versions : Stream(y, v, feedQueue, feed)
  BY UnreadOrigin DEF BooksInv, StreamInv
<1>5. /\ feedQueue' \in Seq(Books!Event) /\ Len(feedQueue') <= BookCapacity
      /\ feed' \in Feed /\ feed'.state = f.state /\ feed'.conn = f.conn /\ feed'.seq > 0
  BY <1>2, <1>4
<1>6. Books!TypeOK'
  <2>1. BooksTyped
    BY TypedIs DEF BooksInv
  <2>2. BooksTyped'
    BY <1>5, <2>1 DEF BooksTyped
  <2> QED  BY <2>2, TypedNext
<1>7. FeedInv'
  BY <1>5 DEF BooksInv, FeedInv
<1> QED  BY <1>3, <1>6, <1>7 DEF BooksInv

\* What a step of the feed may use.
LEMMA FeedFacts ==
  ASSUME BookBounds, BooksInv
  PROVE  /\ feed \in Feed
         /\ feedQueue \in Seq(Books!Event) /\ Len(feedQueue) <= BookCapacity /\ Len(feedQueue) \in Nat
         /\ feed.conn \in Nat /\ feed.seq \in Nat /\ feed.book \in Versions
         /\ asked \in SUBSET Nat /\ marketFaults \in 0..MaxMarketFaults /\ MaxMarketFaults \in Nat
         /\ feed.state \notin {"idle", "stopped"} => feed.conn > 0 /\ feed.seq > 0
         /\ feed.state = "idle" => feed.conn = 0 /\ feed.seq = 0
         /\ BooksTyped
BY TypedIs DEF BooksInv, BooksTyped, Feed, FeedInv, BookBounds

LEMMA ConnectKeeps == ASSUME BookBounds, BooksInv, Books!Connect PROVE BooksInv'
<1> DEFINE f == [state |-> "connecting", conn |-> feed.conn + 1, seq |-> 0, book |-> Books!NoBooks,
                 coalesced |-> FALSE]
<1>1. f \in Feed
  BY FeedFacts, SymbolFacts DEF Feed
<1>2. ASSUME NEW y \in Origin, NEW v \in Versions, Stream(y, v, feedQueue, feed)
      PROVE  Leads(y, v, feedQueue, f)
  <2>1. Before(At(feed), At(f))
    BY FeedFacts DEF Before, At
  <2> QED  BY <1>2, <2>1 DEF Stream, Leads
<1>3. /\ f.conn > 0 /\ f.state = "connecting"
      /\ Books!ResetIn(f, feedQueue) /\ UNCHANGED <<batch, engine, asked, marketFaults>>
  BY FeedFacts DEF Books!Connect
<1> HIDE DEF f
<1> QED  BY <1>1, <1>2, <1>3, FeedFacts, ResetGoesOn

\* A step that changes the state of the feed alone.
LEMMA StateKeeps ==
  ASSUME BookBounds, BooksInv, UNCHANGED <<batch, engine, feedQueue>>,
         feed' \in Feed, feed'.conn = feed.conn, feed'.seq = feed.seq, feed'.book = feed.book,
         feed.state \in {"idle", "stopped"} => feed'.state = feed.state,
         feed'.state = "idle" => feed.state = "idle",
         asked' \in SUBSET Nat, marketFaults' \in 0..MaxMarketFaults
  PROVE  BooksInv'
<1>1. Books!TypeOK'
  <2>1. BooksTyped'
    BY FeedFacts DEF BooksTyped
  <2> QED  BY <2>1, TypedNext
<1>2. FeedInv'
  BY DEF BooksInv, FeedInv
<1>3. \A y \in Origin, v \in Versions : Stream(y, v, feedQueue, feed) => Stream(y, v, feedQueue', feed')
  BY StreamSame
<1>4. StreamInv'
  BY <1>3, FeedGoesOn
<1> QED  BY <1>1, <1>2, <1>4 DEF BooksInv

LEMMA SubscribedKeeps ==
  ASSUME BookBounds, BooksInv, Books!Subscribed \/ Books!Resnapshot PROVE BooksInv'
<1>1. PICK st \in {"awaiting_snapshots", "reconnecting"} :
         /\ feed.state \in {"connecting", "resnapshot_requested"}
         /\ feed' = [feed EXCEPT !.state = st]
         /\ UNCHANGED <<feedQueue, batch, engine, asked, marketFaults>>
  BY DEF Books!Subscribed, Books!Resnapshot
<1>2. /\ feed' \in Feed /\ feed'.conn = feed.conn /\ feed'.seq = feed.seq
      /\ feed'.book = feed.book /\ feed'.state = st
  BY <1>1, FeedFacts DEF Feed
<1> QED  BY <1>1, <1>2, FeedFacts, StateKeeps

LEMMA DisconnectKeeps ==
  ASSUME BookBounds, BooksInv, UNCHANGED <<batch, engine>>, NEW st,
         st \in {"reconnecting", "failed", "resnapshot_requested", "stopped"},
         st = "stopped" \/ feed.state \notin {"idle", "stopped"},
         feed.state # "stopped",
         Books!ResetIn([feed EXCEPT !.state = st], feedQueue),
         asked' \in SUBSET Nat, marketFaults' \in 0..MaxMarketFaults
  PROVE  BooksInv'
<1> DEFINE f == [feed EXCEPT !.state = st]
<1>1. f \in Feed /\ f.conn = feed.conn /\ f.seq = feed.seq /\ f.state = st
  BY FeedFacts DEF Feed, Books!Over
<1>2. Books!ResetIn(f, feedQueue)
  OBVIOUS
<1> HIDE DEF f
<1>3. \A y \in Origin, v \in Versions : Stream(y, v, feedQueue, feed) => Leads(y, v, feedQueue, f)
  BY <1>1, StreamLeads
<1>4. f.conn = 0 => f.seq = 0
  BY <1>1, FeedFacts
<1>5. f.state = "stopped" \/ (f.state # "idle" /\ f.conn > 0)
  BY <1>1, FeedFacts
<1> QED  BY <1>1, <1>2, <1>3, <1>4, <1>5, FeedFacts, ResetGoesOn

LEMMA RequestKeeps == ASSUME BookBounds, BooksInv, NEW c \in asked, Books!Request(c) PROVE BooksInv'
<1>1. asked' \in SUBSET Nat /\ marketFaults' \in 0..MaxMarketFaults /\ UNCHANGED <<batch, engine>>
  BY FeedFacts DEF Books!Request
<1>2. CASE c = feed.conn /\ feed.state = "streaming"
  <2>1. Books!ResetIn([feed EXCEPT !.state = "resnapshot_requested"], feedQueue)
    BY <1>2 DEF Books!Request
  <2> QED  BY <1>1, <1>2, <2>1, DisconnectKeeps
<1>3. CASE ~ (c = feed.conn /\ feed.state = "streaming")
  <2>1. /\ UNCHANGED feedQueue
        /\ feed' = [feed EXCEPT !.coalesced =
                       @ \/ (c = feed.conn /\ feed.state = "awaiting_snapshots")]
    BY <1>3 DEF Books!Request
  <2>2. /\ feed' \in Feed /\ feed'.conn = feed.conn /\ feed'.seq = feed.seq
        /\ feed'.book = feed.book /\ feed'.state = feed.state
    BY <2>1, FeedFacts DEF Feed
  <2> QED  BY <1>1, <2>1, <2>2, StateKeeps
<1> QED  BY <1>2, <1>3

LEMMA EndsKeep == ASSUME BookBounds, BooksInv, Books!Disconnect \/ Books!Stop PROVE BooksInv'
<1>1. CASE Books!Disconnect
  <2>1. PICK st \in {"reconnecting", "failed"} : Books!ResetIn([feed EXCEPT !.state = st], feedQueue)
    BY <1>1 DEF Books!Disconnect
  <2>2. /\ feed.state \in {"awaiting_snapshots", "streaming", "connecting"}
        /\ UNCHANGED <<batch, engine, asked>> /\ marketFaults' \in 0..MaxMarketFaults
    BY <1>1, FeedFacts DEF Books!Disconnect, Books!Connected, Books!Fault
  <2> QED  BY <2>1, <2>2, FeedFacts, DisconnectKeeps
<1>2. CASE Books!Stop
  <2>1. /\ Books!ResetIn([feed EXCEPT !.state = "stopped"], feedQueue) /\ feed.state # "stopped"
        /\ UNCHANGED <<batch, engine, asked, marketFaults>>
    BY <1>2 DEF Books!Stop, Books!Over
  <2> QED  BY <2>1, FeedFacts, DisconnectKeeps
<1> QED  BY <1>1, <1>2

LEMMA OverflowKeeps == ASSUME BookBounds, BooksInv, Books!Overflow PROVE BooksInv'
<1> DEFINE f == [feed EXCEPT !.state = "reconnecting", !.seq = @ + 1]
           first == Books!Reset(f, feedQueue)
<1>1. /\ feed.state \in {"awaiting_snapshots", "streaming"}
      /\ Books!ResetIn(first.feed, first.queue) /\ UNCHANGED <<batch, engine, asked>>
      /\ marketFaults' \in 0..MaxMarketFaults
  BY FeedFacts DEF Books!Overflow, Books!Connected, Books!Fault
<1>2. /\ f \in Feed /\ f.conn = feed.conn /\ f.seq = feed.seq + 1 /\ f.state = "reconnecting"
      /\ f.conn > 0
  <2>1. /\ feed.seq + 1 \in Nat /\ feed.conn > 0
        /\ f = [feed EXCEPT !.state = "reconnecting", !.seq = feed.seq + 1]
    BY <1>1, FeedFacts
  <2> HIDE DEF f
  <2> QED  BY <2>1, FeedFacts DEF Feed
<1> HIDE DEF f
<1>3. ASSUME NEW y \in Origin, NEW v \in Versions, Stream(y, v, feedQueue, feed)
      PROVE  /\ first.queue \in Seq(Books!Event) /\ Len(first.queue) <= BookCapacity
             /\ first.feed \in Feed /\ first.feed.state = "reconnecting"
             /\ first.feed.conn = feed.conn /\ Leads(y, v, first.queue, first.feed)
  <2>1. Before(At(feed), At(f))
    BY <1>2, FeedFacts DEF Before, At
  <2>2. Leads(y, v, feedQueue, f)
    BY <1>3, <2>1 DEF Stream, Leads
  <2>3. /\ first.queue \in Seq(Books!Event) /\ Len(first.queue) <= BookCapacity
        /\ first.feed \in Feed /\ first.feed.state = f.state /\ first.feed.conn = f.conn
        /\ Stream(y, v, first.queue, first.feed)
    BY <1>2, <2>2, FeedFacts, ResetLeads
  <2> HIDE DEF first
  <2> QED  BY <1>2, <2>3, StreamLeads
<1>4. PICK y \in Origin, v \in Versions : Stream(y, v, feedQueue, feed)
  BY UnreadOrigin DEF BooksInv, StreamInv
<1>5. /\ first.queue \in Seq(Books!Event) /\ Len(first.queue) <= BookCapacity
      /\ first.feed \in Feed /\ first.feed.state = "reconnecting" /\ first.feed.conn > 0
  BY <1>2, <1>3, <1>4
<1> DEFINE g == first.feed
           q == first.queue
<1>6. Books!ResetIn(g, q)
  BY <1>1
<1>7. \A x \in Origin, w \in Versions : Stream(x, w, feedQueue, feed) => Leads(x, w, q, g)
  BY <1>3
<1>8. /\ g \in Feed /\ g.state = "reconnecting" /\ g.conn > 0
      /\ q \in Seq(Books!Event) /\ Len(q) <= BookCapacity
  BY <1>5
<1> HIDE DEF g, q, first
<1>9. asked' \in SUBSET Nat /\ UNCHANGED <<batch, engine>> /\ marketFaults' \in 0..MaxMarketFaults
  BY <1>1, FeedFacts
<1> QED  BY <1>6, <1>7, <1>8, <1>9, ResetGoesOn

LEMMA ReceiveBrokenKeeps ==
  ASSUME BookBounds, BooksInv, NEW s \in Books!Symbol, Books!ReceiveBroken(s) PROVE BooksInv'
<1> DEFINE m == Books!Message(s, "broken")
           q == Append(feedQueue, m)
           f == [feed EXCEPT !.state = "reconnecting", !.seq = @ + 1]
           g == [f EXCEPT !.book = [feed.book EXCEPT ![s] = @ + 1]]
<1>1. /\ feed.state \in {"awaiting_snapshots", "streaming"}
      /\ Books!ResetIn(f, q) /\ UNCHANGED <<batch, engine, asked>>
      /\ marketFaults' \in 0..MaxMarketFaults
      /\ Len(feedQueue) < BookCapacity /\ feed.book[s] < MaxVersion
  BY FeedFacts DEF Books!ReceiveBroken, Books!Connected, Books!Fault
<1>2. /\ f \in Feed /\ f.conn = feed.conn /\ f.seq = feed.seq + 1 /\ f.state = "reconnecting"
      /\ f.conn > 0
      /\ g.conn = feed.conn /\ g.seq = feed.seq + 1
      /\ g.book = [feed.book EXCEPT ![s] = @ + 1]
  <2>1. /\ feed.seq + 1 \in Nat /\ feed.conn > 0
        /\ f = [feed EXCEPT !.state = "reconnecting", !.seq = feed.seq + 1]
    BY <1>1, FeedFacts
  <2>2. /\ f \in Feed /\ f.conn = feed.conn /\ f.seq = feed.seq + 1 /\ f.state = "reconnecting"
    <3> HIDE DEF f
    <3> QED  BY <2>1, FeedFacts DEF Feed
  <2> DEFINE b == [feed.book EXCEPT ![s] = @ + 1]
  <2>3. g = [f EXCEPT !.book = b]
    OBVIOUS
  <2> HIDE DEF f, b, g
  <2>4. g.conn = f.conn /\ g.seq = f.seq /\ g.book = b
    BY <2>2, <2>3 DEF Feed
  <2> QED  BY <2>1, <2>2, <2>4 DEF b
<1> HIDE DEF f, g
<1>3. ASSUME NEW y \in Origin, NEW v \in Versions, Stream(y, v, feedQueue, feed)
      PROVE  q \in Seq(Books!Event) /\ Len(q) = Len(feedQueue) + 1 /\ Stream(y, v, q, g)
  <2>1. y \in Position
    BY DEF Origin
  <2>2. PICK k \in MessageKind :
           m = [conn |-> feed.conn, seq |-> feed.seq + 1, symbol |-> s, kind |-> k,
                book |-> feed.book[s] + 1]
    BY DEF Books!Message, MessageKind
  <2>3. feed \in Feed /\ feedQueue \in Seq(Books!Event)
    BY FeedFacts
  <2>4. ASSUME NEW h, h.conn = feed.conn, h.seq = feed.seq + 1,
               h.book = [feed.book EXCEPT ![s] = @ + 1]
        PROVE  /\ Append(feedQueue, m) \in Seq(Books!Event) /\ Len(Append(feedQueue, m)) = Len(feedQueue) + 1
               /\ Stream(y, v, Append(feedQueue, m), h)
    <3>1. feed.book[s] < MaxVersion
      BY <1>1
    <3>2. Stream(y, v, feedQueue, feed)
      BY <1>3
    <3>3. LET n == [conn |-> feed.conn, seq |-> feed.seq + 1, symbol |-> s, kind |-> k,
                    book |-> feed.book[s] + 1]
          IN  /\ n \in Books!Event /\ Append(feedQueue, n) \in Seq(Books!Event)
              /\ Len(Append(feedQueue, n)) = Len(feedQueue) + 1
              /\ h.book \in Versions /\ Stream(y, v, Append(feedQueue, n), h)
      BY ONLY BookBounds, k \in MessageKind, <2>1, <2>3, <2>4, <3>1, <3>2, s \in Books!Symbol,
              MessageLeads
    <3> HIDE DEF m
    <3> QED  BY <2>2, <3>3
  <2> HIDE DEF m
  <2> QED  BY <1>2, <2>4
<1> HIDE DEF q
<1>4. \A y \in Origin, v \in Versions : Stream(y, v, feedQueue, feed) => Leads(y, v, q, f)
  <2>1. f.conn = g.conn /\ f.seq = g.seq
    BY <1>2
  <2> QED  BY <1>3, <2>1, StreamLeads
<1>5. PICK y \in Origin, v \in Versions : Stream(y, v, feedQueue, feed)
  BY UnreadOrigin DEF BooksInv, StreamInv
<1>6. q \in Seq(Books!Event) /\ Len(q) <= BookCapacity
  BY <1>1, <1>3, <1>5, FeedFacts DEF BookBounds
<1>7. /\ asked' \in SUBSET Nat /\ UNCHANGED <<batch, engine>> /\ marketFaults' \in 0..MaxMarketFaults
      /\ Books!ResetIn(f, q)
  BY <1>1, FeedFacts
<1> QED  BY <1>2, <1>4, <1>6, <1>7, ResetGoesOn

LEMMA ReceiveKeeps ==
  ASSUME BookBounds, BooksInv, NEW s \in Books!Symbol, Books!Receive(s) PROVE BooksInv'
<1> DEFINE Sent(k) == [conn |-> feed.conn, seq |-> feed.seq + 1, symbol |-> s, kind |-> k,
                       book |-> feed.book[s] + 1]
<1>1. PICK k \in {"snapshot", "update", "odd"} : feedQueue' = Append(feedQueue, Sent(k))
  BY DEF Books!Receive, Books!Message
<1>2. /\ feed.state \in {"awaiting_snapshots", "streaming"} /\ feed' = Books!Applied(s)
      /\ UNCHANGED <<batch, engine, asked>>
      /\ marketFaults' \in 0..MaxMarketFaults
      /\ Len(feedQueue) < BookCapacity /\ feed.book[s] < MaxVersion
  BY FeedFacts DEF Books!Receive, Books!Connected, Books!Fault
<1> DEFINE b == [feed.book EXCEPT ![s] = @ + 1]
           st == IF \A t \in Books!Symbol : b[t] > 0 THEN "streaming" ELSE feed.state
<1>3. b \in Versions /\ st \in {"awaiting_snapshots", "streaming"}
  BY <1>2, FeedFacts DEF Versions, BookBounds
<1>4. feed' = [feed EXCEPT !.seq = feed.seq + 1, !.book = b, !.state = st]
  BY <1>2 DEF Books!Applied
<1> HIDE DEF st
<1>5. /\ feed' \in Feed /\ feed'.conn = feed.conn /\ feed'.seq = feed.seq + 1 /\ feed'.state = st
      /\ feed'.book = b
  <2> HIDE DEF b
  <2>1. feed.seq + 1 \in Nat
    BY FeedFacts
  <2> QED  BY <1>3, <1>4, <2>1, FeedFacts DEF Feed
<1>6. ASSUME NEW y \in Origin, NEW v \in Versions, Stream(y, v, feedQueue, feed)
      PROVE  /\ feedQueue' \in Seq(Books!Event) /\ Len(feedQueue') = Len(feedQueue) + 1
             /\ Stream(y, v, feedQueue', feed')
  <2>1. y \in Position /\ k \in MessageKind
    BY DEF Origin, MessageKind
  <2>2. feed \in Feed /\ feedQueue \in Seq(Books!Event)
    BY FeedFacts
  <2> DEFINE n == [conn |-> feed.conn, seq |-> feed.seq + 1, symbol |-> s, kind |-> k,
                   book |-> feed.book[s] + 1]
  <2>3. ASSUME NEW g, g.conn = feed.conn, g.seq = feed.seq + 1, g.book = [feed.book EXCEPT ![s] = @ + 1]
        PROVE  /\ Append(feedQueue, n) \in Seq(Books!Event)
               /\ Len(Append(feedQueue, n)) = Len(feedQueue) + 1
               /\ Stream(y, v, Append(feedQueue, n), g)
    <3>1. feed.book[s] < MaxVersion
      BY <1>2
    <3>2. Stream(y, v, feedQueue, feed)
      BY <1>6
    <3>3. LET m == [conn |-> feed.conn, seq |-> feed.seq + 1, symbol |-> s, kind |-> k,
                    book |-> feed.book[s] + 1]
          IN  /\ m \in Books!Event /\ Append(feedQueue, m) \in Seq(Books!Event)
              /\ Len(Append(feedQueue, m)) = Len(feedQueue) + 1
              /\ g.book \in Versions /\ Stream(y, v, Append(feedQueue, m), g)
      BY ONLY BookBounds, <2>1, <2>2, <2>3, <3>1, <3>2, s \in Books!Symbol, MessageLeads
    <3> QED  BY <3>3
  <2>4. feedQueue' = Append(feedQueue, n)
    BY <1>1
  <2> HIDE DEF n
  <2> QED  BY <1>5, <2>3, <2>4
<1>7. StreamInv'
  BY <1>2, <1>6, FeedGoesOn
<1>8. PICK y \in Origin, v \in Versions : Stream(y, v, feedQueue, feed)
  BY UnreadOrigin DEF BooksInv, StreamInv
<1>9. Books!TypeOK'
  <2>1. feedQueue' \in Seq(Books!Event) /\ Len(feedQueue') <= BookCapacity
    BY <1>2, <1>6, <1>8, FeedFacts DEF BookBounds
  <2>2. BooksTyped'
    BY <1>2, <1>5, <2>1, FeedFacts DEF BooksTyped
  <2> QED  BY <2>2, TypedNext
<1>10. FeedInv'
  BY <1>2, <1>3, <1>5, FeedFacts DEF BooksInv, FeedInv
<1> QED  BY <1>7, <1>9, <1>10 DEF BooksInv

-----------------------------------------------------------------------------
(* The steps of the engine *)

LEMMA TakeKeeps == ASSUME BookBounds, BooksInv, Books!Take PROVE BooksInv'
<1>1. PICK n \in 1..BookBatchSize :
         /\ n <= Len(feedQueue)
         /\ batch' = SubSeq(feedQueue, 1, n) /\ feedQueue' = SubSeq(feedQueue, n + 1, Len(feedQueue))
         /\ batch = <<>> /\ UNCHANGED <<feed, engine, asked, marketFaults>>
  BY DEF Books!Take
<1>2. PICK y \in Position, v \in Versions : /\ BatchRead(y, v) \/ BatchUnread(y, v)
                                            /\ Stream(y, v, feedQueue, feed)
  BY DEF BooksInv, StreamInv
<1>3. BatchRead(y, v) /\ y = Here(engine) /\ Agrees(engine, v)
  BY <1>1, <1>2 DEF BatchRead, BatchUnread
<1>4. PICK b : /\ Trail(y, feedQueue, b) /\ b[0] = v /\ b[Len(feedQueue)] = feed.book
               /\ Place(y, feedQueue, Len(feedQueue)) = At(feed)
  BY <1>2 DEF Stream
<1>5. /\ feedQueue \in Seq(Books!Event) /\ Len(feedQueue) \in Nat
      /\ n \in 0..Len(feedQueue) /\ n > 0 /\ n <= BookBatchSize
  BY <1>1, FeedFacts DEF BookBounds
<1>0. PICK z : z = Place(y, feedQueue, n)
  OBVIOUS
<1>6. /\ batch' \in Seq(Books!Event) /\ Len(batch') = n /\ \A i \in 1..n : batch'[i] = feedQueue[i]
      /\ feedQueue' \in Seq(Books!Event) /\ Len(feedQueue') = Len(feedQueue) - n
      /\ z \in Position /\ z = Place(y, batch', n)
      /\ \E c : Trail(y, batch', c) /\ \A i \in 0..n : c[i] = b[i]
      /\ \E c : /\ Trail(z, feedQueue', c) /\ c[0] = b[n] /\ c[Len(feedQueue) - n] = b[Len(feedQueue)]
                /\ Place(z, feedQueue', Len(feedQueue) - n) = Place(y, feedQueue, Len(feedQueue))
  <2>1. LET p == SubSeq(feedQueue, 1, n)
            r == SubSeq(feedQueue, n + 1, Len(feedQueue))
            x == Place(y, feedQueue, n)
        IN  /\ p \in Seq(Books!Event) /\ Len(p) = n /\ \A i \in 1..n : p[i] = feedQueue[i]
            /\ r \in Seq(Books!Event) /\ Len(r) = Len(feedQueue) - n
            /\ x \in Position /\ x = Place(y, p, n)
            /\ \E c : Trail(y, p, c) /\ \A i \in 0..n : c[i] = b[i]
            /\ \E c : /\ Trail(x, r, c) /\ c[0] = b[n] /\ c[Len(feedQueue) - n] = b[Len(feedQueue)]
                      /\ Place(x, r, Len(feedQueue) - n) = Place(y, feedQueue, Len(feedQueue))
    BY ONLY y \in Position, <1>4, <1>5, TrailSplit
  <2> QED  BY <1>0, <1>1, <2>1
<1>7. b[n] \in Versions /\ 0 \in 0..n /\ n \in 0..n
  BY <1>4, <1>5 DEF Trail
<1>8. BatchUnread(z, b[n])'
  <2>1. PICK c : Trail(y, batch', c) /\ \A i \in 0..n : c[i] = b[i]
    BY <1>6
  <2>2. c[0] = v /\ c[n] = b[n]
    BY <1>4, <1>7, <2>1
  <2>3. batch' # <<>> /\ z = At(batch'[n])
    BY <1>5, <1>6 DEF Place
  <2> QED  BY <1>1, <1>3, <1>6, <2>1, <2>2, <2>3 DEF BatchUnread
<1>9. Stream(z, b[n], feedQueue', feed')
  BY <1>1, <1>4, <1>6 DEF Stream
<1>10. Stream(z, b[n], feedQueue, feed)'
  BY <1>9
<1>11. StreamInv'
  BY <1>6, <1>7, <1>8, <1>10 DEF StreamInv
<1>12. Books!TypeOK'
  <2>1. Len(feedQueue') <= BookCapacity
    BY <1>5, <1>6, FeedFacts DEF BookBounds
  <2>2. BooksTyped'
    BY <1>1, <1>5, <1>6, <2>1, FeedFacts DEF BooksTyped
  <2> QED  BY <2>2, TypedNext
<1>13. FeedInv'
  BY <1>1 DEF BooksInv, FeedInv
<1> QED  BY <1>11, <1>12, <1>13 DEF BooksInv

\* A batch that the engine has read changes nothing but what it invalidates.
LEMMA ReplayBatch ==
  ASSUME BookBounds, NEW e \in Engine, NEW q \in Seq(Books!Event), NEW v, Agrees(e, v),
         \A i \in 1..Len(q) : ~ Before(Here(e), At(q[i])),
         NEW r, Fold(e, q, r)
  PROVE  r[Len(q)] \in Engine /\ Here(r[Len(q)]) = Here(e) /\ Agrees(r[Len(q)], v)
<1> DEFINE n == Len(q)
           P(i) == r[i] \in Engine /\ Here(r[i]) = Here(e) /\ Agrees(r[i], v)
           M == {i \in Nat : i <= n => P(i)}
<1>1. n \in Nat /\ \A i \in 1..n : q[i] \in Books!Event
  OBVIOUS
<1>2. 0 \in M
  BY DEF Fold
<1>3. ASSUME NEW i \in M PROVE i + 1 \in M
  <2>1. i \in Nat /\ i + 1 \in Nat /\ (i <= n => P(i))
    OBVIOUS
  <2> SUFFICES ASSUME i + 1 <= n PROVE P(i + 1)
    BY <2>1
  <2>2. i + 1 \in 1..n /\ i + 1 - 1 = i /\ P(i)
    BY <1>1, <2>1
  <2>3. r[i + 1] = Books!OnEvent(r[i], q[i + 1])
    BY <2>2 DEF Fold
  <2>4. ~ Before(Here(r[i]), At(q[i + 1])) /\ q[i + 1] \in Books!Event
    BY <1>1, <2>2
  <2>5. LET a == Books!OnEvent(r[i], q[i + 1]) IN a \in Engine /\ Here(a) = Here(r[i]) /\ Agrees(a, v)
    BY BookBounds, <2>2, <2>4, ReplayAgrees
  <2> QED  BY <2>2, <2>3, <2>5
<1> HIDE DEF P
<1>4. M = Nat
  <2>1. M \subseteq Nat
    OBVIOUS
  <2> HIDE DEF M
  <2> QED  BY <1>2, <1>3, <2>1, SetInduction
<1>5. P(n)
  BY <1>1, <1>4
<1> QED  BY <1>5 DEF P

\* The engine follows the trail of a batch.
LEMMA FollowBatch ==
  ASSUME BookBounds, NEW e \in Engine, NEW q \in Seq(Books!Event), NEW b, Trail(Here(e), q, b),
         Agrees(e, b[0]), e.last = 0 => e.conn = 0,
         NEW r, Fold(e, q, r)
  PROVE  /\ r[Len(q)] \in Engine /\ Here(r[Len(q)]) = Place(Here(e), q, Len(q))
         /\ Agrees(r[Len(q)], b[Len(q)]) /\ (r[Len(q)].last = 0 => r[Len(q)].conn = 0)
<1> DEFINE n == Len(q)
           x == Here(e)
           P(i) == /\ r[i] \in Engine /\ Here(r[i]) = Place(x, q, i) /\ Agrees(r[i], b[i])
                   /\ r[i].last = 0 => r[i].conn = 0
           M == {i \in Nat : i <= n => P(i)}
<1>1. n \in Nat /\ (\A i \in 1..n : q[i] \in Books!Event) /\ b \in [0..n -> Versions]
  BY DEF Trail
<1>2. 0 \in M
  BY DEF Fold, Place
<1>3. ASSUME NEW i \in M PROVE i + 1 \in M
  <2>1. i \in Nat /\ i + 1 \in Nat /\ (i <= n => P(i))
    OBVIOUS
  <2> SUFFICES ASSUME i + 1 <= n PROVE P(i + 1)
    BY <2>1
  <2>2. /\ i + 1 \in 1..n /\ i + 1 - 1 = i /\ P(i) /\ i \in 0..n /\ i + 1 \in 0..n /\ i < i + 1
        /\ i + 1 # 0
    BY <1>1, <2>1
  <2>3. r[i + 1] = Books!OnEvent(r[i], q[i + 1])
    BY <2>2 DEF Fold
  <2>4. Place(x, q, i + 1) = At(q[i + 1]) /\ q[i + 1] \in Books!Event
    BY <1>1, <2>2 DEF Place
  <2>5. Before(Place(x, q, i), Place(x, q, i + 1)) /\ Link(Place(x, q, i), q[i + 1], b[i], b[i + 1])
    <3>1. Before(Place(x, q, i), Place(x, q, i + 1))
      BY <2>2 DEF Trail
    <3>2. Link(Place(x, q, i + 1 - 1), q[i + 1], b[i + 1 - 1], b[i + 1])
      BY <2>2 DEF Trail
    <3> QED  BY <2>2, <3>1, <3>2
  <2>6. b[i] \in Versions /\ b[i + 1] \in Versions
    BY <1>1, <2>2
  <2>7. Before(Here(r[i]), At(q[i + 1])) /\ Link(Here(r[i]), q[i + 1], b[i], b[i + 1])
    BY <2>2, <2>4, <2>5
  <2>8. LET a == Books!OnEvent(r[i], q[i + 1]) IN
        a \in Engine /\ Here(a) = At(q[i + 1]) /\ a.last # 0 /\ Agrees(a, b[i + 1])
    BY BookBounds, <2>2, <2>4, <2>6, <2>7, EventAgrees
  <2> QED  BY <2>3, <2>4, <2>8
<1> HIDE DEF P
<1>4. M = Nat
  <2>1. M \subseteq Nat
    OBVIOUS
  <2> HIDE DEF M
  <2> QED  BY <1>2, <1>3, <2>1, SetInduction
<1>5. P(n)
  BY <1>1, <1>4
<1> QED  BY <1>5 DEF P

LEMMA ProcessKeeps == ASSUME BookBounds, BooksInv, Books!Process PROVE BooksInv'
<1>1. /\ BooksTyped /\ batch \in Seq(Books!Event) /\ engine \in Engine
      /\ marketFaults \in 0..MaxMarketFaults
  BY FeedFacts DEF BooksTyped
<1>2. PICK r : Fold(engine, batch, r)
  BY <1>1, FoldIs
<1> DEFINE e == r[Len(batch)]
           o == [e EXCEPT !.asks = {}]
<1>3. /\ engine' = o /\ asked' = asked \cup e.asks
      /\ batch' \in {batch, <<>>} /\ UNCHANGED <<feed, feedQueue>>
  BY <1>2 DEF Books!Process, Fold
<1>4. marketFaults' \in 0..MaxMarketFaults
  BY <1>1 DEF Books!Process, Books!Fault, BookBounds
<1>5. PICK y \in Position, v \in Versions : /\ BatchRead(y, v) \/ BatchUnread(y, v)
                                            /\ Stream(y, v, feedQueue, feed)
  BY DEF BooksInv, StreamInv
<1>6. engine.last = 0 => engine.conn = 0
  BY DEF BooksInv, FeedInv
<1>7. /\ e \in Engine /\ Here(e) = y /\ Agrees(e, v) /\ (e.last = 0 => e.conn = 0)
      /\ \A i \in 1..Len(batch) : ~ Before(y, At(batch[i]))
  <2>1. CASE BatchRead(y, v)
    <3>1. \A i \in 1..Len(batch) : ~ Before(Here(engine), At(batch[i]))
      BY <2>1 DEF BatchRead, Before, At
    <3>2. y = Here(engine) /\ Agrees(engine, v)
      BY <2>1 DEF BatchRead
    <3>3. e \in Engine /\ Here(e) = Here(engine) /\ Agrees(e, v)
      BY <1>1, <1>2, <3>1, <3>2, ReplayBatch
    <3>4. e.last = 0 => e.conn = 0
      BY <1>6, <3>3 DEF Here
    <3> QED  BY <3>1, <3>2, <3>3, <3>4
  <2>2. CASE BatchUnread(y, v)
    <3>1. PICK b : Trail(Here(engine), batch, b) /\ Agrees(engine, b[0]) /\ b[Len(batch)] = v
      BY <2>2 DEF BatchUnread
    <3>2. /\ e \in Engine /\ Here(e) = Place(Here(engine), batch, Len(batch))
          /\ Agrees(e, b[Len(batch)]) /\ (e.last = 0 => e.conn = 0)
      BY <1>1, <1>2, <1>6, <3>1, FollowBatch
    <3>3. /\ y = At(batch[Len(batch)]) /\ Len(batch) # 0 /\ Len(batch) \in Nat
      BY <1>1, <2>2 DEF BatchUnread
    <3>4. y = Place(Here(engine), batch, Len(batch))
      BY <3>3 DEF Place
    <3>5. ASSUME NEW i \in 1..Len(batch) PROVE ~ Before(y, At(batch[i]))
      <4>1. Here(engine) \in Position
        BY <1>1, EngineFields
      <4>2. At(batch[i]) = Place(Here(engine), batch, i) /\ At(batch[i]) \in Position
        BY <1>1, <4>1, Places
      <4>3. i = Len(batch) \/ Before(At(batch[i]), y)
        BY <3>1, <3>3, <3>4, <4>2 DEF Trail
      <4> QED  BY <3>3, <4>2, <4>3, BeforeFacts
    <3> HIDE DEF e
    <3> QED  BY <3>1, <3>2, <3>4, <3>5
  <2> QED  BY <1>5, <2>1, <2>2
<1> HIDE DEF e
<1>8. /\ engine' \in Engine /\ engine'.asks = {} /\ Here(engine') = y /\ Agrees(engine', v)
      /\ engine'.last = 0 => engine'.conn = 0
  <2>1. /\ o \in Engine /\ o.asks = {} /\ o.conn = e.conn /\ o.last = e.last /\ o.book = e.book
        /\ o.whole = e.whole /\ o.required = e.required
    BY <1>7 DEF Engine
  <2> HIDE DEF o
  <2> QED  BY <1>3, <1>7, <2>1 DEF Here, Agrees
<1> HIDE DEF o
<1>9. BatchRead(y, v)'
  <2>1. ASSUME NEW i \in 1..Len(batch') PROVE ~ Before(y, batch'[i])
    <3>1. batch' = batch
      BY <1>3, <2>1
    <3>2. ~ Before(y, At(batch[i]))
      BY <1>7, <2>1, <3>1
    <3> QED  BY <3>1, <3>2 DEF Before, At
  <2> QED  BY <1>8, <2>1 DEF BatchRead
<1>10. Stream(y, v, feedQueue, feed)'
  BY <1>3, <1>5
<1>11. StreamInv'
  BY <1>9, <1>10 DEF StreamInv
<1>12. Books!TypeOK'
  <2>1. asked' \subseteq Nat
    BY <1>1, <1>3, <1>7 DEF BooksTyped, Engine
  <2>2. batch' \in Seq(Books!Event) /\ Len(batch') <= BookBatchSize
    <3>1. CASE batch' = batch
      BY <1>1, <3>1 DEF BooksTyped
    <3>2. CASE batch' = <<>>
      BY <3>2 DEF BookBounds
    <3> QED  BY <1>3, <3>1, <3>2
  <2>3. BooksTyped'
    BY <1>1, <1>3, <1>4, <1>8, <2>1, <2>2 DEF BooksTyped
  <2> QED  BY <2>3, TypedNext
<1>13. FeedInv'
  BY <1>3, <1>8 DEF BooksInv, FeedInv
<1> QED  BY <1>11, <1>12, <1>13 DEF BooksInv

LEMMA BooksInit == ASSUME BookBounds, Books!Init PROVE BooksInv
<1>1. Books!NoBooks \in Versions /\ \A s \in Books!Symbol : Books!NoBooks[s] = 0
  BY SymbolFacts
<1>2. BooksTyped
  <2>1. <<>> \in Seq(Books!Event) /\ Len(<<>>) = 0
    OBVIOUS
  <2> QED  BY <1>1, <2>1 DEF Books!Init, BooksTyped, Feed, Engine, BookBounds
<1>3. FeedInv
  BY DEF Books!Init, FeedInv
<1>4. StreamInv
  <2> DEFINE y == [conn |-> 0, seq |-> 0]
  <2>1. y \in Position
    BY DEF Position
  <2>2. y = Here(engine) /\ y = At(feed)
    BY DEF Books!Init, Here, At
  <2> HIDE DEF y
  <2>3. Agrees(engine, Books!NoBooks)
    BY <1>1 DEF Books!Init, Agrees
  <2>4. BatchRead(y, Books!NoBooks)
    BY <2>2, <2>3 DEF Books!Init, BatchRead
  <2>5. Stream(y, Books!NoBooks, feedQueue, feed)
    <3>1. PICK b : Trail(y, <<>>, b) /\ b[0] = Books!NoBooks
      BY <1>1, <2>1, TrailEmpty
    <3>2. feedQueue = <<>> /\ Len(feedQueue) = 0 /\ feed.book = Books!NoBooks
      BY DEF Books!Init
    <3> QED  BY <2>2, <3>1, <3>2 DEF Stream, Place
  <2> QED  BY <1>1, <2>1, <2>4, <2>5 DEF StreamInv
<1> QED  BY <1>2, <1>3, <1>4, TypedIs DEF BooksInv

LEMMA BooksStep == ASSUME BookBounds, BooksInv, [Books!Next]_Books!vars PROVE BooksInv'
<1>1. CASE UNCHANGED Books!vars
  <2>1. Books!TypeOK' /\ FeedInv'
    BY <1>1 DEF BooksInv, Books!TypeOK, FeedInv, Books!vars
  <2>2. StreamInv'
    <3>1. \A y \in Origin, v \in Versions :
             Stream(y, v, feedQueue, feed) => Stream(y, v, feedQueue', feed')
      BY <1>1 DEF Books!vars
    <3> QED  BY <1>1, <3>1, FeedGoesOn DEF Books!vars
  <2> QED  BY <2>1, <2>2 DEF BooksInv
<1>2. CASE Books!FeedStep
  BY <1>2, ConnectKeeps, SubscribedKeeps, RequestKeeps DEF Books!FeedStep
<1>3. CASE Books!EngineStep
  BY <1>3, TakeKeeps, ProcessKeeps DEF Books!EngineStep
<1>4. CASE Books!Overflow \/ Books!Disconnect \/ Books!Stop
  BY <1>4, OverflowKeeps, EndsKeep
<1>5. CASE \E s \in Books!Symbol : Books!Receive(s) \/ Books!ReceiveBroken(s)
  BY <1>5, ReceiveKeeps, ReceiveBrokenKeeps
<1> QED  BY <1>1, <1>2, <1>3, <1>4, <1>5 DEF Books!Next

LEMMA BooksWhole == ASSUME BooksInv PROVE Books!BooksAreWhole
<1>1. PICK y \in Position, v \in Versions : BatchRead(y, v) \/ BatchUnread(y, v)
  BY DEF BooksInv, StreamInv
<1>2. \E w : Agrees(engine, w)
  BY <1>1 DEF BatchRead, BatchUnread
<1> QED  BY <1>2 DEF Agrees, Books!BooksAreWhole

LEMMA Drained == ASSUME BookBounds, BooksInv PROVE Books!DrainedAgrees
<1> SUFFICES ASSUME feedQueue = <<>>, batch = <<>>
             PROVE  \A s \in Books!Symbol : \/ engine.book[s] = feed.book[s]
                                            \/ engine.book[s] = 0 /\ s \in engine.required
  BY DEF Books!DrainedAgrees
<1>1. PICK y \in Position, v \in Versions : /\ BatchRead(y, v) \/ BatchUnread(y, v)
                                            /\ Stream(y, v, feedQueue, feed)
  BY DEF BooksInv, StreamInv
<1>2. Agrees(engine, v)
  BY <1>1 DEF BatchRead, BatchUnread
<1>3. v = feed.book
  <2>1. Len(feedQueue) = 0
    OBVIOUS
  <2> QED  BY <1>1, <2>1 DEF Stream
<1>4. \A s \in Books!Symbol : engine.book[s] \in Nat
  BY FeedFacts DEF BooksTyped, Engine, Versions, BookBounds
<1> QED  BY <1>2, <1>3, <1>4 DEF Agrees

-----------------------------------------------------------------------------
(* The theorems *)

\* What the events, the batch being written and the audits say about one
\* another, at every moment of every life (ShadowBatchRecorder, _run_shadow).
THEOREM RecorderInvariant == ShadowBounds => (Shadow!Spec => []RecorderInv)
<1> SUFFICES ASSUME ShadowBounds PROVE Shadow!Spec => []RecorderInv
  OBVIOUS
<1>1. Shadow!Init => RecorderInv
  BY InitRecorder
<1>2. RecorderInv /\ [Shadow!Next]_Shadow!vars => RecorderInv'
  BY RecorderStep
<1> QED  BY <1>1, <1>2, PTL DEF Shadow!Spec

\* No evaluation event that was received is lost without a trace, over full
\* queues, failed and unacknowledged transactions, crashes and restarts; and
\* none is in the audits of two batches (offer, run, persist_shadow_batch).
THEOREM ShadowEvents == ShadowBounds => (Spec => []EventsAccounted)
<1>1. RecorderInv => EventsAccounted
  BY DEF RecorderInv, EventsAccounted
<1> QED  BY <1>1, RecorderInvariant, EachServiceRuns, PTL

\* A pulse on its way when the process ends does not overwrite the terminal
\* heartbeat, which stands until a new life (_run_shadow).
THEOREM ShadowBeats == ShadowBounds => (Spec => TerminalBeatStands)
<1> SUFFICES ASSUME ShadowBounds PROVE Spec => TerminalBeatStands
  OBVIOUS
<1>1. RecorderInv /\ [Shadow!Next]_Shadow!vars
         => [worker.state \in Shadow!Ended /\ beat' # beat => worker'.life # worker.life]_Shadow!vars
  <2> SUFFICES ASSUME RecorderInv, [Shadow!Next]_Shadow!vars, worker.state \in Shadow!Ended, beat' # beat
               PROVE  worker'.life # worker.life
    OBVIOUS
  <2>1. ~ Shadow!Active /\ pulse # "beating"
    BY DEF Shadow!Ended, Shadow!Active, RecorderInv, BeatInv
  <2>2. Shadow!Start \/ Shadow!End \/ Shadow!Beat
    BY DEF Shadow!Next, Shadow!WriterStep, Shadow!Stop, Shadow!Crash, Shadow!Receive,
       Shadow!Refresh, Shadow!Gather, Shadow!Persist, Shadow!PersistFails,
           Shadow!WriterEnds, Shadow!vars
  <2>3. Shadow!Start
    BY <2>1, <2>2 DEF Shadow!End, Shadow!Beat, Shadow!Ended
  <2>4. worker'.life = worker.life + 1 /\ worker.life \in 0..MaxLives
    BY <2>3 DEF Shadow!Start, RecorderInv, Shadow!TypeOK
  <2> QED  BY <2>4 DEF ShadowBounds
<1> QED
  BY <1>1, RecorderInvariant, EachServiceRuns, PTL
  DEF Shadow!Spec, Shadow!TerminalBeatStands, TerminalBeatStands

\* What the engine has to read leads from what it has read to what the feed
\* knows, and every variable keeps its type.
THEOREM BooksInvariant == BookBounds => (Books!Spec => []BooksInv)
<1> SUFFICES ASSUME BookBounds PROVE Books!Spec => []BooksInv
  OBVIOUS
<1>1. Books!Init => BooksInv
  BY BooksInit
<1>2. BooksInv /\ [Books!Next]_Books!vars => BooksInv'
  BY BooksStep
<1> QED  BY <1>1, <1>2, PTL DEF Books!Spec

\* A valid book of the engine was built from a snapshot and every message
\* after it, over emptied queues, new connections and batches that are
\* processed again (_consume, on_event).
THEOREM BooksWithoutGaps == BookBounds => (Spec => []BooksAreWhole)
<1>1. BooksInv => BooksAreWhole
  BY BooksWhole DEF BooksAreWhole
<1> QED  BY <1>1, BooksInvariant, EachServiceRuns, PTL

\* The engine that has read everything has no book that the feed does not
\* have, and asks for those it lacks (_receive, _apply_event).
THEOREM BooksDrained == BookBounds => (Spec => []DrainedAgrees)
<1> SUFFICES ASSUME BookBounds PROVE Spec => []DrainedAgrees
  OBVIOUS
<1>1. BooksInv => DrainedAgrees
  BY Drained DEF DrainedAgrees
<1>2. Books!Spec => []BooksInv
  BY BooksInvariant
<1> QED  BY <1>1, <1>2, EachServiceRuns, PTL

\* Every variable of the books, the recorder and the study keeps its type
\* (scalping_market, shadow_recorder, kraken_confirmation_runtime).
THEOREM TypesKept == BookBounds /\ ShadowBounds => (Spec => []TypesOK)
<1> SUFFICES ASSUME BookBounds, ShadowBounds PROVE Spec => []TypesOK
  OBVIOUS
<1>1. BooksInv /\ RecorderInv /\ Study!TypeOK => TypesOK
  BY DEF BooksInv, RecorderInv, TypesOK
<1>2. Books!Spec => []BooksInv
  BY BooksInvariant
<1>3. Shadow!Spec => []RecorderInv
  BY RecorderInvariant
<1>4. Study!Spec => []Study!TypeOK
  BY ValuesAreAllowed, Study!TypeCorrect
<1> QED  BY <1>1, <1>2, <1>3, <1>4, EachServiceRuns, PTL

\* No entry is POSTed while a submission of the account is unanswered (step,
\* _unresolved_orders).
THEOREM EntriesWaitForAnswers == Spec => NoEntryIntoUnknown
<1>1. Scalp!Spec => Scalp!NoEntryIntoUnknown
  BY ValuesAreAllowed, Scalp!EntriesAwaitAnswers
<1> QED  BY <1>1, EachServiceRuns DEF NoEntryIntoUnknown

\* The one event worker never sells more than it bought (supervise, _reserve,
\* _dispatch).
THEOREM OneWorkerSellsOwn == Spec => []NoOversell
<1>1. Paper!Spec => []Paper!NoOversell
  BY ValuesAreAllowed, Paper!SoleWorkerSellsOwn
<1> QED  BY <1>1, EachServiceRuns, PTL DEF NoOversell

\* The journal of the study has one owner, one claim first and one terminal
\* record last (ConfirmationStore.append).
THEOREM StudySound == Spec => []JournalIsSound
  BY EachServiceRuns, Study!OneSoundJournal, PTL DEF JournalIsSound

\* A journal sealed as completed lacks no submission (DurableWriter, _run_v3).
THEOREM StudyWhole == Spec => []CompletedIsWhole
<1>1. Study!Spec => []Study!CompletedIsWhole
  BY ValuesAreAllowed, Study!CompletedJournalIsWhole
<1> QED  BY <1>1, EachServiceRuns, PTL DEF CompletedIsWhole

\* A study whose lease is lost stays as it is (refresh, append).
THEOREM StudyFinal == Spec => DeathIsFinal
<1>1. Study!Spec => Study!DeathIsFinal
  BY ValuesAreAllowed, Study!DeadStudyStays
<1> QED  BY <1>1, EachServiceRuns DEF DeathIsFinal

\* No row of the dataset is made twice, however often the process crashes
\* (evaluate, resolve, recover_pending).
THEOREM DatasetOnce == Spec => []RowsAreMadeOnce
<1>1. Forward!Spec => []Forward!RowsAreMadeOnce
  BY ValuesAreAllowed, Forward!MadeOnce
<1> QED  BY <1>1, EachServiceRuns, PTL DEF RowsAreMadeOnce

\* A complete label spans no break and no restart (resolve).
THEOREM DatasetContinuous == Spec => []LabelsAreContinuous
<1>1. Forward!Spec => []Forward!LabelsAreContinuous
  BY ValuesAreAllowed, Forward!Continuous
<1> QED  BY <1>1, EachServiceRuns, PTL DEF LabelsAreContinuous

\* What is sealed is finished (clock, update_quality, persist_tape).
THEOREM DatasetFinished == Spec => []DatasetInv
<1>1. Forward!Spec => []Forward!DatasetInv
  BY ValuesAreAllowed, Forward!SealedIsFinished
<1> QED  BY <1>1, EachServiceRuns, PTL DEF DatasetInv
=============================================================================
