-------------------------- MODULE WebClient_proofs --------------------------
(***************************************************************************)
(* Proofs about the web clients of the platform: two that go on over a     *)
(* network that fails, and the page that keeps two intervals running.      *)
(*                                                                         *)
(* The browser's audit client and its ingestion endpoint: for any number   *)
(* of events, batch and queue size, whatever the network loses, repeats or *)
(* delays, every event is accounted for.                                   *)
(*                                                                         *)
(* The queue is always a run of consecutive events that ends at the last   *)
(* one recorded, and so is every batch in flight a run, which starts no    *)
(* later than the queue does.  From that follow the order of the log, and  *)
(* that a batch's length may be cut off a queue that has overflowed in the *)
(* meantime without losing more events than were counted as dropped.       *)
(*                                                                         *)
(* The Runs tab's log panel: for any runs, logs and sizes of an answer,    *)
(* whatever answers come late, the log shown is the selected run's own.    *)
(* Each tail's buffer ends where the tail will go on to ask, unless an     *)
(* answer that was not a log has left its mark, and only the tail of the   *)
(* selection is not cancelled.                                             *)
(*                                                                         *)
(* The studio page: for any configurations, lengths of a sweep and ticks   *)
(* queued, what is shown as running is driven.  A tick that is queued at   *)
(* once and ends the run has stopped the interval, and is still to be      *)
(* rendered; one that runs while rendering stops the interval and ends the *)
(* run together.  And what the page advises is what its gates say.         *)
(***************************************************************************)
EXTENDS UiAudit, RunsWorkspace, StudioPage, FiniteSetTheorems, SequenceTheorems, TLAPS

Run(a, l) == [i \in 1 .. l |-> a + i]

\* The events that have left the queue are 1 .. Left.
Left == counts.recorded - Len(queue)

\* A batch that was cut off a queue.
IsBatch(b, recorded) ==
  \E a \in Nat, l \in 1 .. MaxBatch : a + l <= recorded /\ b = Run(a, l)

\* The batch in flight was cut off a queue that has since lost only events at
\* its front.
IsRequest(r, left, recorded) ==
  /\ r = [at |-> r.at, batch |-> r.batch]
  /\ r.at \in {"none", "travelling", "accepted", "refused"}
  /\ r.at = "none" => r.batch = <<>>
  /\ r.at # "none" =>
       \E a \in Nat, l \in 1 .. MaxBatch :
         a <= left /\ a + l <= recorded /\ r.batch = Run(a, l)

QueueIsRun ==
  \E l \in 0 .. MaxQueue : l <= counts.recorded /\ queue = Run(counts.recorded - l, l)

Shape ==
  /\ counts \in [{"recorded", "sent", "rejected", "dropped"} -> Nat]
  /\ counts.recorded <= MaxEvents
  /\ QueueIsRun
  /\ status \in [Events -> {"unrecorded", "queued", "sent", "rejected"}]
  /\ \A e \in Events : status[e] = "unrecorded" <=> e > counts.recorded
  /\ armed \in BOOLEAN /\ blocked \in BOOLEAN /\ hidden \in BOOLEAN
  /\ failures \in 0 .. MaxFailures
  /\ IsRequest(request, Left, counts.recorded)
  /\ \A b \in strays : IsBatch(b, counts.recorded)
  /\ stored \in Seq(Events)

\* What the server has accepted is stored, told or not.
AcceptedIsStored ==
  request.at = "accepted" =>
    \A e \in ToSet(request.batch) \ Refused : Contains(stored, e)

\* The log holds the events 1 .. m but for the refused ones, and every batch
\* on its way starts at m + 1 at the latest.
LogIsPrefix(m) ==
  /\ ToSet(stored) = (1 .. m) \ Refused
  /\ Left <= m
  /\ \A b \in strays : b[1] <= m + 1
InOrder ==
  ~hidden /\ counts.dropped = 0 =>
    /\ \E m \in 0 .. counts.recorded : LogIsPrefix(m)
    /\ Flushing => request.batch[1] = Left + 1
    /\ \A i, j \in DOMAIN stored : i < j => stored[i] < stored[j]

\* The events whose fate the Activity workspace shows.
Told == {e \in Events : status[e] \in {"sent", "rejected"}}

\* Events are told once each, and those that have left the queue without it
\* were dropped.
Counted ==
  ~hidden =>
    /\ \A e \in ToSet(queue) \cup ToSet(request.batch) : status[e] = "queued"
    /\ Cardinality(Told) = counts.sent + counts.rejected
    /\ Left <= counts.sent + counts.rejected + counts.dropped

IInv ==
  /\ Shape /\ StoredOnce /\ AcceptedIsStored /\ SentMeansStored
  /\ InOrder /\ Counted /\ NeverStranded
-----------------------------------------------------------------------------
(* Runs *)

\* A run holds the l events after a.
LEMMA RunFacts ==
  ASSUME NEW a \in Nat, NEW l \in Nat
  PROVE  /\ Run(a, l) \in Seq(Nat) /\ Len(Run(a, l)) = l /\ DOMAIN Run(a, l) = 1 .. l
         /\ \A i \in 1 .. l : Run(a, l)[i] = a + i
         /\ ToSet(Run(a, l)) = (a + 1) .. (a + l)
<1>1. Run(a, l) \in [1 .. l -> Nat] /\ \A i \in 1 .. l : Run(a, l)[i] = a + i
  BY DEF Run
<1>2. Run(a, l) \in Seq(Nat) /\ Len(Run(a, l)) = l /\ DOMAIN Run(a, l) = 1 .. l
  BY <1>1
<1>3. ToSet(Run(a, l)) = {Run(a, l)[i] : i \in 1 .. l}
  BY <1>2 DEF ToSet
<1>4. \A e \in (a + 1) .. (a + l) : e - a \in 1 .. l /\ Run(a, l)[e - a] = e
  BY <1>1
<1>5. ToSet(Run(a, l)) = (a + 1) .. (a + l)
  BY <1>1, <1>3, <1>4
<1>6. QED BY <1>1, <1>2, <1>5

\* A piece of a run is a run.
LEMMA PieceOfRun ==
  ASSUME NEW a \in Nat, NEW l \in Nat, NEW i \in 1 .. l + 1, NEW j \in (i - 1) .. l
  PROVE  SubSeq(Run(a, l), i, j) = Run(a + i - 1, j - i + 1)
<1> DEFINE piece == SubSeq(Run(a, l), i, j)
           run == Run(a + i - 1, j - i + 1)
<1>1. a + i - 1 \in Nat /\ j - i + 1 \in Nat
  OBVIOUS
<1>2. run \in Seq(Nat) /\ Len(run) = j - i + 1 /\ \A k \in 1 .. j - i + 1 : run[k] = a + i - 1 + k
  BY <1>1, RunFacts
<1>3. \A k \in i .. j : Run(a, l)[k] = a + k
  BY RunFacts
<1>4. /\ piece \in Seq(Nat)
      /\ Len(piece) = IF i <= j THEN j - i + 1 ELSE 0
      /\ \A k \in 1 .. j - i + 1 : piece[k] = Run(a, l)[i + k - 1]
  <2>1. \A k \in i .. j : Run(a, l)[k] \in Nat
    BY <1>3
  <2>2. QED BY <2>1, SubSeqProperties
<1>5. Len(piece) = Len(run) /\ \A k \in 1 .. Len(piece) : piece[k] = run[k]
  BY <1>2, <1>3, <1>4
<1>6. QED BY <1>2, <1>4, <1>5, SeqEqual

\* What is cut off the front of a run leaves a run, and so does what is taken.
LEMMA CutsOfRun ==
  ASSUME NEW a \in Nat, NEW l \in Nat
  PROVE  /\ \A n \in 0 .. l : DropFirst(Run(a, l), n) = Run(a + n, l - n)
         /\ \A n \in Nat : n >= l => DropFirst(Run(a, l), n) = <<>>
         /\ Take(Run(a, l)) = Run(a, IF l < MaxBatch THEN l ELSE MaxBatch)
         /\ Append(Run(a, l), a + l + 1) = Run(a, l + 1)
<1>1. Len(Run(a, l)) = l /\ Run(a, l) \in Seq(Nat)
  BY RunFacts
<1>2. ASSUME NEW n \in 0 .. l PROVE DropFirst(Run(a, l), n) = Run(a + n, l - n)
  <2>1. n + 1 \in 1 .. l + 1 /\ l \in ((n + 1) - 1) .. l
    OBVIOUS
  <2>2. SubSeq(Run(a, l), n + 1, l) = Run(a + (n + 1) - 1, l - (n + 1) + 1)
    BY <2>1, PieceOfRun
  <2>3. QED BY <1>1, <2>2 DEF DropFirst
<1>3. ASSUME NEW n \in Nat, n >= l PROVE DropFirst(Run(a, l), n) = <<>>
  BY <1>1, <1>3, SubSeqEmpty DEF DropFirst
<1>4. Take(Run(a, l)) = Run(a, IF l < MaxBatch THEN l ELSE MaxBatch)
  <2> DEFINE n == IF l < MaxBatch THEN l ELSE MaxBatch
  <2>1. n \in 0 .. l /\ 1 \in 1 .. l + 1 /\ n \in (1 - 1) .. l
    BY ClientBounds
  <2> HIDE DEF n
  <2>2. SubSeq(Run(a, l), 1, n) = Run(a + 1 - 1, n - 1 + 1)
    BY <2>1, PieceOfRun
  <2>3. SubSeq(Run(a, l), 1, n) = Run(a, n)
    BY <2>1, <2>2
  <2>4. QED BY <1>1, <2>3 DEF Take, n
<1>5. Append(Run(a, l), a + l + 1) = Run(a, l + 1)
  <2>1. /\ Append(Run(a, l), a + l + 1) \in Seq(Nat)
        /\ Len(Append(Run(a, l), a + l + 1)) = l + 1
        /\ \A i \in 1 .. l : Append(Run(a, l), a + l + 1)[i] = Run(a, l)[i]
        /\ Append(Run(a, l), a + l + 1)[l + 1] = a + l + 1
    BY <1>1
  <2>2. Run(a, l + 1) \in Seq(Nat) /\ Len(Run(a, l + 1)) = l + 1
        /\ \A i \in 1 .. l + 1 : Run(a, l + 1)[i] = a + i
    BY RunFacts
  <2>3. \A i \in 1 .. l : Run(a, l)[i] = a + i
    BY RunFacts
  <2>4. ASSUME NEW i \in 1 .. l + 1
        PROVE  Append(Run(a, l), a + l + 1)[i] = Run(a, l + 1)[i]
    <3>1. CASE i = l + 1
      BY <2>1, <2>2, <3>1
    <3>2. CASE i # l + 1
      <4>1. i \in 1 .. l
        BY <3>2
      <4>2. QED BY <2>1, <2>2, <2>3, <4>1
    <3>3. QED BY <3>1, <3>2
  <2>5. QED BY <2>1, <2>2, <2>4, SeqEqual
<1>6. QED BY <1>2, <1>3, <1>4, <1>5

\* The queue holds the l events after those that have left it.
QueueIs(a, l) ==
  /\ queue = Run(a, l) /\ Len(queue) = l /\ l <= MaxQueue /\ DOMAIN queue = 1 .. l
  /\ Left = a /\ counts.recorded = a + l /\ counts.recorded \in 0 .. MaxEvents
  /\ \A i \in 1 .. l : queue[i] = a + i
  /\ ToSet(queue) = (a + 1) .. (a + l)
  /\ queue = <<>> <=> l = 0

LEMMA QueueFacts ==
  ASSUME Shape
  PROVE  /\ counts.recorded \in 0 .. MaxEvents /\ counts.dropped \in Nat
         /\ counts.sent \in Nat /\ counts.rejected \in Nat
         /\ \E a, l \in Nat : QueueIs(a, l)
<1>1. counts.recorded \in 0 .. MaxEvents /\ counts.dropped \in Nat
      /\ counts.sent \in Nat /\ counts.rejected \in Nat
  BY ClientBounds DEF Shape
<1>2. PICK a \in Nat, l \in Nat :
          l <= MaxQueue /\ counts.recorded = a + l /\ queue = Run(a, l)
  <2>1. PICK l \in 0 .. MaxQueue : l <= counts.recorded /\ queue = Run(counts.recorded - l, l)
    BY DEF Shape, QueueIsRun
  <2>2. l \in Nat /\ counts.recorded - l \in Nat /\ counts.recorded = (counts.recorded - l) + l
    BY <1>1, <2>1, ClientBounds
  <2>3. QED BY <2>1, <2>2
<1>3. /\ Len(queue) = l /\ DOMAIN queue = 1 .. l /\ queue \in Seq(Nat)
      /\ \A i \in 1 .. l : queue[i] = a + i
      /\ ToSet(queue) = (a + 1) .. (a + l)
  BY <1>2, RunFacts
<1>4. Left = a
  BY <1>1, <1>2, <1>3 DEF Left
<1>5. queue = <<>> <=> l = 0
  BY <1>3
<1>6. QueueIs(a, l)
  <2>1. queue = Run(a, l) /\ Len(queue) = l /\ l <= MaxQueue /\ DOMAIN queue = 1 .. l
    BY <1>2, <1>3
  <2>2. Left = a /\ counts.recorded = a + l /\ counts.recorded \in 0 .. MaxEvents
    BY <1>1, <1>2, <1>4
  <2>3. (\A i \in 1 .. l : queue[i] = a + i) /\ ToSet(queue) = (a + 1) .. (a + l)
    BY <1>3
  <2>4. QED BY <1>5, <2>1, <2>2, <2>3 DEF QueueIs
<1>7. \E a_1, l_1 \in Nat : QueueIs(a_1, l_1)
  BY <1>6
<1>8. QED BY <1>1, <1>7

-----------------------------------------------------------------------------
(* Client steps *)

\* An event recorded joins the queue at its end; at the limit the oldest event
\* leaves, and the queue is a run again.
Added == Append(queue, counts.recorded + 1)
Excess(q) == IF Len(q) > MaxQueue THEN Len(q) - MaxQueue ELSE 0
Kept == DropFirst(Added, Excess(Added))

LEMMA Joined ==
  ASSUME NEW a \in Nat, NEW l \in Nat, QueueIs(a, l)
  PROVE  /\ Excess(Added) \in {0, 1}
         /\ \E n \in 1 .. MaxQueue : /\ n = l + 1 - Excess(Added)
                                     /\ Kept = Run(a + Excess(Added), n)
                                     /\ Len(Kept) = n
<1> DEFINE q == Added
<1> PICK excess : excess = Excess(q)
  OBVIOUS
<1>1. l <= MaxQueue /\ counts.recorded = a + l /\ queue = Run(a, l)
  BY DEF QueueIs
<1>2. PICK k \in Nat : k = l + 1
  OBVIOUS
<1>3. q = Run(a, k)
  BY <1>1, <1>2, CutsOfRun DEF Added
<1> HIDE DEF q
<1>4. Len(q) = k
  BY <1>3, RunFacts
<1>5. excess = 0 \/ (excess = 1 /\ k = MaxQueue + 1)
  <2>1. MaxQueue \in Nat /\ (k <= MaxQueue \/ k = MaxQueue + 1)
    BY <1>1, <1>2, ClientBounds
  <2>2. k <= MaxQueue => excess = 0
    BY <1>4, <2>1 DEF Excess
  <2>3. k = MaxQueue + 1 => excess = 1
    BY <1>4, <2>1 DEF Excess
  <2>4. QED BY <2>1, <2>2, <2>3
<1>6. excess \in 0 .. k
  BY <1>5, ClientBounds
<1>7. PICK n \in 1 .. MaxQueue : n = k - excess
  <2>1. CASE excess = 0
    <3>1. MaxQueue \in Nat /\ ~(k > MaxQueue)
      BY <1>4, <2>1, ClientBounds DEF Excess
    <3>2. k \in 1 .. MaxQueue /\ k = k - excess
      BY <1>1, <1>2, <2>1, <3>1
    <3>3. QED BY <3>2
  <2>2. CASE excess = 1 /\ k = MaxQueue + 1
    <3>1. MaxQueue \in 1 .. MaxQueue /\ MaxQueue = k - excess
      BY <2>2, ClientBounds
    <3>2. QED BY <3>1
  <2>3. QED BY <1>5, <2>1, <2>2
<1>8. DropFirst(q, excess) = Run(a + excess, n)
  BY <1>3, <1>6, <1>7, CutsOfRun
<1>9. Len(DropFirst(q, excess)) = n
  <2>1. PICK b \in Nat : b = a + excess
    BY <1>6
  <2>2. DropFirst(q, excess) = Run(b, n) /\ n \in Nat
    BY <1>8, <2>1, ClientBounds
  <2>3. Len(Run(b, n)) = n
    BY <2>2, RunFacts
  <2>4. QED BY <2>2, <2>3
<1>10. n = l + 1 - excess
  BY <1>2, <1>6, <1>7
<1>11. excess \in {0, 1}
  BY <1>5
<1>12. QED BY <1>8, <1>9, <1>10, <1>11 DEF Kept, q

\* flush() leaves the request alone or sends the front of the queue, and does
\* not leave a queue that nobody will look at.
LEMMA FlushFacts ==
  ASSUME NEW a \in Nat, NEW l \in Nat, NEW q, q = Run(a, l),
         NEW isBlocked \in BOOLEAN, NEW timer \in BOOLEAN, Flush(q, isBlocked, timer)
  PROVE  /\ armed' \in BOOLEAN
         /\ l > 0 => Flushing' \/ armed'
         /\ \/ request' = request
            \/ /\ ~Flushing /\ l > 0
               /\ \E n \in 1 .. l : n <= MaxBatch
                    /\ request' = [at |-> "travelling", batch |-> Run(a, n)]
<1>1. q = <<>> <=> l = 0
  <2>1. Len(q) = l /\ q \in Seq(Nat)
    BY RunFacts
  <2>2. QED BY <2>1
<1>2. CASE (Flushing \/ q = <<>>) /\ armed' = timer /\ UNCHANGED request
  BY <1>1, <1>2 DEF Flushing
<1>3. CASE ~Flushing /\ q # <<>> /\ isBlocked /\ armed' = TRUE /\ UNCHANGED request
  BY <1>3
<1>4. CASE /\ ~Flushing /\ q # <<>> /\ ~isBlocked /\ armed' = timer
           /\ request' = [at |-> "travelling", batch |-> Take(q)]
  <2> DEFINE n == IF l < MaxBatch THEN l ELSE MaxBatch
  <2>1. l > 0
    BY <1>1, <1>4
  <2>2. n \in 1 .. l /\ n <= MaxBatch
    BY <2>1, ClientBounds
  <2>3. Take(q) = Run(a, n)
    BY CutsOfRun
  <2>4. request' = [at |-> "travelling", batch |-> Run(a, n)] /\ Flushing'
    BY <1>4, <2>3 DEF Flushing
  <2>5. QED BY <1>4, <2>1, <2>2, <2>4
<1>5. QED BY <1>2, <1>3, <1>4 DEF Flush

\* A request and a batch stay what they are as the queue moves on.
LEMMA RequestStays ==
  ASSUME NEW r, NEW a \in Nat, NEW b \in Nat, NEW n \in Nat, NEW m \in Nat,
         IsRequest(r, a, n), a <= b, n <= m
  PROVE  IsRequest(r, b, m)
<1>1. ASSUME r.at # "none"
      PROVE  \E k \in Nat, l \in 1 .. MaxBatch : k <= b /\ k + l <= m /\ r.batch = Run(k, l)
  <2>1. PICK k \in Nat, l \in 1 .. MaxBatch : k <= a /\ k + l <= n /\ r.batch = Run(k, l)
    BY <1>1 DEF IsRequest
  <2>2. k <= b /\ k + l <= m
    BY <2>1, ClientBounds
  <2>3. QED BY <2>1, <2>2
<1>2. QED BY <1>1 DEF IsRequest

LEMMA BatchStays ==
  ASSUME NEW b, NEW n \in Nat, NEW m \in Nat, IsBatch(b, n), n <= m
  PROVE  IsBatch(b, m)
<1>1. PICK k \in Nat, l \in 1 .. MaxBatch : k + l <= n /\ b = Run(k, l)
  BY DEF IsBatch
<1>2. k + l <= m
  BY <1>1, ClientBounds
<1>3. QED BY <1>1, <1>2 DEF IsBatch

\* The request that flush() leaves is one whose batch is still in the queue.
LEMMA FlushedRequest ==
  ASSUME NEW a \in Nat, NEW b \in Nat, NEW n \in Nat, NEW m \in Nat, NEW l \in Nat,
         IsRequest(request, a, n), a <= b, n <= m, b + l <= m,
         NEW q, q = Run(b, l), NEW isBlocked \in BOOLEAN, NEW timer \in BOOLEAN,
         Flush(q, isBlocked, timer)
  PROVE  IsRequest(request', b, m)
<1>1. CASE request' = request
  BY <1>1, RequestStays
<1>2. CASE \E k \in 1 .. l : k <= MaxBatch
             /\ request' = [at |-> "travelling", batch |-> Run(b, k)]
  <2>1. PICK k \in 1 .. l : k <= MaxBatch
             /\ request' = [at |-> "travelling", batch |-> Run(b, k)]
    BY <1>2
  <2>2. k \in 1 .. MaxBatch /\ b <= b /\ b + k <= m
    BY <2>1, ClientBounds
  <2>3. request'.at = "travelling" /\ request'.batch = Run(b, k)
        /\ request' = [at |-> request'.at, batch |-> request'.batch]
    BY <2>1
  <2>4. QED BY <2>2, <2>3 DEF IsRequest
<1>3. QED BY <1>1, <1>2, FlushFacts

-----------------------------------------------------------------------------
(* The log *)

\* A sequence contains the members of its set.
LEMMA ContainsFacts ==
  ASSUME NEW S, NEW s \in Seq(S)
  PROVE  \A e : Contains(s, e) <=> e \in ToSet(s)
BY DEF Contains, ToSet

\* What two sequences one after the other hold, and when they hold nothing
\* twice or are in order.
LEMMA ConcatFacts ==
  ASSUME NEW s \in Seq(Events), NEW t \in Seq(Events)
  PROVE  /\ s \o t \in Seq(Events)
         /\ ToSet(s \o t) = ToSet(s) \cup ToSet(t)
         /\ (\A i, j \in DOMAIN s : i < j => s[i] < s[j])
            /\ (\A i, j \in DOMAIN t : i < j => t[i] < t[j])
            /\ (\A d \in ToSet(s), e \in ToSet(t) : d < e)
            => \A i, j \in DOMAIN (s \o t) : i < j => (s \o t)[i] < (s \o t)[j]
         /\ (\A i, j \in DOMAIN s : s[i] = s[j] => i = j)
            /\ (\A i, j \in DOMAIN t : t[i] = t[j] => i = j)
            /\ ToSet(s) \cap ToSet(t) = {}
            => \A i, j \in DOMAIN (s \o t) : (s \o t)[i] = (s \o t)[j] => i = j
<1> DEFINE st == s \o t
<1>1. /\ st \in Seq(Events) /\ Len(st) = Len(s) + Len(t) /\ DOMAIN st = 1 .. Len(st)
      /\ Len(s) \in Nat /\ DOMAIN s = 1 .. Len(s) /\ Len(t) \in Nat /\ DOMAIN t = 1 .. Len(t)
      /\ \A i \in 1 .. Len(s) : st[i] = s[i]
      /\ \A i \in 1 .. Len(t) : st[Len(s) + i] = t[i]
  OBVIOUS
<1> HIDE DEF st
<1>2. \A i \in 1 .. Len(st) : i \in 1 .. Len(s)
         \/ (i - Len(s) \in 1 .. Len(t) /\ st[i] = t[i - Len(s)])
  <2> TAKE i \in 1 .. Len(st)
  <2>1. CASE i <= Len(s)
    BY <1>1, <2>1
  <2>2. CASE i > Len(s)
    <3>1. PICK k \in 1 .. Len(t) : k = i - Len(s) /\ i = Len(s) + k
      <4>1. Len(s) \in Nat /\ Len(t) \in Nat /\ i \in 1 .. (Len(s) + Len(t)) /\ i > Len(s)
        BY <1>1, <2>2
      <4>2. i - Len(s) \in 1 .. Len(t) /\ i = Len(s) + (i - Len(s))
        BY <4>1
      <4>3. QED BY <4>2
    <3>2. st[i] = t[k]
      BY <1>1, <3>1
    <3>3. QED BY <3>1, <3>2
  <2>3. QED BY <1>1, <2>1, <2>2
<1>3. (\A i \in 1 .. Len(s) : s[i] \in ToSet(s)) /\ (\A i \in 1 .. Len(t) : t[i] \in ToSet(t))
  BY <1>1 DEF ToSet
<1>4. ToSet(st) = ToSet(s) \cup ToSet(t)
  <2>1. ASSUME NEW e \in ToSet(st) PROVE e \in ToSet(s) \cup ToSet(t)
    <3>1. PICK i \in 1 .. Len(st) : e = st[i]
      BY <1>1 DEF ToSet
    <3>2. QED BY <1>1, <1>2, <1>3, <3>1
  <2>2. ASSUME NEW e \in ToSet(s) PROVE e \in ToSet(st)
    BY <1>1 DEF ToSet
  <2>3. ASSUME NEW e \in ToSet(t) PROVE e \in ToSet(st)
    <3>1. PICK i \in 1 .. Len(t) : e = t[i]
      BY <1>1 DEF ToSet
    <3>2. PICK k \in 1 .. Len(st) : k = Len(s) + i
      BY <1>1
    <3>3. QED BY <1>1, <3>1, <3>2 DEF ToSet
  <2>4. QED BY <2>1, <2>2, <2>3
<1>5. ASSUME \A i, j \in DOMAIN s : i < j => s[i] < s[j],
             \A i, j \in DOMAIN t : i < j => t[i] < t[j],
             \A d \in ToSet(s), e \in ToSet(t) : d < e,
             NEW i \in DOMAIN st, NEW j \in DOMAIN st, i < j
      PROVE  st[i] < st[j]
  <2>1. CASE i \in 1 .. Len(s) /\ j \in 1 .. Len(s)
    BY <1>1, <1>5, <2>1
  <2>2. CASE i \in 1 .. Len(s) /\ j \notin 1 .. Len(s)
    BY <1>1, <1>2, <1>3, <1>5, <2>2
  <2>3. CASE i \notin 1 .. Len(s)
    <3>1. /\ i - Len(s) \in 1 .. Len(t) /\ st[i] = t[i - Len(s)]
          /\ j - Len(s) \in 1 .. Len(t) /\ st[j] = t[j - Len(s)]
          /\ i - Len(s) < j - Len(s)
      BY <1>1, <1>2, <1>5, <2>3
    <3>2. QED BY <1>1, <1>5, <3>1
  <2>4. QED BY <2>1, <2>2, <2>3
<1>6. ASSUME \A i, j \in DOMAIN s : s[i] = s[j] => i = j,
             \A i, j \in DOMAIN t : t[i] = t[j] => i = j,
             ToSet(s) \cap ToSet(t) = {},
             NEW i \in DOMAIN st, NEW j \in DOMAIN st, st[i] = st[j]
      PROVE  i = j
  <2>1. CASE i \in 1 .. Len(s) /\ j \in 1 .. Len(s)
    BY <1>1, <1>6, <2>1
  <2>2. CASE i \in 1 .. Len(s) /\ j \notin 1 .. Len(s)
    BY <1>1, <1>2, <1>3, <1>6, <2>2
  <2>3. CASE i \notin 1 .. Len(s) /\ j \in 1 .. Len(s)
    BY <1>1, <1>2, <1>3, <1>6, <2>3
  <2>4. CASE i \notin 1 .. Len(s) /\ j \notin 1 .. Len(s)
    <3>1. /\ i - Len(s) \in 1 .. Len(t) /\ st[i] = t[i - Len(s)]
          /\ j - Len(s) \in 1 .. Len(t) /\ st[j] = t[j - Len(s)]
      BY <1>1, <1>2, <2>4
    <3>2. i - Len(s) = j - Len(s)
      BY <1>1, <1>6, <3>1
    <3>3. QED BY <1>1, <3>2
  <2>5. QED BY <2>1, <2>2, <2>3, <2>4
<1>7. QED BY <1>1, <1>4, <1>5, <1>6 DEF st

\* The rows written for a batch are in the order of the batch, which is a run.
LEMMA WriteFacts ==
  ASSUME NEW a \in Nat, NEW l \in Nat, NEW news \in SUBSET Events, Write(Run(a, l), news)
  PROVE  \E rows \in Seq(Events) :
           /\ stored' = stored \o rows /\ ToSet(rows) = news
           /\ \A i, j \in DOMAIN rows : i < j => rows[i] < rows[j]
           /\ \A i, j \in DOMAIN rows : rows[i] = rows[j] => i = j
<1> DEFINE N == Cardinality(news)
<1>1. N \in Nat
  <2>1. IsFiniteSet(Events)
    BY ClientBounds, FS_Interval DEF Events
  <2>2. QED BY <2>1, FS_Subset, FS_CardinalityType
<1> HIDE DEF N
<1>2. PICK rows \in [1 .. N -> news] :
        /\ ToSet(rows) = news
        /\ \A i, j \in 1 .. N : i < j =>
             \E c, d \in DOMAIN Run(a, l) : c < d /\ Run(a, l)[c] = rows[i] /\ Run(a, l)[d] = rows[j]
        /\ stored' = stored \o rows
  BY DEF Write, N
<1>3. rows \in Seq(Events) /\ DOMAIN rows = 1 .. N
  BY <1>1
<1>4. ASSUME NEW i \in DOMAIN rows, NEW j \in DOMAIN rows, i < j
      PROVE  rows[i] < rows[j]
  <2>1. DOMAIN Run(a, l) = 1 .. l /\ i \in 1 .. N /\ j \in 1 .. N
    BY <1>3, RunFacts
  <2>2. PICK c \in 1 .. l, d \in 1 .. l :
           c < d /\ Run(a, l)[c] = rows[i] /\ Run(a, l)[d] = rows[j]
    BY <1>2, <1>4, <2>1
  <2>3. Run(a, l)[c] = a + c /\ Run(a, l)[d] = a + d
    BY RunFacts
  <2>4. QED BY <2>2, <2>3
<1>5. ASSUME NEW i \in DOMAIN rows, NEW j \in DOMAIN rows, rows[i] = rows[j]
      PROVE  i = j
  <2>1. i \in 1 .. N /\ j \in 1 .. N /\ rows[i] \in Nat /\ rows[j] \in Nat
    <3>1. rows[i] \in Events /\ rows[j] \in Events /\ i \in 1 .. N /\ j \in 1 .. N
      BY <1>2, <1>3
    <3>2. \A e \in Events : e \in Nat
      BY ClientBounds DEF Events
    <3>3. QED BY <3>1, <3>2
  <2>2. ~(rows[i] < rows[j]) /\ ~(rows[j] < rows[i])
    BY <1>5, <2>1
  <2>3. ~(i < j) /\ ~(j < i)
    BY <1>4, <2>2
  <2>4. QED BY <1>1, <2>1, <2>3
<1>6. QED BY <1>2, <1>3, <1>4, <1>5

\* Ingestion adds the batch's events that are neither rejected nor there, and
\* leaves nothing twice.
LEMMA StoreFacts ==
  ASSUME Shape, NEW a \in Nat, NEW l \in 1 .. MaxBatch, a + l <= counts.recorded,
         Store(Run(a, l))
  PROVE  /\ stored' \in Seq(Events)
         /\ ToSet(stored') = ToSet(stored) \cup (((a + 1) .. (a + l)) \ Refused)
         /\ StoredOnce => StoredOnce'
         /\ (\A i, j \in DOMAIN stored : i < j => stored[i] < stored[j])
            /\ (\A d \in ToSet(stored), e \in (a + 1) .. (a + l) :
                  e \notin ToSet(stored) \cup Refused => d < e)
            => \A i, j \in DOMAIN stored' : i < j => stored'[i] < stored'[j]
<1> DEFINE news == {e \in ToSet(Run(a, l)) \ Refused : ~Contains(stored, e)}
<1>1. stored \in Seq(Events) /\ counts.recorded \in 0 .. MaxEvents /\ l \in Nat
  BY QueueFacts, ClientBounds DEF Shape
<1>2. ToSet(Run(a, l)) = (a + 1) .. (a + l)
  BY <1>1, RunFacts
<1>3. news = (((a + 1) .. (a + l)) \ Refused) \ ToSet(stored)
  BY <1>1, <1>2, ContainsFacts
<1>4. (a + 1) .. (a + l) \subseteq Events
  BY <1>1, ClientBounds DEF Events
<1>5. news \in SUBSET Events
  BY <1>3, <1>4
<1>6. Write(Run(a, l), news)
  BY DEF Store
<1> HIDE DEF news
<1>7. PICK rows \in Seq(Events) :
        /\ stored' = stored \o rows /\ ToSet(rows) = news
        /\ \A i, j \in DOMAIN rows : i < j => rows[i] < rows[j]
        /\ \A i, j \in DOMAIN rows : rows[i] = rows[j] => i = j
  BY <1>1, <1>5, <1>6, WriteFacts
<1>8. stored' \in Seq(Events) /\ ToSet(stored') = ToSet(stored) \cup news
  BY <1>1, <1>7, ConcatFacts
<1>9. StoredOnce => StoredOnce'
  <2> SUFFICES ASSUME StoredOnce PROVE StoredOnce'
    OBVIOUS
  <2>1. ToSet(stored) \cap ToSet(rows) = {} /\ ToSet(stored') \cap Refused = {}
    BY <1>3, <1>7, <1>8 DEF StoredOnce
  <2>2. \A i, j \in DOMAIN stored : stored[i] = stored[j] => i = j
    BY DEF StoredOnce
  <2>3. \A i, j \in DOMAIN (stored \o rows) : (stored \o rows)[i] = (stored \o rows)[j] => i = j
    BY <1>1, <1>7, <2>1, <2>2, ConcatFacts
  <2>4. QED BY <1>7, <2>1, <2>3 DEF StoredOnce
<1>10. ASSUME \A i, j \in DOMAIN stored : i < j => stored[i] < stored[j],
              \A d \in ToSet(stored), e \in (a + 1) .. (a + l) :
                 e \notin ToSet(stored) \cup Refused => d < e
       PROVE  \A i, j \in DOMAIN stored' : i < j => stored'[i] < stored'[j]
  <2>1. \A d \in ToSet(stored), e \in ToSet(rows) : d < e
    BY <1>3, <1>7, <1>10
  <2>2. \A i, j \in DOMAIN (stored \o rows) : i < j => (stored \o rows)[i] < (stored \o rows)[j]
    BY <1>1, <1>7, <1>10, <2>1, ConcatFacts
  <2>3. QED BY <1>7, <2>2
<1>11. QED BY <1>3, <1>8, <1>9, <1>10
-----------------------------------------------------------------------------
(* The shape of the state is kept *)

\* By a step that leaves the queue, the counters and the statuses alone.
LEMMA ShapeQuiet ==
  ASSUME Shape, UNCHANGED <<queue, counts, status>>, armed' \in BOOLEAN,
         blocked' \in BOOLEAN, hidden' \in BOOLEAN, failures' \in 0 .. MaxFailures,
         IsRequest(request', Left, counts.recorded),
         \A b \in strays' : IsBatch(b, counts.recorded), stored' \in Seq(Events)
  PROVE  Shape'
<1>1. Left' = Left /\ QueueIsRun' /\ Events' = Events
  BY DEF Left, QueueIsRun, Shape, Events
<1>2. QED BY <1>1 DEF Shape

\* What the steps of the network and those that only send or block do.
LEMMA ShapeQuietSteps ==
  ASSUME Shape,
         Timer \/ RetryNow \/ Unblock \/ RefusalSeen \/ NetworkError \/ Ingest \/ Refuse
         \/ \E b \in strays : StrayEnds(b)
  PROVE  Shape'
<1> USE DEF Shape
<1>1. PICK a \in Nat, l \in Nat : QueueIs(a, l)
  BY QueueFacts
<1>2. /\ counts.recorded \in Nat /\ Left = a /\ queue = Run(a, l)
      /\ a <= a /\ counts.recorded <= counts.recorded /\ a + l <= counts.recorded
  BY <1>1 DEF QueueIs
<1>3. ASSUME NEW timer \in BOOLEAN, NEW isBlocked \in BOOLEAN, Flush(queue, isBlocked, timer)
      PROVE  IsRequest(request', Left, counts.recorded) /\ armed' \in BOOLEAN
  BY <1>2, <1>3, FlushedRequest, FlushFacts
<1>4. IsRequest(NoRequest, Left, counts.recorded)
  BY DEF IsRequest, NoRequest
<1>5. CASE Timer
  BY <1>3, <1>5, ShapeQuiet DEF Timer, serverVars
<1>6. CASE RetryNow
  BY <1>3, <1>6, ShapeQuiet DEF RetryNow, serverVars
<1>7. CASE Unblock
  BY <1>7, ShapeQuiet DEF Unblock, serverVars
<1>8. CASE RefusalSeen
  BY <1>4, <1>8, ShapeQuiet DEF RefusalSeen, BackOff, serverVars
<1>9. CASE NetworkError
  <2>1. request.at = "travelling" => IsBatch(request.batch, counts.recorded)
    BY DEF IsRequest, IsBatch
  <2>2. \A b \in strays' : IsBatch(b, counts.recorded)
    BY <1>9, <2>1 DEF NetworkError
  <2>3. failures' \in 0 .. MaxFailures
    BY <1>9, ClientBounds DEF NetworkError
  <2>4. QED BY <1>4, <1>9, <2>2, <2>3, ShapeQuiet DEF NetworkError, BackOff
<1>10. CASE Ingest
  <2>1. PICK b \in Nat, k \in 1 .. MaxBatch :
           b + k <= counts.recorded /\ b <= Left /\ request.batch = Run(b, k)
    BY <1>10 DEF IsRequest, Ingest
  <2>2. stored' \in Seq(Events)
    BY <1>10, <2>1, StoreFacts DEF Ingest
  <2>3. IsRequest(request', Left, counts.recorded)
    BY <1>10, <2>1 DEF Ingest, IsRequest
  <2>4. QED BY <1>10, <2>2, <2>3, ShapeQuiet DEF Ingest
<1>11. CASE Refuse
  <2>1. IsRequest(request', Left, counts.recorded)
    BY <1>11 DEF Refuse, IsRequest
  <2>2. failures' \in 0 .. MaxFailures
    BY <1>11, ClientBounds DEF Refuse
  <2>3. QED BY <1>11, <2>1, <2>2, ShapeQuiet DEF Refuse, serverVars
<1>12. CASE \E b \in strays : StrayEnds(b)
  <2>1. PICK b \in strays : StrayEnds(b)
    BY <1>12
  <2>2. PICK c \in Nat, k \in 1 .. MaxBatch : c + k <= counts.recorded /\ b = Run(c, k)
    BY DEF IsBatch
  <2>3. stored' \in Seq(Events)
    BY <2>1, <2>2, StoreFacts DEF StrayEnds
  <2>4. QED BY <2>1, <2>3, ShapeQuiet DEF StrayEnds
<1>13. QED BY <1>5, <1>6, <1>7, <1>8, <1>9, <1>10, <1>11, <1>12

\* What record does about sending: a full batch is flushed at once, otherwise
\* the timer is armed.
Sending(isBlocked, timer) ==
  \/ Len(Kept) >= MaxBatch /\ Flush(Kept, isBlocked, timer)
  \/ Len(Kept) < MaxBatch /\ armed' = TRUE /\ UNCHANGED request

\* record: the queue that is left is the run up to the new event, some
\* flush will be called, and a batch that goes out is its front.
LEMMA Recording ==
  ASSUME Shape, NEW a \in Nat, NEW l \in Nat, QueueIs(a, l),
         NEW isBlocked \in BOOLEAN, NEW timer \in BOOLEAN, Sending(isBlocked, timer)
  PROVE  \E b \in Nat, n \in 1 .. MaxQueue :
           /\ Excess(Added) \in {0, 1} /\ b = a + Excess(Added)
           /\ n = l + 1 - Excess(Added) /\ b + n = a + l + 1
           /\ Kept = Run(b, n) /\ Len(Kept) = n
           /\ armed' \in BOOLEAN /\ (Flushing' \/ armed')
           /\ IsRequest(request', b, a + l + 1)
           /\ \/ request' = request
              \/ ~Flushing /\ \E k \in 1 .. n :
                    request' = [at |-> "travelling", batch |-> Run(b, k)]
<1> PICK excess, all : excess = Excess(Added) /\ all = Kept
  OBVIOUS
<1>1. /\ excess \in {0, 1}
      /\ \E n \in 1 .. MaxQueue :
           n = l + 1 - excess /\ all = Run(a + excess, n) /\ Len(all) = n
  BY Joined
<1>2. PICK n \in 1 .. MaxQueue : n = l + 1 - excess /\ all = Run(a + excess, n) /\ Len(all) = n
  BY <1>1
<1>3. n \in Nat /\ n > 0
  BY ClientBounds
<1>4. PICK b \in Nat : b = a + excess /\ b + n = a + l + 1 /\ a <= b
  <2>1. a + excess \in Nat /\ (a + excess) + n = a + l + 1 /\ a <= a + excess
    BY <1>1, <1>2, <1>3
  <2>2. QED BY <2>1
<1>5. PICK m \in Nat : m = a + l + 1
  OBVIOUS
<1>6. PICK o \in Nat : o = a + l /\ o <= m /\ b + n <= m /\ IsRequest(request, a, o)
  <2>1. counts.recorded = a + l /\ Left = a /\ counts.recorded \in Nat
    BY DEF QueueIs
  <2>2. counts.recorded <= m /\ b + n <= m
    BY <1>4, <1>5, <2>1
  <2>3. IsRequest(request, a, counts.recorded)
    BY <2>1 DEF Shape
  <2>4. QED BY <2>1, <2>2, <2>3
<1> all = Run(b, n)
  BY <1>2, <1>4
<1>7. CASE Len(all) >= MaxBatch /\ Flush(all, isBlocked, timer)
  <2>1. IsRequest(request', b, m)
    BY <1>3, <1>4, <1>6, <1>7, FlushedRequest
  <2>2. /\ armed' \in BOOLEAN /\ (Flushing' \/ armed')
        /\ \/ request' = request
           \/ ~Flushing /\ \E k \in 1 .. n :
                    request' = [at |-> "travelling", batch |-> Run(b, k)]
    BY <1>3, <1>6, <1>7, FlushFacts
  <2>3. QED BY <1>1, <1>2, <1>4, <1>5, <1>6, <2>1, <2>2
<1>8. CASE Len(all) < MaxBatch /\ armed' = TRUE /\ UNCHANGED request
  <2>1. IsRequest(request', b, m)
    BY <1>4, <1>6, <1>8, RequestStays
  <2>2. QED BY <1>1, <1>2, <1>4, <1>5, <1>6, <1>8, <2>1
<1>9. QED BY <1>7, <1>8 DEF Sending

\* What a client step changes: the queue becomes the run of n events after b.
LEMMA ShapeMoved ==
  ASSUME Shape, NEW a \in Nat, NEW l \in Nat, QueueIs(a, l), 
         NEW b \in Nat, NEW n \in Nat, queue' = Run(b, n), n <= MaxQueue,
         counts' \in [{"recorded", "sent", "rejected", "dropped"} -> Nat],
         counts'.recorded = b + n, counts'.recorded <= MaxEvents,
         counts.recorded <= counts'.recorded,
         status' \in [Events -> {"unrecorded", "queued", "sent", "rejected"}],
         \A e \in Events : status'[e] = "unrecorded" <=> e > counts'.recorded,
         armed' \in BOOLEAN, blocked' \in BOOLEAN, hidden' \in BOOLEAN,
         failures' \in 0 .. MaxFailures, IsRequest(request', b, counts'.recorded),
         \A c \in strays' : c \in strays \/ IsBatch(c, counts'.recorded),
         stored' \in Seq(Events)
  PROVE  Shape' /\ QueueIs(b, n)'
<1>1. Len(queue') = n /\ n \in 0 .. MaxQueue /\ b = counts'.recorded - n
  <2>1. Len(Run(b, n)) = n
    BY RunFacts
  <2>2. n \in 0 .. MaxQueue /\ b = (b + n) - n
    BY ClientBounds
  <2>3. QED BY <2>1, <2>2
<1>2. Left' = b
  BY <1>1 DEF Left
<1>3. QueueIsRun'
  BY <1>1 DEF QueueIsRun
<1>4. counts.recorded \in Nat /\ counts'.recorded \in Nat
  BY DEF Shape
<1>5. \A c \in strays' : IsBatch(c, counts'.recorded)
  BY <1>4, BatchStays DEF Shape
<1>6. Shape'
  BY <1>2, <1>3, <1>5 DEF Shape, Events
<1>7. QueueIs(b, n)'
  <2>1. DOMAIN queue' = 1 .. n /\ queue' \in Seq(Nat) /\ Len(queue') = n
    BY RunFacts
  <2>2. queue' = <<>> <=> n = 0
    BY <2>1
  <2>3. \A i \in 1 .. n : queue'[i] = b + i
    BY RunFacts
  <2>4. ToSet(queue') = (b + 1) .. (b + n)
    BY RunFacts
  <2>5. counts'.recorded \in 0 .. MaxEvents
    BY <1>4, ClientBounds
  <2>6. QED BY <1>1, <1>2, <2>1, <2>2, <2>3, <2>4, <2>5 DEF QueueIs
<1>8. QED BY <1>6, <1>7

\* record puts the event at the end of the queue; the queue loses at most one
\* event, which is counted.
LEMMA RecordStep ==
  ASSUME Shape, Record
  PROVE  /\ Shape'
         /\ \E a, l, b, n \in Nat :
              /\ QueueIs(a, l) /\ QueueIs(b, n)' /\ Excess(Added) \in {0, 1}
              /\ b = a + Excess(Added) /\ b + n = a + l + 1 /\ n > 0
              /\ Flushing' \/ armed'
              /\ \/ request' = request
                 \/ ~Flushing /\ \E k \in 1 .. n :
                       request' = [at |-> "travelling", batch |-> Run(b, k)]
<1>1. PICK a \in Nat, l \in Nat : QueueIs(a, l)
  BY QueueFacts
<1>2. /\ counts.recorded < MaxEvents
      /\ counts' = [counts EXCEPT !.recorded = counts.recorded + 1,
                                  !.dropped = @ + Excess(Added)]
      /\ status' = [status EXCEPT ![counts.recorded + 1] = "queued"]
      /\ queue' = Kept
      /\ \/ Len(queue') >= MaxBatch /\ Flush(queue', blocked, armed)
         \/ Len(queue') < MaxBatch /\ armed' = TRUE /\ UNCHANGED request
      /\ UNCHANGED <<blocked, strays, stored, hidden, failures>>
  BY DEF Record, Added, Excess, Kept, serverVars
<1>3. PICK isBlocked \in BOOLEAN, timer \in BOOLEAN : isBlocked = blocked /\ timer = armed
  BY DEF Shape
<1>4. Sending(isBlocked, timer)
  BY <1>2, <1>3 DEF Sending
<1>5. PICK b \in Nat, n \in 1 .. MaxQueue :
           /\ Excess(Added) \in {0, 1} /\ b = a + Excess(Added)
           /\ n = l + 1 - Excess(Added) /\ b + n = a + l + 1
           /\ Kept = Run(b, n) /\ Len(Kept) = n
           /\ armed' \in BOOLEAN /\ (Flushing' \/ armed')
           /\ IsRequest(request', b, a + l + 1)
           /\ \/ request' = request
              \/ ~Flushing /\ \E k \in 1 .. n :
                    request' = [at |-> "travelling", batch |-> Run(b, k)]
  BY <1>1, <1>4, Recording
<1>6. n \in Nat /\ n > 0 /\ n <= MaxQueue
  BY ClientBounds
<1>7. counts.recorded = a + l /\ counts.recorded \in Nat /\ counts.recorded + 1 \in Events
  BY <1>1, <1>2, ClientBounds DEF QueueIs, Events
<1>8. /\ counts' \in [{"recorded", "sent", "rejected", "dropped"} -> Nat]
      /\ counts'.recorded = counts.recorded + 1
  <2>1. PICK x \in Nat : x = Excess(Added)
    BY <1>5
  <2>2. PICK y \in Nat : y = counts.recorded + 1
    BY <1>7
  <2>3. PICK z \in Nat : z = counts.dropped + x
    BY DEF Shape
  <2>4. counts' = [counts EXCEPT !.recorded = y, !.dropped = z]
    BY <1>2, <2>1, <2>2, <2>3
  <2>5. QED BY <2>2, <2>4 DEF Shape
<1>9. /\ counts'.recorded = b + n /\ counts'.recorded = a + l + 1
      /\ counts'.recorded <= MaxEvents /\ counts.recorded <= counts'.recorded
  BY <1>2, <1>5, <1>6, <1>7, <1>8, ClientBounds
<1>10. /\ status' \in [Events -> {"unrecorded", "queued", "sent", "rejected"}]
       /\ \A e \in Events : status'[e] = "unrecorded" <=> e > counts'.recorded
  <2>1. \A e \in Events : e \in Nat
    BY ClientBounds DEF Events
  <2>2. status' \in [Events -> {"unrecorded", "queued", "sent", "rejected"}]
    BY <1>2, <1>7 DEF Shape
  <2>3. \A e \in Events : status[e] = "unrecorded" <=> e > counts.recorded
    BY DEF Shape
  <2>4. ASSUME NEW e \in Events PROVE status'[e] = "unrecorded" <=> e > counts'.recorded
    <3>1. CASE e = counts.recorded + 1
      BY <1>2, <1>7, <1>8, <3>1 DEF Shape
    <3>2. CASE e # counts.recorded + 1
      <4>1. status'[e] = status[e]
        BY <1>2, <3>2 DEF Shape
      <4>2. e > counts.recorded <=> e > counts'.recorded
        BY <1>7, <1>8, <2>1, <3>2
      <4>3. QED BY <2>3, <4>1, <4>2
    <3>3. QED BY <3>1, <3>2
  <2>5. QED BY <2>2, <2>4
<1>11. IsRequest(request', b, counts'.recorded)
  BY <1>5, <1>9
<1>12. Shape' /\ QueueIs(b, n)'
  <2>1. queue' = Run(b, n)
    BY <1>2, <1>5
  <2>2. /\ blocked' \in BOOLEAN /\ hidden' \in BOOLEAN /\ failures' \in 0 .. MaxFailures
        /\ stored' \in Seq(Events) /\ armed' \in BOOLEAN
        /\ \A c \in strays' : c \in strays \/ IsBatch(c, counts'.recorded)
    BY <1>2, <1>5 DEF Shape
  <2>3. QED BY <1>1, <1>6, <1>8, <1>9, <1>10, <1>11, <2>1, <2>2, ShapeMoved
<1>13. QED BY <1>1, <1>5, <1>6, <1>12

\* An accepted answer cuts the batch's length off the queue, which may have
\* become shorter than the batch meanwhile.
LEMMA AnsweredStep ==
  ASSUME Shape, Answered
  PROVE  /\ Shape'
         /\ \E a, l, b, n, c \in Nat, m \in 1 .. MaxBatch :
              /\ QueueIs(a, l) /\ QueueIs(b, n)' /\ b + n = a + l
              /\ request.batch = Run(c, m) /\ c <= a /\ c + m <= a + l
              /\ a <= b /\ b <= a + m /\ (n = 0 \/ b = a + m)
<1>1. PICK a \in Nat, l \in Nat : QueueIs(a, l)
  BY QueueFacts
<1>2. counts.recorded = a + l /\ Left = a /\ queue = Run(a, l) /\ l <= MaxQueue
      /\ counts.recorded \in 0 .. MaxEvents
  BY <1>1 DEF QueueIs
<1>3. PICK c \in Nat, m \in 1 .. MaxBatch :
           c <= a /\ c + m <= a + l /\ request.batch = Run(c, m)
  <2>1. request.at = "accepted" /\ IsRequest(request, Left, counts.recorded)
    BY DEF Answered, Shape
  <2>2. QED BY <1>2, <2>1 DEF IsRequest
<1>4. m \in Nat /\ m > 0 /\ Len(request.batch) = m /\ ToSet(request.batch) = (c + 1) .. (c + m)
  <2>1. m \in Nat /\ m > 0
    BY ClientBounds
  <2>2. QED BY <1>3, <2>1, RunFacts
<1>5. PICK b \in Nat, n \in Nat :
           /\ queue' = Run(b, n) /\ b + n = a + l /\ a <= b /\ b <= a + m
           /\ n = 0 \/ b = a + m
  <2>1. queue' = DropFirst(Run(a, l), m)
    BY <1>2, <1>4 DEF Answered
  <2>2. CASE m <= l
    <3>1. queue' = Run(a + m, l - m)
      BY <1>4, <2>1, <2>2, CutsOfRun
    <3>2. a + m \in Nat /\ l - m \in Nat /\ (a + m) + (l - m) = a + l
          /\ a <= a + m /\ a + m <= a + m
      BY <1>4, <2>2
    <3>3. QED BY <3>1, <3>2
  <2>3. CASE m > l
    <3>1. queue' = <<>>
      BY <1>4, <2>1, <2>3, CutsOfRun
    <3>2. PICK o \in Nat : o = a + l
      OBVIOUS
    <3>3. Run(o, 0) = <<>>
      <4>1. Run(o, 0) \in Seq(Nat) /\ Len(Run(o, 0)) = 0
        BY RunFacts
      <4>2. QED BY <4>1
    <3>4. o + 0 = a + l /\ a <= o /\ o <= a + m
      BY <1>4, <2>3, <3>2
    <3>5. QED BY <3>1, <3>3, <3>4
  <2>4. QED BY <1>4, <2>2, <2>3
<1>6. /\ counts' = [counts EXCEPT
           !.sent = @ + Cardinality({e \in ToSet(request.batch) : e \notin Refused}),
           !.rejected = @ + Cardinality(ToSet(request.batch)
                                        \ {e \in ToSet(request.batch) : e \notin Refused})]
      /\ UNCHANGED <<blocked, strays, stored, hidden, failures>> /\ request' = NoRequest
      /\ armed' = (armed \/ queue' # <<>>)
  BY DEF Answered, serverVars
<1>7. \A S \in SUBSET ToSet(request.batch) : IsFiniteSet(S) /\ Cardinality(S) \in Nat
  <2>1. IsFiniteSet(ToSet(request.batch))
    BY <1>4, FS_Interval
  <2>2. QED BY <2>1, FS_Subset, FS_CardinalityType
<1>8. /\ counts' \in [{"recorded", "sent", "rejected", "dropped"} -> Nat]
      /\ counts'.recorded = counts.recorded
  <2>1. PICK g \in Nat, h \in Nat :
           counts' = [counts EXCEPT !.sent = @ + g, !.rejected = @ + h]
    BY <1>6, <1>7
  <2>2. PICK y \in Nat, z \in Nat : y = counts.sent + g /\ z = counts.rejected + h
    BY DEF Shape
  <2>3. counts' = [counts EXCEPT !.sent = y, !.rejected = z]
    BY <2>1, <2>2
  <2>4. QED BY <2>3 DEF Shape
<1>9. /\ status' \in [Events -> {"unrecorded", "queued", "sent", "rejected"}]
      /\ \A e \in Events : status'[e] = "unrecorded" <=> e > counts'.recorded
  <2>1. \A e \in Events : e \in Nat
    BY ClientBounds DEF Events
  <2>2. \A e \in ToSet(request.batch) : ~(e > counts.recorded)
    BY <1>2, <1>3, <1>4
  <2>3. \A e \in Events :
          /\ e \in ToSet(request.batch) => status'[e] \in {"sent", "rejected"}
          /\ e \notin ToSet(request.batch) => status'[e] = status[e]
    BY DEF Answered
  <2>4. status' \in [Events -> {"unrecorded", "queued", "sent", "rejected"}]
    BY DEF Answered, Shape
  <2>5. \A e \in Events : status[e] = "unrecorded" <=> e > counts.recorded
    BY DEF Shape
  <2>6. QED BY <1>8, <2>2, <2>3, <2>4, <2>5
<1>10. Shape' /\ QueueIs(b, n)'
  <2>1. n <= MaxQueue /\ counts'.recorded = b + n /\ counts'.recorded <= MaxEvents
        /\ counts.recorded <= counts'.recorded
    BY <1>2, <1>5, <1>8, ClientBounds
  <2>2. IsRequest(request', b, counts'.recorded)
    BY <1>6 DEF IsRequest, NoRequest
  <2>3. /\ blocked' \in BOOLEAN /\ hidden' \in BOOLEAN /\ failures' \in 0 .. MaxFailures
        /\ stored' \in Seq(Events)
        /\ \A x \in strays' : x \in strays \/ IsBatch(x, counts'.recorded)
    BY <1>6 DEF Shape
  <2>4. armed' \in BOOLEAN
    BY <1>6
  <2>5. QED BY <1>1, <1>5, <1>8, <1>9, <2>1, <2>2, <2>3, <2>4, ShapeMoved
<1>11. QED BY <1>1, <1>3, <1>5, <1>10

\* A piece of a run, as the request for k events is cut into beacons.
LEMMA BeaconIsBatch ==
  ASSUME NEW b \in Nat, NEW k \in Nat, NEW n \in Nat, b + k <= n, NEW i \in 1 .. k
  PROVE  IsBatch(SubSeq(Run(b, k), i, IF i + MaxBatch - 1 < k THEN i + MaxBatch - 1 ELSE k), n)
<1>1. PICK j \in Nat : j = IF i + MaxBatch - 1 < k THEN i + MaxBatch - 1 ELSE k
  BY ClientBounds
<1>2. j \in (i - 1) .. k /\ i \in 1 .. k + 1 /\ j >= i /\ j - i + 1 <= MaxBatch
  BY <1>1, ClientBounds
<1>3. PICK c \in Nat, m \in Nat : c = b + i - 1 /\ m = j - i + 1
  BY <1>2
<1>4. SubSeq(Run(b, k), i, j) = Run(c, m)
  BY <1>2, <1>3, PieceOfRun
<1>5. m \in 1 .. MaxBatch /\ c + m <= n
  BY <1>2, <1>3, ClientBounds
<1>6. IsBatch(SubSeq(Run(b, k), i, j), n)
  BY <1>4, <1>5 DEF IsBatch
<1>7. QED BY <1>1, <1>6

\* Beacons cut the queue at the front.
LEMMA PageHideStep ==
  ASSUME Shape, PageHide
  PROVE  /\ Shape' /\ hidden' = TRUE /\ stored' = stored
         /\ queue' # <<>> => Flushing' \/ armed'
         /\ request' = request \/ request'.at = "travelling"
<1>1. PICK a \in Nat, l \in Nat : QueueIs(a, l)
  BY QueueFacts
<1>2. PICK k \in 0 .. Len(Kept) :
      /\ counts.recorded < MaxEvents
      /\ \/ Len(Kept) >= MaxBatch /\ Flush(Kept, blocked, armed)
         \/ Len(Kept) < MaxBatch /\ armed' = TRUE /\ UNCHANGED request
      /\ queue' = DropFirst(Kept, k)
      /\ strays' = strays \cup
           {SubSeq(SubSeq(Kept, 1, k), i, IF i + MaxBatch - 1 < k THEN i + MaxBatch - 1 ELSE k) :
              i \in {j \in 1..k : (j - 1) % MaxBatch = 0}}
      /\ status' = [x \in Events |-> IF x \in ToSet(SubSeq(Kept, 1, k)) THEN "sent"
                                     ELSE IF x = counts.recorded + 1 THEN "queued"
                                     ELSE status[x]]
      /\ counts' = [counts EXCEPT !.recorded = counts.recorded + 1,
                                  !.dropped = @ + Excess(Added), !.sent = @ + k]
      /\ hidden' = TRUE
      /\ UNCHANGED <<blocked, stored, failures>>
  BY DEF PageHide, Added, Excess, Kept
<1>3. PICK isBlocked \in BOOLEAN, timer \in BOOLEAN : isBlocked = blocked /\ timer = armed
  BY DEF Shape
<1>4. Sending(isBlocked, timer)
  BY <1>2, <1>3 DEF Sending
<1>5. PICK b \in Nat, n \in 1 .. MaxQueue :
           /\ Excess(Added) \in {0, 1} /\ b = a + Excess(Added)
           /\ n = l + 1 - Excess(Added) /\ b + n = a + l + 1
           /\ Kept = Run(b, n) /\ Len(Kept) = n
           /\ armed' \in BOOLEAN /\ (Flushing' \/ armed')
           /\ IsRequest(request', b, a + l + 1)
           /\ \/ request' = request
              \/ ~Flushing /\ \E j \in 1 .. n :
                    request' = [at |-> "travelling", batch |-> Run(b, j)]
  BY <1>1, <1>4, Recording
<1>6. n \in Nat /\ n <= MaxQueue /\ k \in 0 .. n /\ k \in Nat
  BY <1>5, ClientBounds
<1>7. counts.recorded = a + l /\ counts.recorded \in Nat
  BY <1>1, <1>2 DEF QueueIs
<1>8. PICK c \in Nat, o \in Nat : c = b + k /\ o = n - k /\ queue' = Run(c, o)
  <2>1. queue' = Run(b + k, n - k)
    BY <1>2, <1>5, <1>6, CutsOfRun
  <2>2. b + k \in Nat /\ n - k \in Nat
    BY <1>6
  <2>3. QED BY <2>1, <2>2
<1>9. PICK m \in Nat : m = a + l + 1 /\ m = counts.recorded + 1
  BY <1>7
<1>10. c + o = m /\ b <= c /\ o <= MaxQueue /\ m <= MaxEvents /\ b + k <= m /\ b + n = m
  <2>1. counts.recorded < MaxEvents /\ b + n = a + l + 1
    BY <1>2, <1>5
  <2>2. QED BY <1>6, <1>7, <1>8, <1>9, <2>1, ClientBounds
<1>11. /\ counts' \in [{"recorded", "sent", "rejected", "dropped"} -> Nat]
       /\ counts'.recorded = m
  <2>1. PICK x \in Nat : x = Excess(Added)
    BY <1>5
  <2>2. PICK y \in Nat, z \in Nat : y = counts.dropped + x /\ z = counts.sent + k
    BY <1>6 DEF Shape
  <2>3. counts' = [counts EXCEPT !.recorded = m, !.dropped = y, !.sent = z]
    BY <1>2, <1>9, <2>1, <2>2
  <2>4. QED BY <2>3 DEF Shape
<1>12. SubSeq(Kept, 1, k) = Run(b, k)
  <2>1. 1 \in 1 .. n + 1 /\ k \in (1 - 1) .. n
    BY <1>6
  <2>2. SubSeq(Run(b, n), 1, k) = Run(b + 1 - 1, k - 1 + 1)
    BY <1>6, <2>1, PieceOfRun
  <2>3. b + 1 - 1 = b /\ k - 1 + 1 = k
    BY <1>6
  <2>4. QED BY <1>5, <2>2, <2>3
<1>13. /\ status' \in [Events -> {"unrecorded", "queued", "sent", "rejected"}]
       /\ \A e \in Events : status'[e] = "unrecorded" <=> e > m
  <2>1. \A e \in Events : e \in Nat
    BY ClientBounds DEF Events
  <2>2. ToSet(SubSeq(Kept, 1, k)) = (b + 1) .. (b + k)
    BY <1>6, <1>12, RunFacts
  <2>3. \A e \in ToSet(SubSeq(Kept, 1, k)) : ~(e > m)
    BY <1>6, <1>10, <2>2
  <2>4. status' \in [Events -> {"unrecorded", "queued", "sent", "rejected"}]
    BY <1>2 DEF Shape
  <2>5. \A e \in Events : status[e] = "unrecorded" <=> e > counts.recorded
    BY DEF Shape
  <2>6. ASSUME NEW e \in Events PROVE status'[e] = "unrecorded" <=> e > m
    <3>1. CASE e \in ToSet(SubSeq(Kept, 1, k))
      BY <1>2, <2>3, <3>1
    <3>2. CASE e \notin ToSet(SubSeq(Kept, 1, k)) /\ e = counts.recorded + 1
      <4>1. status'[e] = "queued"
        BY <1>2, <3>2
      <4>2. ~(e > m)
        BY <1>9, <3>2
      <4>3. QED BY <4>1, <4>2
    <3>3. CASE e \notin ToSet(SubSeq(Kept, 1, k)) /\ e # counts.recorded + 1
      <4>1. status'[e] = status[e]
        BY <1>2, <3>3
      <4>2. e > counts.recorded <=> e > m
        BY <1>7, <1>9, <2>1, <3>3
      <4>3. QED BY <2>5, <4>1, <4>2
    <3>4. QED BY <3>1, <3>2, <3>3
  <2>7. QED BY <2>4, <2>6
<1>14. IsRequest(request', c, m)
  <2>1. IsRequest(request', b, m)
    BY <1>5, <1>9
  <2>2. QED BY <1>10, <2>1, RequestStays
<1>15. \A s \in strays' : s \in strays \/ IsBatch(s, m)
  <2> TAKE s \in strays'
  <2>1. CASE s \notin strays
    <3>1. PICK i \in 1 .. k :
             s = SubSeq(SubSeq(Kept, 1, k), i, IF i + MaxBatch - 1 < k THEN i + MaxBatch - 1 ELSE k)
      BY <1>2, <2>1
    <3>2. s = SubSeq(Run(b, k), i, IF i + MaxBatch - 1 < k THEN i + MaxBatch - 1 ELSE k)
      BY <1>12, <3>1
    <3>3. IsBatch(SubSeq(Run(b, k), i, IF i + MaxBatch - 1 < k THEN i + MaxBatch - 1 ELSE k), m)
      BY <1>6, <1>10, BeaconIsBatch
    <3>4. QED BY <3>2, <3>3
  <2>2. QED BY <2>1
<1>16. Shape'
  <2>1. counts'.recorded = c + o /\ counts'.recorded <= MaxEvents
        /\ counts.recorded <= counts'.recorded
    BY <1>7, <1>9, <1>10, <1>11
  <2>2. /\ blocked' \in BOOLEAN /\ hidden' \in BOOLEAN /\ failures' \in 0 .. MaxFailures
        /\ stored' \in Seq(Events) /\ armed' \in BOOLEAN
    BY <1>2, <1>5 DEF Shape
  <2>3. /\ IsRequest(request', c, counts'.recorded)
        /\ \A s \in strays' : s \in strays \/ IsBatch(s, counts'.recorded)
        /\ \A e \in Events : status'[e] = "unrecorded" <=> e > counts'.recorded
    BY <1>11, <1>13, <1>14, <1>15
  <2>4. QED BY <1>1, <1>8, <1>10, <1>11, <1>13, <2>1, <2>2, <2>3, ShapeMoved
<1>17. QED BY <1>2, <1>5, <1>16

\* Every step keeps the shape.
LEMMA ShapeNext == Shape /\ [Next]_vars => Shape'
<1> SUFFICES ASSUME Shape, [Next]_vars PROVE Shape'
  OBVIOUS
<1>1. CASE Record
  BY <1>1, RecordStep
<1>2. CASE PageHide
  BY <1>2, PageHideStep
<1>3. CASE Answered
  BY <1>3, AnsweredStep
<1>4. CASE Timer \/ RetryNow \/ Unblock \/ RefusalSeen \/ NetworkError \/ Ingest \/ Refuse
           \/ \E b \in strays : StrayEnds(b)
  BY <1>4, ShapeQuietSteps
<1>5. CASE UNCHANGED vars
  BY <1>5 DEF vars, serverVars, Shape, QueueIsRun, Left, Events
<1>6. QED BY <1>1, <1>2, <1>3, <1>4, <1>5 DEF Next, Client, Network
-----------------------------------------------------------------------------
(* The log, and what the client takes as sent *)

\* A step leaves the log alone or stores the batch of the awaited request or
\* of a stray one.
LEMMA LogMoves ==
  ASSUME Shape, [Next]_vars
  PROVE  \/ stored' = stored
         \/ \E a \in Nat, l \in 1 .. MaxBatch :
              /\ a + l <= counts.recorded /\ Store(Run(a, l))
              /\ Run(a, l) \in strays \/ (request.batch = Run(a, l) /\ a <= Left /\ Ingest)
<1>1. CASE Ingest
  <2>1. IsRequest(request, Left, counts.recorded) /\ request.at = "travelling"
    BY <1>1 DEF Shape, Ingest
  <2>2. PICK a \in Nat, l \in 1 .. MaxBatch :
           a <= Left /\ a + l <= counts.recorded /\ request.batch = Run(a, l)
    BY <2>1 DEF IsRequest
  <2>3. Store(Run(a, l))
    BY <1>1, <2>2 DEF Ingest
  <2>4. QED BY <1>1, <2>2, <2>3
<1>2. CASE \E b \in strays : StrayEnds(b)
  <2>1. PICK b \in strays : StrayEnds(b)
    BY <1>2
  <2>2. PICK a \in Nat, l \in 1 .. MaxBatch : a + l <= counts.recorded /\ b = Run(a, l)
    BY DEF Shape, IsBatch
  <2>3. stored' = stored \/ Store(Run(a, l))
    BY <2>1, <2>2 DEF StrayEnds
  <2>4. QED BY <2>2, <2>3
<1>3. CASE UNCHANGED stored
  BY <1>3
<1>4. QED
  BY <1>1, <1>2, <1>3
  DEF Next, Client, Network, Record, RetryNow, PageHide, Timer, Unblock, Answered,
      RefusalSeen, NetworkError, Refuse, vars, serverVars

LEMMA StoreGrows ==
  ASSUME Shape, [Next]_vars
  PROVE  /\ StoredOnce => StoredOnce'
         /\ ToSet(stored) \subseteq ToSet(stored')
         /\ \A e : Contains(stored, e) => Contains(stored', e)
<1>1. CASE stored' = stored
  BY <1>1 DEF StoredOnce
<1>2. CASE \E a \in Nat, l \in 1 .. MaxBatch : a + l <= counts.recorded /\ Store(Run(a, l))
  <2>1. PICK a \in Nat, l \in 1 .. MaxBatch : a + l <= counts.recorded /\ Store(Run(a, l))
    BY <1>2
  <2>2. /\ stored' \in Seq(Events) /\ ToSet(stored) \subseteq ToSet(stored')
        /\ StoredOnce => StoredOnce'
    BY <2>1, StoreFacts
  <2>3. stored \in Seq(Events)
    BY DEF Shape
  <2>4. QED BY <2>2, <2>3, ContainsFacts
<1>3. QED BY <1>1, <1>2, LogMoves

\* How the awaited request moves.
LEMMA RequestMoves ==
  ASSUME Shape, [Next]_vars, request'.at = "accepted"
  PROVE  request' = request
         \/ (Ingest /\ request'.batch = request.batch /\ request.at = "travelling")
<1>1. PICK a \in Nat, l \in Nat : QueueIs(a, l)
  BY QueueFacts
<1>2. queue = Run(a, l) /\ blocked \in BOOLEAN /\ armed \in BOOLEAN
  BY <1>1 DEF QueueIs, Shape
<1>3. ASSUME NEW isBlocked \in BOOLEAN, NEW timer \in BOOLEAN, Flush(queue, isBlocked, timer)
      PROVE  request' = request
  BY <1>2, <1>3, FlushFacts
<1>4. CASE Record
  <2>1. request' = request \/ \E r : request' = [at |-> "travelling", batch |-> r]
    BY <1>4, RecordStep
  <2>2. QED BY <2>1
<1>5. CASE PageHide
  BY <1>5, PageHideStep
<1>6. CASE Timer
  BY <1>2, <1>3, <1>6 DEF Timer
<1>7. CASE RetryNow
  BY <1>2, <1>3, <1>7 DEF RetryNow
<1>8. CASE Answered \/ RefusalSeen \/ NetworkError \/ Refuse
  BY <1>8 DEF Answered, RefusalSeen, NetworkError, Refuse, BackOff, NoRequest, Shape, IsRequest
<1>9. CASE Ingest
  BY <1>9 DEF Ingest, Shape, IsRequest
<1>10. CASE UNCHANGED request
  BY <1>10
<1>11. QED
  BY <1>4, <1>5, <1>6, <1>7, <1>8, <1>9, <1>10
  DEF Next, Client, Network, Unblock, StrayEnds, vars

\* What the server accepted is in the log when the answer comes.
LEMMA AcceptedNext ==
  ASSUME Shape, AcceptedIsStored, [Next]_vars
  PROVE  AcceptedIsStored'
<1> SUFFICES ASSUME request'.at = "accepted", NEW e \in ToSet(request'.batch) \ Refused
             PROVE  Contains(stored', e)
  BY DEF AcceptedIsStored
<1>1. CASE request' = request
  BY <1>1, StoreGrows DEF AcceptedIsStored
<1>2. CASE Ingest /\ request'.batch = request.batch /\ request.at = "travelling"
  <2>1. PICK a \in Nat, l \in 1 .. MaxBatch :
           a + l <= counts.recorded /\ request.batch = Run(a, l)
    BY <1>2 DEF Shape, IsRequest
  <2>2. stored' \in Seq(Events)
        /\ ToSet(stored') = ToSet(stored) \cup (((a + 1) .. (a + l)) \ Refused)
    BY <1>2, <2>1, StoreFacts DEF Ingest
  <2>3. e \in (a + 1) .. (a + l)
    <3>1. l \in Nat
      BY ClientBounds
    <3>2. ToSet(Run(a, l)) = (a + 1) .. (a + l)
      BY <3>1, RunFacts
    <3>3. QED BY <1>2, <2>1, <3>2
  <2>4. QED BY <2>2, <2>3, ContainsFacts
<1>3. QED BY <1>1, <1>2, RequestMoves

\* An event is shown as sent by an answer, by beacons, or was so before.
LEMMA SentNext ==
  ASSUME Shape, AcceptedIsStored, SentMeansStored, [Next]_vars
  PROVE  SentMeansStored'
<1> SUFFICES ASSUME ~hidden', NEW e \in Events, status'[e] = "sent"
             PROVE  Contains(stored', e)
  BY DEF SentMeansStored, Events
<1>1. ~hidden
  BY DEF Next, Client, Network, Record, RetryNow, PageHide, Timer, Unblock, Answered,
         RefusalSeen, NetworkError, Ingest, Refuse, StrayEnds, vars
<1>2. CASE status[e] = "sent"
  BY <1>1, <1>2, StoreGrows DEF SentMeansStored
<1>3. CASE Record
  BY <1>2, <1>3 DEF Record, Shape
<1>4. CASE Answered
  <2>1. status[e] = "sent" \/ e \in ToSet(request.batch) \ Refused
    BY <1>4 DEF Answered
  <2>2. Contains(stored, e) \/ status[e] = "sent"
    BY <1>4, <2>1 DEF Answered, AcceptedIsStored
  <2>3. QED BY <1>2, <2>2, StoreGrows
<1>5. CASE PageHide
  BY <1>5 DEF PageHide
<1>6. CASE UNCHANGED status
  BY <1>2, <1>6
<1>7. QED
  BY <1>3, <1>4, <1>5, <1>6
  DEF Next, Client, Network, RetryNow, Timer, Unblock, RefusalSeen, NetworkError, BackOff,
      Ingest, Refuse, StrayEnds, vars

\* Whatever leaves events in the queue leaves a request awaited or a timer
\* armed.
LEMMA StrandedNext ==
  ASSUME Shape, NeverStranded, [Next]_vars
  PROVE  NeverStranded'
<1>1. PICK a \in Nat, l \in Nat : QueueIs(a, l)
  BY QueueFacts
<1>2. queue = Run(a, l) /\ blocked \in BOOLEAN /\ armed \in BOOLEAN /\ (queue # <<>> => l > 0)
  BY <1>1 DEF QueueIs, Shape
<1>3. ASSUME NEW isBlocked \in BOOLEAN, NEW timer \in BOOLEAN, Flush(queue, isBlocked, timer)
      PROVE  queue # <<>> => Flushing' \/ armed'
  BY <1>2, <1>3, FlushFacts
<1>4. CASE Record
  BY <1>4, RecordStep DEF NeverStranded
<1>5. CASE PageHide
  BY <1>5, PageHideStep DEF NeverStranded
<1>6. CASE Timer
  BY <1>2, <1>3, <1>6 DEF Timer, NeverStranded
<1>7. CASE RetryNow
  BY <1>2, <1>3, <1>7 DEF RetryNow, NeverStranded
<1>8. CASE Answered
  BY <1>8 DEF Answered, NeverStranded
<1>9. CASE RefusalSeen \/ NetworkError
  BY <1>9 DEF RefusalSeen, NetworkError, BackOff, NeverStranded
<1>10. CASE Ingest \/ Refuse
  BY <1>10 DEF Ingest, Refuse, Flushing, NeverStranded, Shape, IsRequest
<1>11. CASE UNCHANGED <<queue, request, armed>>
  BY <1>11 DEF NeverStranded, Flushing
<1>12. QED
  BY <1>4, <1>5, <1>6, <1>7, <1>8, <1>9, <1>10, <1>11
  DEF Next, Client, Network, Unblock, StrayEnds, vars
-----------------------------------------------------------------------------
(* The order of the log *)

\* A page stays hidden, and what was dropped stays dropped.
LEMMA GuardsStay ==
  ASSUME Shape, [Next]_vars
  PROVE  /\ hidden => hidden'
         /\ ~hidden' /\ counts'.dropped = 0 => counts.dropped = 0
         /\ ~hidden' => ~PageHide
<1> DEFINE Stay == /\ hidden => hidden'
                   /\ counts'.dropped = 0 => counts.dropped = 0
<1>1. counts.dropped \in Nat
  BY DEF Shape
<1>2. ASSUME Record PROVE Stay
  <2>1. PICK x \in Nat : x = Excess(Added)
    BY <1>2, RecordStep
  <2>2. counts'.dropped = counts.dropped + x
    BY <1>2, <2>1 DEF Record, Added, Excess, Shape
  <2>3. QED BY <1>1, <1>2, <2>2 DEF Record
<1>3. ~hidden' => ~PageHide
  BY DEF PageHide
<1>4. ASSUME Answered PROVE Stay
  BY <1>4 DEF Answered, Shape
<1>5. ASSUME UNCHANGED counts, UNCHANGED hidden PROVE Stay
  BY <1>5
<1>6. ASSUME RetryNow \/ Timer \/ Unblock \/ RefusalSeen \/ NetworkError \/ Ingest \/ Refuse
             \/ (\E b \in strays : StrayEnds(b)) \/ UNCHANGED vars
      PROVE  Stay
  BY <1>5, <1>6 DEF RetryNow, Timer, Unblock, RefusalSeen, NetworkError, BackOff,
      Ingest, Refuse, StrayEnds, vars
<1>7. Stay \/ PageHide
  BY <1>2, <1>4, <1>6 DEF Next, Client, Network
<1>8. PageHide => hidden' = TRUE
  BY DEF PageHide
<1>9. QED BY <1>3, <1>7, <1>8

\* A batch that starts where the log ends, or earlier, makes it no less a
\* prefix.
LEMMA PrefixGrows ==
  ASSUME NEW m \in Nat, NEW c \in Nat, NEW k \in Nat, c <= m
  PROVE  \E o \in Nat : /\ m <= o /\ c + k <= o /\ (o = m \/ o = c + k)
                        /\ ((1 .. m) \ Refused) \cup (((c + 1) .. (c + k)) \ Refused)
                             = (1 .. o) \ Refused
<1>1. PICK o \in Nat : m <= o /\ c + k <= o /\ (o = m \/ o = c + k)
  <2>1. CASE c + k <= m
    BY <2>1
  <2>2. CASE c + k > m
    <3>1. c + k \in Nat /\ m <= c + k /\ c + k <= c + k
      BY <2>2
    <3>2. QED BY <3>1
  <2>3. QED BY <2>1, <2>2
<1>2. (1 .. m) \cup ((c + 1) .. (c + k)) = 1 .. o
  BY <1>1
<1>3. QED BY <1>1, <1>2

\* The order is kept by every step.
LEMMA InOrderNext ==
  ASSUME Shape, AcceptedIsStored, InOrder, [Next]_vars
  PROVE  InOrder'
<1> SUFFICES ASSUME ~hidden', counts'.dropped = 0
             PROVE  /\ \E o \in 0 .. counts'.recorded : LogIsPrefix(o)'
                    /\ Flushing' => request'.batch[1] = Left' + 1
                    /\ \A i, j \in DOMAIN stored' : i < j => stored'[i] < stored'[j]
  BY DEF InOrder, LogIsPrefix
<1>1. ~hidden /\ counts.dropped = 0 /\ ~PageHide
  BY GuardsStay
<1>2. PICK m \in 0 .. counts.recorded : LogIsPrefix(m)
  BY <1>1 DEF InOrder
<1>3. /\ Flushing => request.batch[1] = Left + 1
      /\ \A i, j \in DOMAIN stored : i < j => stored[i] < stored[j]
  BY <1>1 DEF InOrder
<1>4. PICK a \in Nat, l \in Nat : QueueIs(a, l)
  BY QueueFacts
<1>5. /\ queue = Run(a, l) /\ Left = a /\ counts.recorded = a + l /\ a <= m /\ m \in Nat
      /\ m <= a + l /\ counts.recorded \in Nat
  BY <1>2, <1>4 DEF QueueIs, LogIsPrefix
<1>6. /\ ToSet(stored) = (1 .. m) \ Refused /\ stored \in Seq(Events)
      /\ \A b \in strays : b[1] <= m + 1
  BY <1>2 DEF LogIsPrefix, Shape
<1>7. ASSUME Left' = Left, stored' = stored, counts'.recorded \in Nat,
             counts.recorded <= counts'.recorded,
             \A b \in strays' : b \in strays \/ (Flushing /\ b = request.batch),
             Flushing' => request'.batch[1] = Left + 1
      PROVE  /\ \E o \in 0 .. counts'.recorded : LogIsPrefix(o)'
             /\ Flushing' => request'.batch[1] = Left' + 1
             /\ \A i, j \in DOMAIN stored' : i < j => stored'[i] < stored'[j]
  <2>1. m \in 0 .. counts'.recorded
    BY <1>5, <1>7
  <2>2. \A b \in strays' : b[1] <= m + 1
    BY <1>3, <1>5, <1>6, <1>7
  <2>3. ToSet(stored') = (1 .. m) \ Refused /\ Left' <= m
    BY <1>5, <1>6, <1>7
  <2>4. LogIsPrefix(m)'
    BY <2>2, <2>3 DEF LogIsPrefix
  <2>5. QED BY <1>3, <1>7, <2>1, <2>4
<1>8. ASSUME NEW isBlocked \in BOOLEAN, NEW timer \in BOOLEAN, Flush(queue, isBlocked, timer)
      PROVE  Flushing' => request'.batch[1] = Left + 1
  <2>1. CASE request' = request
    BY <1>3, <2>1 DEF Flushing
  <2>2. CASE \E k \in 1 .. l : request' = [at |-> "travelling", batch |-> Run(a, k)]
    BY <1>5, <2>2 DEF Run
  <2>3. QED BY <1>5, <1>8, <2>1, <2>2, FlushFacts
<1>9. blocked \in BOOLEAN /\ armed \in BOOLEAN
  BY DEF Shape
<1>10. CASE Record
  <2>1. PICK d, e, b, n \in Nat :
              /\ QueueIs(d, e) /\ QueueIs(b, n)' /\ Excess(Added) \in {0, 1}
              /\ b = d + Excess(Added) /\ b + n = d + e + 1 /\ n > 0
              /\ Flushing' \/ armed'
              /\ \/ request' = request
                 \/ ~Flushing /\ \E k \in 1 .. n :
                       request' = [at |-> "travelling", batch |-> Run(b, k)]
    BY <1>10, RecordStep
  <2>2. PICK x \in {0, 1} : x = Excess(Added)
    BY <2>1
  <2>3. counts'.dropped = counts.dropped + x
    BY <1>10, <2>2 DEF Record, Added, Excess, Shape
  <2>4. x = 0
    BY <1>1, <2>3
  <2>5. d = a /\ Left' = b /\ counts'.recorded = b + n /\ e = l
    BY <1>4, <2>1 DEF QueueIs
  <2>6. b = a
    BY <2>1, <2>2, <2>4, <2>5
  <2>7. Left' = Left /\ counts'.recorded \in Nat /\ counts.recorded <= counts'.recorded
    BY <1>5, <2>1, <2>5, <2>6
  <2>8. Flushing' => request'.batch[1] = Left + 1
    <3>1. CASE request' = request
      BY <1>3, <3>1 DEF Flushing
    <3>2. CASE \E k \in 1 .. n : request' = [at |-> "travelling", batch |-> Run(b, k)]
      BY <1>5, <2>6, <3>2 DEF Run
    <3>3. QED BY <2>1, <3>1, <3>2
  <2>9. stored' = stored /\ strays' = strays
    BY <1>10 DEF Record, serverVars
  <2>10. QED BY <1>7, <2>7, <2>8, <2>9
<1>11. CASE UNCHANGED <<queue, counts, stored>>
             /\ (\A b \in strays' : b \in strays \/ (Flushing /\ b = request.batch))
             /\ (Flushing' => request'.batch[1] = Left + 1)
  BY <1>5, <1>7, <1>11 DEF Left
<1>12. CASE Timer \/ RetryNow
  BY <1>8, <1>9, <1>11, <1>12 DEF Timer, RetryNow, serverVars
<1>13. CASE RefusalSeen \/ NetworkError
  BY <1>11, <1>13 DEF RefusalSeen, NetworkError, BackOff, Flushing, NoRequest, serverVars
<1>14. CASE Refuse
  <2>1. Flushing /\ request'.batch = request.batch
    BY <1>14 DEF Refuse, Flushing, Shape, IsRequest
  <2>2. QED BY <1>3, <1>11, <1>14, <2>1 DEF Refuse, serverVars
<1>15. CASE Unblock
  BY <1>3, <1>11, <1>15 DEF Unblock, serverVars, Flushing
<1>16. CASE Answered
  <2>1. PICK d, e, b, n, c \in Nat, k \in 1 .. MaxBatch :
              /\ QueueIs(d, e) /\ QueueIs(b, n)' /\ b + n = d + e
              /\ request.batch = Run(c, k) /\ c <= d /\ c + k <= d + e
              /\ d <= b /\ b <= d + k /\ (n = 0 \/ b = d + k)
    BY <1>16, AnsweredStep
  <2>2. d = a /\ e = l /\ Left' = b /\ counts'.recorded = a + l /\ k \in Nat /\ k > 0
    BY <1>4, <2>1, ClientBounds DEF QueueIs
  <2>3. c = a
    <3>1. Flushing
      BY <1>16 DEF Answered, Flushing
    <3>2. 1 \in 1 .. k
      BY <2>2
    <3>3. Run(c, k)[1] = c + 1
      BY <2>2, <3>2, RunFacts
    <3>4. c + 1 = a + 1
      BY <1>3, <1>5, <2>1, <3>1, <3>3
    <3>5. QED BY <1>5, <2>1, <3>4
  <2>4. PICK o \in Nat : /\ m <= o /\ a + k <= o /\ (o = m \/ o = a + k)
                         /\ ((1 .. m) \ Refused) \cup (((a + 1) .. (a + k)) \ Refused)
                              = (1 .. o) \ Refused
    BY <1>5, <2>2, PrefixGrows
  <2>5. ((a + 1) .. (a + k)) \ Refused \subseteq ToSet(stored)
    <3>1. ToSet(request.batch) = (a + 1) .. (a + k)
      BY <2>1, <2>2, <2>3, RunFacts
    <3>2. QED BY <1>6, <1>16, <3>1, ContainsFacts DEF AcceptedIsStored, Answered
  <2>6. stored' = stored /\ strays' = strays /\ request' = NoRequest
    BY <1>16 DEF Answered, serverVars
  <2>7. ToSet(stored') = (1 .. o) \ Refused
    BY <1>6, <2>4, <2>5, <2>6
  <2>8. o \in 0 .. counts'.recorded /\ Left' <= o
    BY <1>5, <2>1, <2>2, <2>3, <2>4
  <2>9. \A b_1 \in strays' : b_1[1] <= o + 1
    <3>1. \A b_1 \in strays : b_1[1] \in Int
      <4> TAKE s \in strays
      <4>1. PICK u \in Nat, v \in 1 .. MaxBatch : s = Run(u, v)
        BY DEF Shape, IsBatch
      <4>2. v \in Nat /\ 1 \in 1 .. v
        BY ClientBounds
      <4>3. s[1] = u + 1
        BY <4>1, <4>2, RunFacts
      <4>4. QED BY <4>3
    <3>2. QED BY <1>5, <1>6, <2>4, <2>6, <3>1
  <2>10. LogIsPrefix(o)'
    BY <2>7, <2>8, <2>9 DEF LogIsPrefix
  <2>11. QED BY <1>3, <2>6, <2>8, <2>10 DEF Flushing, NoRequest
<1>17. ASSUME NEW c \in Nat, NEW k \in 1 .. MaxBatch, c + k <= counts.recorded, c <= m,
              Store(Run(c, k)), UNCHANGED <<queue, counts>>, strays' \subseteq strays,
              Flushing' => request'.batch[1] = Left + 1
       PROVE  /\ \E o \in 0 .. counts'.recorded : LogIsPrefix(o)'
              /\ Flushing' => request'.batch[1] = Left' + 1
              /\ \A i, j \in DOMAIN stored' : i < j => stored'[i] < stored'[j]
  <2>1. k \in Nat
    BY ClientBounds
  <2>2. PICK o \in Nat : /\ m <= o /\ c + k <= o /\ (o = m \/ o = c + k)
                         /\ ((1 .. m) \ Refused) \cup (((c + 1) .. (c + k)) \ Refused)
                              = (1 .. o) \ Refused
    BY <1>5, <1>17, <2>1, PrefixGrows
  <2>3. /\ ToSet(stored') = ToSet(stored) \cup (((c + 1) .. (c + k)) \ Refused)
        /\ (\A i, j \in DOMAIN stored : i < j => stored[i] < stored[j])
            /\ (\A d \in ToSet(stored), e \in (c + 1) .. (c + k) :
                  e \notin ToSet(stored) \cup Refused => d < e)
            => \A i, j \in DOMAIN stored' : i < j => stored'[i] < stored'[j]
    BY <1>17, StoreFacts
  <2>4. \A d \in ToSet(stored), e \in (c + 1) .. (c + k) :
           e \notin ToSet(stored) \cup Refused => d < e
    BY <1>5, <1>6, <1>17, <2>1
  <2>5. \A i, j \in DOMAIN stored' : i < j => stored'[i] < stored'[j]
    BY <1>3, <2>3, <2>4
  <2>6. ToSet(stored') = (1 .. o) \ Refused
    BY <1>6, <2>2, <2>3
  <2>7. Left' = Left /\ Left' <= o /\ o \in 0 .. counts'.recorded
    BY <1>5, <1>17, <2>1, <2>2 DEF Left
  <2>8. \A s \in strays' : s[1] <= o + 1
    <3> TAKE s \in strays'
    <3>1. PICK u \in Nat, v \in 1 .. MaxBatch : s = Run(u, v)
      BY <1>17 DEF Shape, IsBatch
    <3>2. v \in Nat /\ 1 \in 1 .. v
      BY ClientBounds
    <3>3. s[1] = u + 1
      BY <3>1, <3>2, RunFacts
    <3>4. u + 1 <= m + 1
      BY <1>6, <1>17, <3>3
    <3>5. QED BY <1>5, <2>2, <3>3, <3>4
  <2>9. LogIsPrefix(o)'
    BY <2>6, <2>7, <2>8 DEF LogIsPrefix
  <2>10. QED BY <1>17, <2>5, <2>7, <2>9
<1>18. ASSUME Ingest \/ \E b \in strays : StrayEnds(b)
       PROVE  /\ UNCHANGED <<queue, counts>> /\ strays' \subseteq strays
              /\ Flushing' => request'.batch[1] = Left + 1
  BY <1>3, <1>18 DEF Ingest, StrayEnds, Flushing, Shape, IsRequest
<1>19. CASE Ingest \/ \E b \in strays : StrayEnds(b)
  <2>1. CASE stored' = stored
    BY <1>11, <1>18, <1>19, <2>1
  <2>2. CASE \E c \in Nat, k \in 1 .. MaxBatch :
              /\ c + k <= counts.recorded /\ Store(Run(c, k))
              /\ Run(c, k) \in strays \/ (request.batch = Run(c, k) /\ c <= Left /\ Ingest)
    <3>1. PICK c \in Nat, k \in 1 .. MaxBatch :
              /\ c + k <= counts.recorded /\ Store(Run(c, k))
              /\ Run(c, k) \in strays \/ (request.batch = Run(c, k) /\ c <= Left /\ Ingest)
      BY <2>2
    <3>2. k \in Nat /\ 1 \in 1 .. k
      BY ClientBounds
    <3>3. Run(c, k)[1] = c + 1
      BY <3>2, RunFacts
    <3>4. c <= m
      BY <1>5, <1>6, <3>1, <3>3
    <3>5. QED BY <1>17, <1>18, <1>19, <3>1, <3>4
  <2>3. QED BY <2>1, <2>2, LogMoves
<1>20. CASE UNCHANGED vars
  BY <1>3, <1>11, <1>20 DEF vars, serverVars, Flushing
<1>21. QED
  BY <1>1, <1>10, <1>12, <1>13, <1>14, <1>15, <1>16, <1>19, <1>20 DEF Next, Client, Network
-----------------------------------------------------------------------------
(* Losses are counted *)

LEMMA DisjointUnion ==
  ASSUME NEW S, NEW T, IsFiniteSet(S), IsFiniteSet(T), S \cap T = {}
  PROVE  /\ IsFiniteSet(S \cup T)
         /\ Cardinality(S \cup T) = Cardinality(S) + Cardinality(T)
<1>1. /\ IsFiniteSet(S \cup T)
      /\ Cardinality(S \cup T) = Cardinality(S) + Cardinality(T) - Cardinality(S \cap T)
  BY FS_Union
<1>2. Cardinality(S \cap T) = 0
  BY FS_EmptySet
<1>3. Cardinality(S) \in Nat /\ Cardinality(T) \in Nat
  BY FS_CardinalityType
<1>4. QED BY <1>1, <1>2, <1>3

LEMMA ToldFacts ==
  ASSUME Shape
  PROVE  IsFiniteSet(Told) /\ Cardinality(Told) \in Nat
<1>1. IsFiniteSet(Events)
  BY ClientBounds, FS_Interval DEF Events
<1>2. Told \subseteq Events
  BY DEF Told
<1>3. QED BY <1>1, <1>2, FS_Subset, FS_CardinalityType

\* An answer tells the fate of each event of its batch, once.
LEMMA AnsweredCounts ==
  ASSUME Shape, ~hidden, Counted, Answered
  PROVE  /\ Cardinality(Told') = Cardinality(Told) + Len(request.batch)
         /\ counts'.sent + counts'.rejected
              = counts.sent + counts.rejected + Len(request.batch)
         /\ counts'.dropped = counts.dropped
<1> DEFINE B == ToSet(request.batch)
           good == {e \in B : e \notin Refused}
           bad == B \ good
<1>1. PICK a \in Nat, l \in Nat : QueueIs(a, l)
  BY QueueFacts
<1>2. PICK c \in Nat, k \in Nat : k > 0 /\ c + k <= counts.recorded /\ request.batch = Run(c, k)
  <2>1. PICK c \in Nat, k \in 1 .. MaxBatch :
           c + k <= counts.recorded /\ request.batch = Run(c, k)
    BY DEF Answered, Shape, IsRequest
  <2>2. k \in Nat /\ k > 0
    BY ClientBounds
  <2>3. QED BY <2>1, <2>2
<1>3. B = (c + 1) .. (c + k) /\ Len(request.batch) = k
  BY <1>2, RunFacts
<1>4. B \subseteq Events
  <2>1. counts.recorded \in 0 .. MaxEvents
    BY QueueFacts
  <2>2. QED BY <1>2, <1>3, <2>1, ClientBounds DEF Events
<1>5. IsFiniteSet(B) /\ Cardinality(B) = k
  <2>1. c + 1 \in Int /\ c + k \in Int
    OBVIOUS
  <2>2. IsFiniteSet((c + 1) .. (c + k))
        /\ Cardinality((c + 1) .. (c + k)) = IF c + 1 > c + k THEN 0 ELSE (c + k) - (c + 1) + 1
    BY <2>1, FS_Interval
  <2>3. (IF c + 1 > c + k THEN 0 ELSE (c + k) - (c + 1) + 1) = k
    BY <1>2
  <2>4. QED BY <1>3, <2>2, <2>3
<1>6. \A e \in B : status[e] = "queued"
  BY DEF Counted
<1>7. status' = [e \in Events |-> IF e \in good THEN "sent"
                                  ELSE IF e \in bad THEN "rejected" ELSE status[e]]
      /\ counts' = [counts EXCEPT !.sent = @ + Cardinality(good),
                                  !.rejected = @ + Cardinality(bad)]
  BY DEF Answered
<1>8. IsFiniteSet(good) /\ IsFiniteSet(bad) /\ good \cap bad = {} /\ good \cup bad = B
  BY <1>5, FS_Subset
<1> HIDE DEF good, bad, B
<1>9. PICK g \in Nat, h \in Nat : g = Cardinality(good) /\ h = Cardinality(bad) /\ g + h = k
  BY <1>5, <1>8, DisjointUnion, FS_CardinalityType
<1>10. counts'.sent + counts'.rejected = counts.sent + counts.rejected + k
       /\ counts'.dropped = counts.dropped
  <2>1. counts'.sent = counts.sent + g /\ counts'.rejected = counts.rejected + h
        /\ counts'.dropped = counts.dropped
    BY <1>7, <1>9 DEF Shape
  <2>2. counts.sent \in Nat /\ counts.rejected \in Nat
    BY DEF Shape
  <2>3. QED BY <1>9, <2>1, <2>2
<1>11. Told' = Told \cup B
  <2>1. Events' = Events
    BY DEF Events
  <2>2. \A e \in Events : status'[e] \in {"sent", "rejected"}
                            <=> status[e] \in {"sent", "rejected"} \/ e \in B
    BY <1>7, <1>8
  <2>3. QED BY <1>4, <2>1, <2>2 DEF Told
<1>12. Told \cap B = {}
  BY <1>6 DEF Told
<1>13. Cardinality(Told') = Cardinality(Told) + k
  BY <1>5, <1>11, <1>12, DisjointUnion, ToldFacts
<1>14. QED BY <1>3, <1>10, <1>13

\* The count is kept by every step.
LEMMA CountedNext ==
  ASSUME Shape, Counted, [Next]_vars
  PROVE  Counted'
<1> SUFFICES ASSUME ~hidden'
             PROVE  /\ \A e \in ToSet(queue') \cup ToSet(request'.batch) : status'[e] = "queued"
                    /\ Cardinality(Told') = counts'.sent + counts'.rejected
                    /\ Left' <= counts'.sent + counts'.rejected + counts'.dropped
  BY DEF Counted, Told
<1>1. ~hidden /\ ~PageHide
  BY GuardsStay
<1>2. /\ \A e \in ToSet(queue) \cup ToSet(request.batch) : status[e] = "queued"
      /\ Cardinality(Told) = counts.sent + counts.rejected
      /\ Left <= counts.sent + counts.rejected + counts.dropped
  BY <1>1 DEF Counted
<1>3. PICK a \in Nat, l \in Nat : QueueIs(a, l)
  BY QueueFacts
<1>4. /\ queue = Run(a, l) /\ Left = a /\ counts.recorded = a + l
      /\ ToSet(queue) = (a + 1) .. (a + l)
  BY <1>3 DEF QueueIs
<1>5. counts.sent \in Nat /\ counts.rejected \in Nat /\ counts.dropped \in Nat
      /\ blocked \in BOOLEAN /\ armed \in BOOLEAN
  BY DEF Shape
<1>6. ToSet(<<>>) = {}
  BY DEF ToSet
<1>7. \A b, n \in Nat : \A k \in 1 .. n : ToSet(Run(b, k)) \subseteq (b + 1) .. (b + n)
  <2> TAKE b, n \in Nat
  <2> TAKE k \in 1 .. n
  <2>1. ToSet(Run(b, k)) = (b + 1) .. (b + k)
    BY RunFacts
  <2>2. QED BY <2>1
<1>8. ASSUME NEW isBlocked \in BOOLEAN, NEW timer \in BOOLEAN, Flush(queue, isBlocked, timer)
      PROVE  ToSet(request'.batch) \subseteq ToSet(queue) \cup ToSet(request.batch)
  <2>1. CASE \E k \in 1 .. l : request' = [at |-> "travelling", batch |-> Run(a, k)]
    <3>1. PICK k \in 1 .. l : request' = [at |-> "travelling", batch |-> Run(a, k)]
      BY <2>1
    <3>2. ToSet(Run(a, k)) \subseteq (a + 1) .. (a + l)
      BY <1>7
    <3>3. request'.batch = Run(a, k)
      BY <3>1
    <3>4. QED BY <1>4, <3>2, <3>3
  <2>2. request' = request \/ \E k \in 1 .. l : request' = [at |-> "travelling", batch |-> Run(a, k)]
    BY <1>4, <1>8, FlushFacts
  <2>3. QED BY <2>1, <2>2
<1>9. CASE UNCHANGED <<queue, counts, status>>
           /\ ToSet(request'.batch) \subseteq ToSet(queue) \cup ToSet(request.batch)
  <2>1. Left' = Left /\ Told' = Told
    BY <1>9 DEF Left, Told, Events
  <2>2. QED BY <1>2, <1>9, <2>1
<1>10. CASE Timer \/ RetryNow
  BY <1>5, <1>8, <1>9, <1>10 DEF Timer, RetryNow
<1>11. CASE RefusalSeen \/ NetworkError
  BY <1>6, <1>9, <1>11 DEF RefusalSeen, NetworkError, BackOff, NoRequest
<1>12. CASE Ingest \/ Refuse
  BY <1>9, <1>12 DEF Ingest, Refuse, Shape, IsRequest
<1>13. CASE Unblock \/ (\E b \in strays : StrayEnds(b)) \/ UNCHANGED vars
  BY <1>9, <1>13 DEF Unblock, StrayEnds, vars
<1>14. CASE Record
  <2>1. PICK d, e, b, n \in Nat :
              /\ QueueIs(d, e) /\ QueueIs(b, n)' /\ Excess(Added) \in {0, 1}
              /\ b = d + Excess(Added) /\ b + n = d + e + 1 /\ n > 0
              /\ Flushing' \/ armed'
              /\ \/ request' = request
                 \/ ~Flushing /\ \E k \in 1 .. n :
                       request' = [at |-> "travelling", batch |-> Run(b, k)]
    BY <1>14, RecordStep
  <2>2. d = a /\ e = l /\ Left' = b /\ ToSet(queue') = (b + 1) .. (b + n)
    BY <1>3, <2>1 DEF QueueIs
  <2>3. PICK x \in {0, 1} : x = Excess(Added) /\ b = a + x
    BY <2>1, <2>2
  <2>4. /\ counts'.dropped = counts.dropped + x /\ counts'.sent = counts.sent
        /\ counts'.rejected = counts.rejected
    BY <1>14, <2>3 DEF Record, Added, Excess, Shape
  <2>5. Left' <= counts'.sent + counts'.rejected + counts'.dropped
    <3>1. a <= counts.sent + counts.rejected + counts.dropped /\ Left' = a + x
      BY <1>2, <1>4, <2>2, <2>3
    <3>2. counts'.sent + counts'.rejected + counts'.dropped
            = counts.sent + counts.rejected + counts.dropped + x
      BY <1>5, <2>4
    <3> QED BY ONLY <1>5, <3>1, <3>2
  <2>6. counts.recorded + 1 \in Events
    BY <1>4, <1>14, ClientBounds DEF Record, Events
  <2>7. status' = [status EXCEPT ![counts.recorded + 1] = "queued"]
    BY <1>14 DEF Record
  <2>8. Told' = Told
    <3>1. status[counts.recorded + 1] = "unrecorded"
      <4>1. counts.recorded + 1 > counts.recorded
        BY <1>4
      <4>2. QED BY <2>6, <4>1 DEF Shape
    <3>2. Events' = Events
      BY DEF Events
    <3>3. QED BY <2>6, <2>7, <3>1, <3>2 DEF Told, Shape
  <2>9. \A y \in Events : status[y] = "queued" \/ y = counts.recorded + 1 => status'[y] = "queued"
    BY <2>7 DEF Shape
  <2>10. ToSet(queue') \subseteq ToSet(queue) \cup {counts.recorded + 1}
    BY <1>4, <2>1, <2>2, <2>3
  <2>11. ToSet(request'.batch) \subseteq ToSet(queue') \cup ToSet(request.batch)
    BY <1>7, <2>1, <2>2
  <2>12. ToSet(queue) \cup ToSet(request.batch) \subseteq Events
    <3>1. ToSet(queue) \subseteq Events
      <4>1. counts.recorded \in 0 .. MaxEvents
        BY QueueFacts
      <4>2. QED BY <1>4, <4>1, ClientBounds DEF Events
    <3>2. ToSet(request.batch) \subseteq Events
      <4>1. CASE request.at = "none"
        BY <1>6, <4>1 DEF Shape, IsRequest
      <4>2. CASE request.at # "none"
        <5>1. PICK c \in Nat, k \in 1 .. MaxBatch :
                 c + k <= counts.recorded /\ request.batch = Run(c, k)
          BY <4>2 DEF Shape, IsRequest
        <5>2. k \in Nat
          BY ClientBounds
        <5>3. ToSet(request.batch) = (c + 1) .. (c + k)
          BY <5>1, <5>2, RunFacts
        <5>4. QED BY <1>4, <2>6, <5>1, <5>2, <5>3, ClientBounds DEF Events
      <4>3. QED BY <4>1, <4>2
    <3>3. QED BY <3>1, <3>2
  <2>13. \A y \in ToSet(queue') \cup ToSet(request'.batch) : status'[y] = "queued"
    BY <1>2, <2>6, <2>9, <2>10, <2>11, <2>12
  <2>14. QED BY <1>2, <2>4, <2>5, <2>8, <2>13
<1>15. CASE Answered
  <2>1. PICK d, e, b, n, c \in Nat, k \in 1 .. MaxBatch :
              /\ QueueIs(d, e) /\ QueueIs(b, n)' /\ b + n = d + e
              /\ request.batch = Run(c, k) /\ c <= d /\ c + k <= d + e
              /\ d <= b /\ b <= d + k /\ (n = 0 \/ b = d + k)
    BY <1>15, AnsweredStep
  <2>2. d = a /\ e = l /\ Left' = b /\ ToSet(queue') = (b + 1) .. (b + n) /\ k \in Nat
    BY <1>3, <2>1, ClientBounds DEF QueueIs
  <2>3. Len(request.batch) = k /\ ToSet(request.batch) = (c + 1) .. (c + k)
    <3>1. Len(Run(c, k)) = k /\ ToSet(Run(c, k)) = (c + 1) .. (c + k)
      BY <2>2, RunFacts
    <3>2. QED BY <2>1, <3>1
  <2>4. /\ Cardinality(Told') = Cardinality(Told) + k
        /\ counts'.sent + counts'.rejected = counts.sent + counts.rejected + k
        /\ counts'.dropped = counts.dropped
    BY <1>1, <1>15, <2>3, AnsweredCounts
  <2>5. counts'.sent \in Nat /\ counts'.rejected \in Nat /\ counts'.dropped \in Nat
    BY <1>15, AnsweredStep DEF Shape
  <2>6. Left' <= counts'.sent + counts'.rejected + counts'.dropped
    BY <1>2, <1>4, <1>5, <2>1, <2>2, <2>4, <2>5
  <2>7. ToSet(request'.batch) = {}
    BY <1>6, <1>15 DEF Answered, NoRequest
  <2>8. \A y \in ToSet(queue') : y \in ToSet(queue) /\ y \notin ToSet(request.batch)
    BY <1>4, <2>1, <2>2, <2>3
  <2>9. ToSet(queue) \subseteq Events
    <3>1. counts.recorded \in 0 .. MaxEvents
      BY QueueFacts
    <3>2. QED BY <1>4, <3>1, ClientBounds DEF Events
  <2>10. \A y \in Events : y \notin ToSet(request.batch) => status'[y] = status[y]
    BY <1>15 DEF Answered
  <2>11. \A y \in ToSet(queue') : status'[y] = "queued"
    BY <1>2, <2>8, <2>9, <2>10
  <2>12. QED BY <1>2, <2>4, <2>6, <2>7, <2>11
<1>16. QED
  BY <1>1, <1>10, <1>11, <1>12, <1>13, <1>14, <1>15 DEF Next, Client, Network

\* The events that have left the queue and whose fate is not told are no more
\* than those counted as dropped.
LEMMA CountedCovers ==
  ASSUME Shape, Counted
  PROVE  LossesAreCounted
<1> SUFFICES ASSUME ~hidden PROVE Cardinality(Lost) <= counts.dropped
  BY DEF LossesAreCounted
<1>1. PICK a \in Nat, l \in Nat : QueueIs(a, l)
  BY QueueFacts
<1>2. /\ Left = a /\ counts.recorded = a + l /\ ToSet(queue) = (a + 1) .. (a + l)
      /\ queue \in Seq(Nat) /\ counts.recorded \in 0 .. MaxEvents
  <2>1. queue = Run(a, l)
    BY <1>1 DEF QueueIs
  <2>2. QED BY <1>1, <2>1, RunFacts DEF QueueIs
<1>3. /\ \A e \in ToSet(queue) : status[e] = "queued"
      /\ Cardinality(Told) = counts.sent + counts.rejected
      /\ a <= counts.sent + counts.rejected + counts.dropped
  BY <1>2 DEF Counted
<1>4. \A e \in Events : e \in Nat /\ e > 0
  BY ClientBounds DEF Events
<1>5. \A e \in Events : status[e] = "unrecorded" <=> e > counts.recorded
  BY DEF Shape
<1>6. Told \subseteq 1 .. a
  <2> SUFFICES ASSUME NEW e \in Told PROVE e \in 1 .. a
    OBVIOUS
  <2>1. e \in Events /\ status[e] # "queued" /\ status[e] # "unrecorded"
    BY DEF Told
  <2>2. e \notin (a + 1) .. (a + l) /\ ~(e > a + l)
    BY <1>2, <1>3, <1>5, <2>1
  <2>3. QED BY <1>4, <2>1, <2>2
<1>7. Lost \subseteq (1 .. a) \ Told
  <2> SUFFICES ASSUME NEW e \in Lost PROVE e \in (1 .. a) \ Told
    OBVIOUS
  <2>1. e \in Events /\ status[e] = "queued" /\ ~Contains(queue, e)
    BY DEF Lost
  <2>2. e \notin (a + 1) .. (a + l) /\ ~(e > a + l)
    BY <1>2, <1>5, <2>1, ContainsFacts
  <2>3. QED BY <1>4, <2>1, <2>2 DEF Told
<1>8. IsFiniteSet(1 .. a) /\ Cardinality(1 .. a) = a
  <2>1. IsFiniteSet(1 .. a) /\ Cardinality(1 .. a) = IF 1 > a THEN 0 ELSE a - 1 + 1
    BY FS_Interval
  <2>2. QED BY <2>1
<1>9. /\ IsFiniteSet((1 .. a) \ Told)
      /\ Cardinality((1 .. a) \ Told) = Cardinality(1 .. a) - Cardinality((1 .. a) \cap Told)
  BY <1>8, FS_Difference, ToldFacts
<1>10. (1 .. a) \cap Told = Told
  BY <1>6
<1>11. Cardinality(Lost) \in Nat /\ Cardinality(Lost) <= Cardinality((1 .. a) \ Told)
  BY <1>7, <1>9, FS_Subset, FS_CardinalityType
<1>12. Cardinality((1 .. a) \ Told) = a - (counts.sent + counts.rejected)
  BY <1>3, <1>8, <1>9, <1>10
<1>13. counts.sent \in Nat /\ counts.rejected \in Nat /\ counts.dropped \in Nat
  BY DEF Shape
<1>14. QED BY <1>3, <1>11, <1>12, <1>13

LEMMA ShapeIsTyped ==
  ASSUME Shape
  PROVE  TypeOK
<1>1. PICK a \in Nat, l \in Nat : QueueIs(a, l)
  BY QueueFacts
<1>2. Len(queue) <= MaxQueue /\ ToSet(queue) = (a + 1) .. (a + l)
      /\ a + l <= MaxEvents
  BY <1>1, ClientBounds DEF QueueIs
<1>3. ToSet(queue) \subseteq Events
  BY <1>2, ClientBounds DEF Events
<1>4. Len(request.batch) <= MaxBatch
  <2>1. CASE request.at = "none"
    BY <2>1, ClientBounds DEF Shape, IsRequest
  <2>2. CASE request.at # "none"
    <3>1. PICK c \in Nat, k \in 1 .. MaxBatch : request.batch = Run(c, k)
      BY <2>2 DEF Shape, IsRequest
    <3>2. k \in Nat /\ k <= MaxBatch
      BY ClientBounds
    <3>3. Len(Run(c, k)) = k
      BY <3>2, RunFacts
    <3>4. QED BY <3>1, <3>2, <3>3
  <2>3. QED BY <2>1, <2>2
<1>5. ASSUME NEW s \in strays PROVE Len(s) \in 1 .. MaxBatch
  <2>1. PICK c \in Nat, k \in 1 .. MaxBatch : s = Run(c, k)
    BY DEF Shape, IsBatch
  <2>2. k \in Nat
    BY ClientBounds
  <2>3. Len(Run(c, k)) = k
    BY <2>2, RunFacts
  <2>4. QED BY <2>1, <2>3
<1>6. ToSet(stored) \subseteq Events
  BY DEF Shape, ToSet
<1>7. request.at \in {"none", "travelling", "accepted", "refused"}
  BY DEF Shape, IsRequest
<1>8. QED BY <1>2, <1>3, <1>4, <1>5, <1>6, <1>7 DEF TypeOK, Shape
-----------------------------------------------------------------------------
(* Theorems *)

LEMMA InitHolds == Init => IInv
<1> SUFFICES ASSUME Init PROVE IInv
  OBVIOUS
<1> USE DEF Init
<1>1. /\ counts \in [{"recorded", "sent", "rejected", "dropped"} -> Nat]
      /\ counts.recorded = 0 /\ counts.sent = 0 /\ counts.rejected = 0 /\ counts.dropped = 0
  OBVIOUS
<1>2. queue = <<>> /\ stored = <<>> /\ request.batch = <<>> /\ request.at = "none"
      /\ Len(queue) = 0 /\ Left = 0 /\ ToSet(queue) = {} /\ ToSet(request.batch) = {}
      /\ ToSet(stored) = {} /\ DOMAIN stored = {}
  BY DEF Left, ToSet, NoRequest
<1>3. QueueIsRun
  <2>1. Run(0, 0) \in Seq(Nat) /\ Len(Run(0, 0)) = 0
    BY RunFacts
  <2>2. Run(0, 0) = <<>>
    BY <2>1
  <2>3. 0 \in 0 .. MaxQueue /\ 0 <= counts.recorded /\ counts.recorded - 0 = 0
    BY <1>1, ClientBounds
  <2>4. queue = Run(counts.recorded - 0, 0)
    BY <1>2, <2>2, <2>3
  <2>5. QED BY <2>3, <2>4 DEF QueueIsRun
<1>4. \A e \in Events : e > 0
  BY ClientBounds DEF Events
<1>5. IsRequest(request, Left, counts.recorded)
  BY DEF IsRequest, NoRequest
<1>6. Shape
  <2>1. \A e \in Events : status[e] = "unrecorded" <=> e > counts.recorded
    BY <1>1, <1>4
  <2>2. /\ status \in [Events -> {"unrecorded", "queued", "sent", "rejected"}]
        /\ \A b \in strays : IsBatch(b, counts.recorded)
        /\ stored \in Seq(Events) /\ failures \in 0 .. MaxFailures
        /\ counts.recorded <= MaxEvents
    BY <1>1, ClientBounds
  <2>3. armed \in BOOLEAN /\ blocked \in BOOLEAN /\ hidden \in BOOLEAN
    OBVIOUS
  <2>4. QED BY <1>1, <1>3, <1>5, <2>1, <2>2, <2>3 DEF Shape
<1>7. StoredOnce /\ SentMeansStored /\ AcceptedIsStored /\ NeverStranded
  BY <1>2 DEF StoredOnce, SentMeansStored, AcceptedIsStored, NeverStranded
<1>8. LogIsPrefix(0)
  <2>1. 1 .. 0 = {}
    OBVIOUS
  <2>2. QED BY <1>2, <2>1 DEF LogIsPrefix
<1>9. InOrder
  <2>1. 0 \in 0 .. counts.recorded
    BY <1>1
  <2>2. ~Flushing
    BY <1>2 DEF Flushing
  <2>3. QED BY <1>2, <1>8, <2>1, <2>2 DEF InOrder
<1>10. Counted
  <2>1. Told = {}
    BY DEF Told
  <2>2. Cardinality(Told) = 0
    BY <2>1, FS_EmptySet
  <2>3. QED BY <1>1, <1>2, <2>2 DEF Counted
<1>11. QED BY <1>6, <1>7, <1>9, <1>10 DEF IInv

\* The inductive invariant: the queue and every batch is a run of consecutive
\* events, none of which starts after the end of the log, and the events told
\* are those the client has counted.
THEOREM InvariantHolds == Spec => []IInv
<1>1. Init => IInv
  BY InitHolds
<1>2. IInv /\ [Next]_vars => IInv'
  <2> SUFFICES ASSUME IInv, [Next]_vars PROVE IInv'
    OBVIOUS
  <2>1. Shape /\ StoredOnce /\ AcceptedIsStored /\ SentMeansStored
        /\ InOrder /\ Counted /\ NeverStranded
    BY DEF IInv
  <2>2. Shape'
    BY <2>1, ShapeNext
  <2>3. StoredOnce'
    BY <2>1, StoreGrows
  <2>4. AcceptedIsStored' /\ SentMeansStored'
    BY <2>1, AcceptedNext, SentNext
  <2>5. InOrder' /\ Counted'
    BY <2>1, InOrderNext, CountedNext
  <2>6. NeverStranded'
    BY <2>1, StrandedNext
  <2>7. QED BY <2>2, <2>3, <2>4, <2>5, <2>6 DEF IInv
<1>3. QED BY <1>1, <1>2, PTL DEF Spec

\* Whatever the network loses, repeats or delays, every event recorded is in
\* the log once and in order, shown as rejected, or counted as dropped, and
\* none waits for a flush that nobody will call (lib/ui-audit.ts with
\* ui_events.py).
THEOREM EventsAccounted == Spec => []EventsAreAccounted
<1>1. IInv => EventsAreAccounted
  BY ShapeIsTyped, CountedCovers
  DEF IInv, EventsAreAccounted, InOrder, StoredInOrder
<1>2. QED BY <1>1, InvariantHolds, PTL
----------------------------------------------------------------------------
\* The Runs tab's log panel.

Entries == (Runs \cup {NoRun}) \X Int

\* The last pieces of a run's log up to one of them.
EndsAt(s, r, last) == s \in Seq(Entries) /\ \A k \in 1 .. Len(s) : s[k] = <<r, last - Len(s) + k>>

Marked(s) == Garbage \in ToSet(s)

Chunks ==
  {Answer, Empty, Garbled} \cup [text : Seq(Entries), next : 0 .. LogPieces, complete : BOOLEAN]

Tails ==
  [run : Runs, offset : 0 .. Undefined, buffer : Seq(Entries), cancelled : BOOLEAN,
   at : {"timer", "asked", "stopped"},
   row : Statuses \cup {"pending", "error", "empty"}, chunk : Chunks]

LogTypeOK ==
  /\ rowStatus \in [Runs -> Statuses] /\ written \in [Runs -> 0 .. LogPieces]
  /\ asked.doing = "start" => asked.run \in Runs
  /\ tails \in Seq(Tails)
  /\ log \in Seq(Entries)

\* What a tail has shown ends where it will go on to ask, unless it is lost.
BufferFits(t) ==
  IF t.offset = Undefined THEN Marked(t.buffer)
  ELSE t.offset <= written[t.run] /\ EndsAt(t.buffer, t.run, t.offset)

\* An answer goes on where the tail is.
ChunkFits(t) ==
  \/ t.chunk \in {Answer, Empty, Garbled}
  \/ /\ t.offset # Undefined
     /\ t.chunk \in [text : Seq(Entries), next : 0 .. LogPieces, complete : BOOLEAN]
     /\ t.chunk.next = t.offset + Len(t.chunk.text)
     /\ t.chunk.next <= written[t.run]
     /\ EndsAt(t.chunk.text, t.run, t.chunk.next)

TailsFit == \A i \in DOMAIN tails : BufferFits(tails[i]) /\ ChunkFits(tails[i])

\* Only the tail of the selection may still show anything.
OneTail ==
  \A i \in DOMAIN tails : ~tails[i].cancelled => tails[i].run = selectedId

LogFits == selectedId = NoRun \/ Marked(log) \/ \E last \in Int : EndsAt(log, selectedId, last)

LogInv == LogTypeOK /\ TailsFit /\ OneTail /\ LogFits
----------------------------------------------------------------------------
LEMMA EntryOf ==
  ASSUME NEW r \in Runs \cup {NoRun}, NEW n \in Int
  PROVE  <<r, n>> \in Entries
BY DEF Entries

\* An answer that goes on where what is shown ends.
LEMMA GoesOn ==
  ASSUME NEW s, NEW c, NEW r, NEW last \in Int, EndsAt(s, r, last), EndsAt(c, r, last + Len(c))
  PROVE  EndsAt(s \o c, r, last + Len(c))
<1>1. s \in Seq(Entries) /\ c \in Seq(Entries) /\ Len(s) \in Nat /\ Len(c) \in Nat
  BY DEF EndsAt
<1>2. s \o c \in Seq(Entries) /\ Len(s \o c) = Len(s) + Len(c)
  BY <1>1
<1> DEFINE all == s \o c
           end == last + Len(c)
           n == Len(s) + Len(c)
<1>3. ASSUME NEW k \in 1 .. n
      PROVE  all[k] = <<r, end - n + k>>
  <2>1. CASE k <= Len(s)
    <3>1. all[k] = s[k] /\ k \in 1 .. Len(s)
      BY <1>1, <2>1
    <3>2. s[k] = <<r, last - Len(s) + k>>
      BY <3>1 DEF EndsAt
    <3>3. end - n + k = last - Len(s) + k
      BY <1>1
    <3> QED BY <3>1, <3>2, <3>3
  <2>2. CASE k > Len(s)
    <3>1. all[k] = c[k - Len(s)] /\ k - Len(s) \in 1 .. Len(c)
      BY <1>1, <2>2
    <3>2. c[k - Len(s)] = <<r, end - Len(c) + (k - Len(s))>>
      BY <3>1 DEF EndsAt
    <3>3. end - Len(c) + (k - Len(s)) = end - n + k
      BY <1>1
    <3> QED BY <3>1, <3>2, <3>3
  <2> QED BY <1>1, <2>1, <2>2
<1>4. all \in Seq(Entries) /\ Len(all) = n
  BY <1>2
<1> HIDE DEF all, end, n
<1>5. EndsAt(all, r, end)
  BY ONLY <1>3, <1>4 DEF EndsAt
<1> QED BY <1>5 DEF all, end

\* What the page keeps of a log is its last pieces.
LEMMA LastKept ==
  ASSUME RunsAssumption, NEW s \in Seq(Entries)
  PROVE  LET l == LastOf(s)
         IN  /\ l \in Seq(Entries) /\ Len(l) <= Len(s) /\ (s # <<>> => l # <<>>)
             /\ \A k \in 1 .. Len(l) : l[k] = s[Len(s) - Len(l) + k]
<1> DEFINE from == IF Len(s) > KeptPieces THEN Len(s) - KeptPieces + 1 ELSE 1
<1> DEFINE l == SubSeq(s, from, Len(s))
<1>1. Len(s) \in Nat /\ KeptPieces \in Nat \ {0}
  BY DEF RunsAssumption
<1>2. from \in 1 .. Len(s) + 1 /\ (s # <<>> => from <= Len(s))
  <2>1. s # <<>> => Len(s) > 0
    OBVIOUS
  <2> QED BY <1>1, <2>1
<1>3. LastOf(s) = l
  BY DEF LastOf
<1> HIDE DEF from
<1>4. from \in Int /\ Len(s) \in Int /\ \A i \in from .. Len(s) : s[i] \in Entries
  BY <1>1, <1>2
<1>5. /\ l \in Seq(Entries) /\ Len(l) = IF from <= Len(s) THEN Len(s) - from + 1 ELSE 0
      /\ \A i \in 1 .. Len(s) - from + 1 : l[i] = s[from + i - 1]
  BY <1>4, SubSeqProperties
<1> HIDE DEF l
<1>6. Len(l) = Len(s) - from + 1
  BY <1>1, <1>2, <1>5
<1>7. Len(l) <= Len(s) /\ (s # <<>> => l # <<>>)
  BY <1>1, <1>2, <1>5, <1>6
<1>8. ASSUME NEW k \in 1 .. Len(l)
      PROVE  l[k] = s[Len(s) - Len(l) + k]
  <2>1. l[k] = s[from + k - 1]
    BY <1>5, <1>6
  <2>2. from + k - 1 = Len(s) - Len(l) + k
    BY <1>1, <1>2, <1>6
  <2> QED BY <2>1, <2>2
<1> QED BY <1>3, <1>5, <1>7, <1>8

LEMMA LastKeptEnds ==
  ASSUME RunsAssumption, NEW s, NEW r, NEW last \in Int, EndsAt(s, r, last)
  PROVE  EndsAt(LastOf(s), r, last)
<1> DEFINE l == LastOf(s)
<1>1. s \in Seq(Entries) /\ \A k \in 1 .. Len(s) : s[k] = <<r, last - Len(s) + k>>
  BY DEF EndsAt
<1>2. l \in Seq(Entries) /\ Len(l) <= Len(s) /\ \A k \in 1 .. Len(l) : l[k] = s[Len(s) - Len(l) + k]
  BY <1>1, LastKept
<1> HIDE DEF l
<1>3. ASSUME NEW k \in 1 .. Len(l)
      PROVE  l[k] = <<r, last - Len(l) + k>>
  <2>1. Len(s) \in Nat /\ Len(l) \in Nat /\ Len(s) - Len(l) + k \in 1 .. Len(s)
    BY <1>1, <1>2
  <2>2. l[k] = <<r, last - Len(s) + (Len(s) - Len(l) + k)>>
    BY <1>1, <1>2, <2>1
  <2>3. last - Len(s) + (Len(s) - Len(l) + k) = last - Len(l) + k
    BY <2>1
  <2> QED BY <2>2, <2>3
<1>4. EndsAt(l, r, last)
  BY <1>2, <1>3 DEF EndsAt
<1> QED BY <1>4 DEF l

\* An answer that is not a log leaves its mark.
LEMMA MarkStays ==
  ASSUME RunsAssumption, NEW s \in Seq(Entries)
  PROVE  /\ LastOf(s \o <<Garbage>>) \in Seq(Entries)
         /\ Marked(LastOf(s \o <<Garbage>>))
<1> DEFINE all == s \o <<Garbage>>
<1> DEFINE l == LastOf(all)
<1>1. Garbage \in Entries
  BY DEF Garbage, Entries
<1>2. all \in Seq(Entries) /\ all # <<>> /\ Len(all) = Len(s) + 1 /\ all[Len(all)] = Garbage /\ Len(s) \in Nat
  BY <1>1
<1> HIDE DEF all
<1>3. /\ l \in Seq(Entries) /\ l # <<>>
      /\ \A k \in 1 .. Len(l) : l[k] = all[Len(all) - Len(l) + k]
  BY <1>2, LastKept
<1> HIDE DEF l
<1>4. Len(l) \in 1 .. Len(l) /\ Len(l) \in Nat
  BY <1>3
<1>5. Len(all) - Len(l) + Len(l) = Len(all)
  BY <1>2, <1>4
<1>6. l[Len(l)] = Garbage
  BY <1>2, <1>3, <1>4, <1>5
<1>7. Len(l) \in DOMAIN l
  BY <1>3, <1>4
<1>8. Marked(l)
  BY <1>6, <1>7 DEF Marked, ToSet
<1> QED BY <1>3, <1>8 DEF l, all
----------------------------------------------------------------------------
LEMMA NewTailFits ==
  ASSUME RunsAssumption, LogTypeOK, NEW r \in Runs
  PROVE  /\ NewTail(r) \in Tails /\ NewTail(r).run = r
         /\ BufferFits(NewTail(r)) /\ ChunkFits(NewTail(r))
<1> DEFINE t == NewTail(r)
<1>1. LogPieces \in Nat /\ Undefined = LogPieces + 1 /\ written[r] \in 0 .. LogPieces
  BY DEF RunsAssumption, LogTypeOK, Undefined
<1>2. Answer \in Chunks
  BY DEF Chunks
<1>3. <<>> \in Seq(Entries) /\ EndsAt(<<>>, r, 0)
  BY DEF EndsAt
<1>4. t.run = r /\ t.offset = 0 /\ t.buffer = <<>> /\ t.chunk = Answer
  BY DEF NewTail
<1>5. t \in Tails
  BY <1>1, <1>2, <1>3 DEF NewTail, Tails, Statuses
<1> HIDE DEF t
<1>6. BufferFits(t) /\ ChunkFits(t)
  BY <1>1, <1>3, <1>4 DEF BufferFits, ChunkFits
<1> QED BY <1>4, <1>5, <1>6 DEF t

\* A tail that is over.
LEMMA OverFits ==
  ASSUME RunsAssumption, LogTypeOK, NEW r \in Runs, NEW c \in BOOLEAN
  PROVE  LET t == [NewTail(r) EXCEPT !.cancelled = c, !.at = "stopped"]
         IN  t \in Tails /\ t.run = r /\ t.cancelled = c /\ BufferFits(t) /\ ChunkFits(t)
<1> DEFINE n == NewTail(r)
           t == [n EXCEPT !.cancelled = c, !.at = "stopped"]
<1>1. n \in Tails /\ n.run = r /\ BufferFits(n) /\ ChunkFits(n)
  BY NewTailFits
<1> HIDE DEF n
<1>2. /\ t \in Tails /\ t.run = n.run /\ t.offset = n.offset /\ t.buffer = n.buffer
      /\ t.cancelled = c /\ t.chunk = n.chunk
  BY <1>1 DEF Tails
<1> HIDE DEF t
<1>3. BufferFits(t) /\ ChunkFits(t)
  BY <1>1, <1>2 DEF BufferFits, ChunkFits
<1> QED BY <1>1, <1>2, <1>3 DEF t, n

LEMMA CancelledTails ==
  ASSUME NEW s \in Seq(Tails)
  PROVE  LET off == [i \in DOMAIN s |-> [s[i] EXCEPT !.cancelled = TRUE]]
         IN  off \in Seq(Tails) /\ Len(off) = Len(s)
<1> DEFINE off == [i \in DOMAIN s |-> [s[i] EXCEPT !.cancelled = TRUE]]
<1>1. Len(s) \in Nat /\ DOMAIN s = 1 .. Len(s) /\ \A i \in 1 .. Len(s) : s[i] \in Tails
  OBVIOUS
<1>2. ASSUME NEW i \in 1 .. Len(s)
      PROVE  [s[i] EXCEPT !.cancelled = TRUE] \in Tails
  <2>1. \A t \in Tails : [t EXCEPT !.cancelled = TRUE] \in Tails
    BY DEF Tails
  <2> QED BY <1>1, <2>1
<1>3. off \in [1 .. Len(s) -> Tails]
  BY <1>1, <1>2
<1> HIDE DEF off
<1>4. off \in Seq(Tails) /\ Len(off) = Len(s)
  BY <1>1, <1>3
<1> QED BY <1>4 DEF off

\* What a tail shows once an answer has arrived.
LEMMA BufferGoesOn ==
  ASSUME RunsAssumption, NEW t \in Tails, BufferFits(t), ChunkFits(t),
         t.chunk # Answer, t.chunk # Empty
  PROVE  LET b == LastOf(t.buffer \o t.chunk.text)
         IN  /\ b \in Seq(Entries) /\ t.chunk.next \in 0 .. Undefined
             /\ IF t.chunk.next = Undefined THEN Marked(b)
                ELSE t.chunk.next <= written[t.run] /\ EndsAt(b, t.run, t.chunk.next)
<1>1. t.buffer \in Seq(Entries) /\ t.offset \in 0 .. Undefined /\ LogPieces \in Nat /\ Undefined = LogPieces + 1
  BY DEF Tails, RunsAssumption, Undefined
<1>2. CASE t.chunk = Garbled
  <2>1. t.chunk.text = <<Garbage>> /\ t.chunk.next = Undefined
    BY <1>2 DEF Garbled
  <2> QED BY <1>1, <2>1, MarkStays
<1>3. CASE t.chunk # Garbled
  <2> DEFINE text == t.chunk.text
             next == t.chunk.next
             offset == t.offset
             run == t.run
  <2>1. /\ offset # Undefined /\ t.chunk \in [text : Seq(Entries), next : 0 .. LogPieces, complete : BOOLEAN]
        /\ next = offset + Len(text) /\ next <= written[run] /\ EndsAt(text, run, next)
    BY <1>3 DEF ChunkFits
  <2>2. EndsAt(t.buffer, run, offset) /\ next \in 0 .. LogPieces /\ offset \in Int
    BY <1>1, <2>1 DEF BufferFits
  <2> HIDE DEF text, next, offset, run
  <2>3. EndsAt(t.buffer \o text, run, next)
    BY <2>1, <2>2, GoesOn
  <2>4. next \in Int /\ next # Undefined /\ next \in 0 .. Undefined
    BY <1>1, <2>2
  <2>5. EndsAt(LastOf(t.buffer \o text), run, next)
    BY <2>3, <2>4, LastKeptEnds
  <2>6. LastOf(t.buffer \o text) \in Seq(Entries)
    BY <2>5 DEF EndsAt
  <2> QED BY <2>1, <2>4, <2>5, <2>6 DEF text, next, run
<1> QED BY <1>2, <1>3

\* The platform's answer goes on where it was asked to.
LEMMA LogAnswerFits ==
  ASSUME RunsAssumption, LogTypeOK, NEW t \in Tails, BufferFits(t), t.offset # Undefined
  PROVE  LET c == getRunLog(t.run, t.offset)
         IN  /\ c \in [text : Seq(Entries), next : 0 .. LogPieces, complete : BOOLEAN]
             /\ c.next = t.offset + Len(c.text)
             /\ c.next <= written[t.run]
             /\ EndsAt(c.text, t.run, c.next)
<1> DEFINE r == t.run
           offset == t.offset
           to == IF offset + ChunkPieces < written[r] THEN offset + ChunkPieces ELSE written[r]
           text == [i \in 1 .. to - offset |-> <<r, offset + i>>]
           c == getRunLog(r, offset)
<1>1. /\ r \in Runs /\ offset \in Nat /\ offset <= written[r] /\ written[r] \in 0 .. LogPieces
      /\ ChunkPieces \in Nat \ {0} /\ LogPieces \in Nat
  BY DEF Tails, BufferFits, LogTypeOK, RunsAssumption, Undefined
<1>2. c = [text |-> text, next |-> to, complete |-> rowStatus[r] = "ended"]
  BY DEF getRunLog
<1> HIDE DEF c, r, offset
<1>3. to \in 0 .. LogPieces /\ offset <= to /\ to <= written[r]
  BY <1>1
<1> HIDE DEF to
<1>4. to - offset \in Nat
  BY <1>1, <1>3
<1>5. \A i \in 1 .. to - offset : <<r, offset + i>> \in Entries
  BY <1>1, <1>4 DEF Entries
<1>6. text \in Seq(Entries) /\ Len(text) = to - offset
  BY <1>4, <1>5
<1>7. \A i \in 1 .. Len(text) : text[i] = <<r, to - Len(text) + i>>
  BY <1>1, <1>3, <1>6
<1> HIDE DEF text
<1>8. EndsAt(text, r, to)
  BY <1>6, <1>7 DEF EndsAt
<1>9. to = offset + Len(text)
  BY <1>1, <1>3, <1>6
<1> QED BY <1>2, <1>3, <1>6, <1>8, <1>9 DEF c, r, offset

\* A step that replaces one tail by one that fits as well.
LEMMA TailMoves ==
  ASSUME RunsAssumption, LogInv, NEW i \in DOMAIN tails, NEW t \in Tails,
         t.run = tails[i].run, t.cancelled = tails[i].cancelled, BufferFits(t), ChunkFits(t),
         tails' = [tails EXCEPT ![i] = t], UNCHANGED <<platform, selectedId, asked>>
  PROVE  (rowStatus \in [Runs -> Statuses] /\ tails \in Seq(Tails))' /\ TailsFit' /\ OneTail'
<1>1. tails \in Seq(Tails) /\ TailsFit /\ OneTail /\ rowStatus \in [Runs -> Statuses]
  BY DEF LogInv, LogTypeOK
<1>2. DOMAIN tails' = DOMAIN tails /\ tails' \in Seq(Tails) /\ \A j \in DOMAIN tails : tails'[j] = IF j = i THEN t ELSE tails[j]
  BY <1>1
<1>3. rowStatus' = rowStatus /\ written' = written /\ selectedId' = selectedId
  BY DEF platform
<1>4. TailsFit'
  BY <1>1, <1>2, <1>3 DEF TailsFit, BufferFits, ChunkFits
<1>5. OneTail'
  BY <1>1, <1>2, <1>3 DEF OneTail
<1> QED BY <1>1, <1>2, <1>3, <1>4, <1>5

\* A selection cancels every tail but the selected run's.
LEMMA Selecting ==
  ASSUME RunsAssumption, LogInv, NEW r \in Runs, selectRun(r), UNCHANGED written,
         (rowStatus \in [Runs -> Statuses])', (asked.doing = "start" => asked.run \in Runs)'
  PROVE  LogInv'
<1>1. tails \in Seq(Tails) /\ TailsFit /\ OneTail /\ written \in [Runs -> 0 .. LogPieces]
  BY DEF LogInv, LogTypeOK
<1>2. selectedId' = r /\ log' = <<>> /\ written' = written
  BY DEF selectRun
<1>3. (log \in Seq(Entries))' /\ LogFits'
  <2>1. EndsAt(<<>>, r, 0)
    BY DEF EndsAt
  <2> QED BY <1>2, <2>1 DEF LogFits, EndsAt
<1>4. CASE r = selectedId
  <2>1. tails' = tails
    BY <1>4 DEF selectRun
  <2> QED BY <1>1, <1>2, <1>3, <1>4, <2>1 DEF LogInv, LogTypeOK, TailsFit, BufferFits, ChunkFits, OneTail
<1>5. CASE r # selectedId
  <2> DEFINE off == [i \in DOMAIN tails |-> [tails[i] EXCEPT !.cancelled = TRUE]]
             t == NewTail(r)
  <2>1. tails' = Append(off, t)
    BY <1>5 DEF selectRun
  <2>2. off \in Seq(Tails) /\ Len(off) = Len(tails)
    BY <1>1, CancelledTails
  <2>3. t \in Tails /\ t.run = r /\ BufferFits(t) /\ ChunkFits(t)
    BY NewTailFits DEF LogInv
  <2>4. ASSUME NEW i \in DOMAIN tails
        PROVE  off[i].cancelled /\ BufferFits(off[i]) /\ ChunkFits(off[i])
    <3>1. tails[i] \in Tails /\ BufferFits(tails[i]) /\ ChunkFits(tails[i])
      BY <1>1 DEF TailsFit
    <3>2. /\ off[i].cancelled /\ off[i].run = tails[i].run /\ off[i].offset = tails[i].offset
          /\ off[i].buffer = tails[i].buffer /\ off[i].chunk = tails[i].chunk
      BY <3>1 DEF Tails
    <3> QED BY <3>1, <3>2 DEF BufferFits, ChunkFits
  <2> HIDE DEF off, t
  <2>5. tails' \in Seq(Tails) /\ DOMAIN tails' = 1 .. Len(tails) + 1 /\ DOMAIN tails = 1 .. Len(tails) /\ Len(tails) \in Nat
    BY <1>1, <2>1, <2>2, <2>3
  <2>6. tails'[Len(tails) + 1] = t /\ \A i \in DOMAIN tails : tails'[i] = off[i]
    BY <1>1, <2>1, <2>2, <2>3
  <2>7. \A i \in DOMAIN tails' : tails'[i] = t \/ (i \in DOMAIN tails /\ tails'[i] = off[i])
    BY <2>5, <2>6
  <2>8. TailsFit'
    <3>1. \A i \in DOMAIN tails' : BufferFits(tails'[i]) /\ ChunkFits(tails'[i])
      BY <2>3, <2>4, <2>7
    <3> QED BY <1>2, <3>1 DEF TailsFit, BufferFits, ChunkFits
  <2>9. OneTail'
    BY <1>2, <2>3, <2>4, <2>7 DEF OneTail
  <2> QED BY <1>1, <1>2, <1>3, <2>5, <2>8, <2>9 DEF LogInv, LogTypeOK
<1> QED BY <1>4, <1>5
----------------------------------------------------------------------------
LEMMA AskingKeepsLog ==
  ASSUME RunsAssumption, LogInv, NEW i \in DOMAIN tails, Poll(i) \/ RowRead(i) \/ LogRead(i)
  PROVE  LogInv'
<1> DEFINE t == tails[i]
<1>1. LogTypeOK /\ t \in Tails /\ BufferFits(t) /\ ChunkFits(t)
  BY DEF LogInv, LogTypeOK, TailsFit
<1>2. UNCHANGED <<platform, selectedId, asked, log>>
  BY DEF Poll, RowRead, LogRead
<1>3. SUFFICES ASSUME NEW u \in Tails, u.run = t.run, u.cancelled = t.cancelled,
                      BufferFits(u), ChunkFits(u), tails' = [tails EXCEPT ![i] = u]
               PROVE  LogInv'
  <2>1. CASE Poll(i)
    <3> DEFINE u == [t EXCEPT !.at = "asked"]
    <3>1. tails' = [tails EXCEPT ![i] = u]
      BY <2>1 DEF Poll
    <3>2. /\ u \in Tails /\ u.run = t.run /\ u.cancelled = t.cancelled /\ u.offset = t.offset
          /\ u.buffer = t.buffer /\ u.chunk = t.chunk
      BY <1>1 DEF Tails
    <3> HIDE DEF u, t
    <3>3. BufferFits(u) /\ ChunkFits(u)
      BY <1>1, <3>2 DEF BufferFits, ChunkFits
    <3> QED BY <1>3, <3>1, <3>2, <3>3
  <2>2. CASE RowRead(i)
    <3>1. PICK row \in Statuses \cup {"error", "empty"} : tails' = [tails EXCEPT ![i].row = row]
      BY <1>1, <2>2 DEF RowRead, LogTypeOK, Tails
    <3> DEFINE u == [t EXCEPT !.row = row]
    <3>2. tails' = [tails EXCEPT ![i] = u]
      BY <3>1
    <3>3. /\ u \in Tails /\ u.run = t.run /\ u.cancelled = t.cancelled /\ u.offset = t.offset
          /\ u.buffer = t.buffer /\ u.chunk = t.chunk
      BY <1>1 DEF Tails
    <3> HIDE DEF u, t
    <3>4. BufferFits(u) /\ ChunkFits(u)
      BY <1>1, <3>3 DEF BufferFits, ChunkFits
    <3> QED BY <1>3, <3>2, <3>3, <3>4
  <2>3. CASE LogRead(i)
    <3> DEFINE good == getRunLog(t.run, t.offset)
    <3>1. PICK c : /\ tails' = [tails EXCEPT ![i].chunk = c]
                   /\ c \in {Garbled, Empty} \/ (t.offset # Undefined /\ c = good)
      BY <2>3 DEF LogRead
    <3> DEFINE u == [t EXCEPT !.chunk = c]
    <3>2. tails' = [tails EXCEPT ![i] = u]
      BY <3>1
    <3>3. c \in Chunks /\ (c \in {Garbled, Empty} \/
              (/\ t.offset # Undefined
               /\ c \in [text : Seq(Entries), next : 0 .. LogPieces, complete : BOOLEAN]
               /\ c.next = t.offset + Len(c.text)
               /\ c.next <= written[t.run]
               /\ EndsAt(c.text, t.run, c.next)))
      <4>1. CASE c \in {Garbled, Empty}
        BY <4>1 DEF Chunks
      <4>2. CASE t.offset # Undefined /\ c = good
        BY <1>1, <4>2, LogAnswerFits DEF Chunks
      <4> QED BY <3>1, <4>1, <4>2
    <3>4. /\ u \in Tails /\ u.run = t.run /\ u.cancelled = t.cancelled /\ u.offset = t.offset
          /\ u.buffer = t.buffer /\ u.chunk = c
      BY <1>1, <3>3 DEF Tails
    <3> HIDE DEF u, t, good
    <3>5. BufferFits(u)
      BY <1>1, <3>4 DEF BufferFits
    <3>6. ChunkFits(u)
      BY <3>3, <3>4 DEF ChunkFits
    <3> QED BY <1>3, <3>2, <3>4, <3>5, <3>6
  <2> QED BY <2>1, <2>2, <2>3
<1>4. (rowStatus \in [Runs -> Statuses] /\ tails \in Seq(Tails))' /\ TailsFit' /\ OneTail'
  BY <1>2, <1>3, TailMoves
<1> QED BY <1>1, <1>2, <1>4 DEF LogInv, LogTypeOK, LogFits, platform

LEMMA AnswerKeepsLog ==
  ASSUME RunsAssumption, LogInv, NEW i \in DOMAIN tails, PollAnswered(i) \/ PollFails(i)
  PROVE  LogInv'
<1> DEFINE t == tails[i]
           over == [NewTail(t.run) EXCEPT !.cancelled = t.cancelled, !.at = "stopped"]
           b == LastOf(t.buffer \o t.chunk.text)
           n == [NoAnswers(t) EXCEPT !.buffer = b, !.offset = t.chunk.next, !.at = "timer"]
<1>1. LogTypeOK /\ t \in Tails /\ BufferFits(t) /\ ChunkFits(t) /\ t.run \in Runs /\ t.cancelled \in BOOLEAN
  <2>1. LogTypeOK /\ t \in Tails /\ BufferFits(t) /\ ChunkFits(t)
    BY DEF LogInv, LogTypeOK, TailsFit
  <2>2. t.run \in Runs /\ t.cancelled \in BOOLEAN
    BY <2>1 DEF Tails
  <2> QED BY <2>1, <2>2
<1>2. UNCHANGED <<platform, selectedId, asked>>
  BY DEF PollAnswered, PollFails
<1>3. /\ over \in Tails /\ over.run = t.run /\ over.cancelled = t.cancelled
      /\ BufferFits(over) /\ ChunkFits(over)
  BY <1>1, OverFits
<1>4. CASE Over(i) /\ UNCHANGED log
  <2>1. tails' = [tails EXCEPT ![i] = over]
    BY <1>4 DEF Over
  <2> HIDE DEF over
  <2>2. (rowStatus \in [Runs -> Statuses] /\ tails \in Seq(Tails))' /\ TailsFit' /\ OneTail'
    BY <1>2, <1>3, <2>1, TailMoves
  <2> QED BY <1>1, <1>2, <1>4, <2>2 DEF LogInv, LogTypeOK, LogFits, platform
<1>5. CASE ~(Over(i) /\ UNCHANGED log)
  <2>1. /\ PollAnswered(i) /\ ~t.cancelled /\ t.chunk # Answer /\ t.chunk # Empty /\ log' = b
        /\ Over(i) \/ tails' = [tails EXCEPT ![i] = n]
    BY <1>5 DEF PollAnswered, PollFails, Shown, Arrived
  <2>2. /\ b \in Seq(Entries) /\ t.chunk.next \in 0 .. Undefined
        /\ IF t.chunk.next = Undefined THEN Marked(b)
           ELSE t.chunk.next <= written[t.run] /\ EndsAt(b, t.run, t.chunk.next)
    BY <1>1, <2>1, BufferGoesOn
  <2>3. t.run = selectedId
    BY <2>1 DEF LogInv, OneTail
  <2>4. Marked(b) \/ \E last \in Int : EndsAt(b, selectedId, last)
    <3>1. Undefined \in Nat /\ t.chunk.next \in Int
      BY <2>2 DEF RunsAssumption, Undefined
    <3> QED BY <2>2, <2>3, <3>1
  <2>5. LogFits' /\ (log \in Seq(Entries))'
    <3> HIDE DEF b
    <3> QED BY <1>2, <2>1, <2>2, <2>4 DEF LogFits, EndsAt, Marked
  <2>6. /\ n \in Tails /\ n.run = t.run /\ n.cancelled = t.cancelled
        /\ BufferFits(n) /\ ChunkFits(n)
    <3> DEFINE next == t.chunk.next
               m == [t EXCEPT !.row = "pending", !.chunk = Answer]
    <3>1. n = [m EXCEPT !.buffer = b, !.offset = next, !.at = "timer"]
      BY DEF NoAnswers
    <3>2. m \in Tails /\ m.run = t.run /\ m.cancelled = t.cancelled /\ m.chunk = Answer
      BY <1>1 DEF Tails, Chunks
    <3> HIDE DEF m, b, next, n, t
    <3>3. /\ n \in Tails /\ n.run = m.run /\ n.cancelled = m.cancelled /\ n.chunk = m.chunk
          /\ n.buffer = b /\ n.offset = next
      BY <2>2, <3>1, <3>2 DEF Tails, next
    <3>4. BufferFits(n)
      BY <2>2, <3>2, <3>3 DEF BufferFits, next
    <3>5. ChunkFits(n)
      BY <3>2, <3>3 DEF ChunkFits
    <3> QED BY <3>2, <3>3, <3>4, <3>5
  <2>7. (rowStatus \in [Runs -> Statuses] /\ tails \in Seq(Tails))' /\ TailsFit' /\ OneTail'
    <3>1. CASE Over(i)
      <4>1. tails' = [tails EXCEPT ![i] = over]
        BY <3>1 DEF Over
      <4> HIDE DEF over
      <4> QED BY <1>2, <1>3, <4>1, TailMoves
    <3>2. CASE tails' = [tails EXCEPT ![i] = n]
      <4> HIDE DEF n
      <4> QED BY <1>2, <2>6, <3>2, TailMoves
    <3> QED BY <2>1, <3>1, <3>2
  <2> QED BY <1>1, <1>2, <2>5, <2>7 DEF LogInv, LogTypeOK, platform
<1> QED BY <1>4, <1>5

\* The panel is closed: every tail is cancelled, and no selection is left
\* for a log to belong to.
LEMMA ClosingKeepsLog ==
  ASSUME RunsAssumption, LogInv, ClickClose
  PROVE  LogInv'
<1> DEFINE off == [i \in DOMAIN tails |-> [tails[i] EXCEPT !.cancelled = TRUE]]
<1>1. /\ tails' = off /\ selectedId' = NoRun
      /\ UNCHANGED <<rowStatus, written, log, asked>>
  BY DEF ClickClose, platform
<1>2. tails \in Seq(Tails) /\ off \in Seq(Tails)
  BY CancelledTails DEF LogInv, LogTypeOK
<1>3. ASSUME NEW i \in DOMAIN tails
      PROVE  off[i].cancelled /\ BufferFits(off[i]) /\ ChunkFits(off[i])
  <2>1. tails[i] \in Tails /\ BufferFits(tails[i]) /\ ChunkFits(tails[i])
    BY <1>2 DEF LogInv, TailsFit
  <2>2. /\ off[i].cancelled /\ off[i].run = tails[i].run /\ off[i].offset = tails[i].offset
        /\ off[i].buffer = tails[i].buffer /\ off[i].chunk = tails[i].chunk
    BY <2>1 DEF Tails
  <2> QED BY <2>1, <2>2 DEF BufferFits, ChunkFits
<1>4. DOMAIN off = DOMAIN tails
  OBVIOUS
<1> HIDE DEF off
<1>5. TailsFit' /\ OneTail'
  BY <1>1, <1>3, <1>4 DEF TailsFit, OneTail, BufferFits, ChunkFits
<1>6. LogFits'
  BY <1>1 DEF LogFits
<1> QED BY <1>1, <1>2, <1>5, <1>6 DEF LogInv, LogTypeOK

LEMMA LogStep ==
  ASSUME RunsAssumption, LogInv, [RunsNext]_runsVars
  PROVE  LogInv'
<1> DEFINE same == UNCHANGED <<written, selectedId, tails, log>>
<1>1. ASSUME same, (rowStatus \in [Runs -> Statuses])', (asked.doing = "start" => asked.run \in Runs)'
      PROVE  LogInv'
  BY <1>1 DEF LogInv, LogTypeOK, TailsFit, BufferFits, ChunkFits, OneTail, LogFits
<1>2. rowStatus \in [Runs -> Statuses] /\ (asked.doing = "start" => asked.run \in Runs)
  BY DEF LogInv, LogTypeOK
<1>3. CASE UNCHANGED runsVars
  BY <1>1, <1>2, <1>3 DEF runsVars, platform, logPanel
<1>4. ASSUME NEW r \in Runs, LogGrows(r)
      PROVE  LogInv'
  <2>1. /\ UNCHANGED <<rowStatus, selectedId, log, tails, asked>>
        /\ written[r] < LogPieces /\ written' = [written EXCEPT ![r] = @ + 1]
    BY <1>4 DEF LogGrows, logPanel
  <2>2. written \in [Runs -> 0 .. LogPieces] /\ LogPieces \in Nat /\ tails \in Seq(Tails) /\ TailsFit
    BY DEF LogInv, LogTypeOK, RunsAssumption
  <2>3. written' \in [Runs -> 0 .. LogPieces] /\ \A q \in Runs : written[q] <= written'[q]
    BY <2>1, <2>2
  <2>4. ASSUME NEW t \in Tails, BufferFits(t), ChunkFits(t)
        PROVE  (BufferFits(t) /\ ChunkFits(t))'
    <3>1. t.run \in Runs /\ t.offset \in 0 .. Undefined /\ Undefined \in Nat
      BY <2>2 DEF Tails, Undefined
    <3>2. written[t.run] \in Nat /\ written'[t.run] \in Nat /\ written[t.run] <= written'[t.run]
      BY <2>2, <2>3, <3>1
    <3>3. BufferFits(t)'
      BY <2>4, <3>1, <3>2 DEF BufferFits
    <3>4. ChunkFits(t)'
      BY <2>4, <3>1, <3>2 DEF ChunkFits
    <3> QED BY <3>3, <3>4
  <2>5. TailsFit'
    <3>1. \A i \in DOMAIN tails : tails[i] \in Tails /\ BufferFits(tails[i]) /\ ChunkFits(tails[i])
      BY <2>2 DEF TailsFit
    <3> QED BY <2>1, <2>4, <3>1 DEF TailsFit
  <2> QED BY <1>2, <2>1, <2>3, <2>5 DEF LogInv, LogTypeOK, OneTail, LogFits
<1>5. ASSUME NEW r \in Runs, RunEnds(r) \/ RunSubmitted(r)
      PROVE  LogInv'
  <2>1. rowStatus' \in [Runs -> Statuses]
    BY <1>2, <1>5 DEF RunEnds, RunSubmitted, Statuses
  <2> QED BY <1>1, <1>2, <1>5, <2>1 DEF RunEnds, RunSubmitted, logPanel
<1>6. ASSUME NEW r \in Runs, ClickRow(r)
      PROVE  LogInv'
  BY <1>2, <1>6, Selecting DEF ClickRow, platform
<1>7. ASSUME NEW r \in Runs, startRun(r)
      PROVE  LogInv'
  <2>1. rowStatus' \in [Runs -> Statuses]
    BY <1>2, <1>7 DEF startRun, Statuses
  <2>2. asked'.run = r
    BY <1>7 DEF startRun, Ask
  <2> QED BY <1>1, <1>7, <2>1, <2>2 DEF startRun, logPanel
<1>8. CASE StartAnswered
  <2>1. asked.run \in Runs /\ selectRun(asked.run) /\ UNCHANGED <<rowStatus, written>> /\ asked'.doing # "start"
    BY <1>2, <1>8 DEF StartAnswered, platform, Idle
  <2> QED BY <1>2, <2>1, Selecting
<1>9. CASE StartFails \/ CancelAnswered \/ Reconstructed
  BY <1>1, <1>2, <1>9 DEF StartFails, CancelAnswered, Reconstructed, Idle, platform, logPanel
<1>10. CASE cancel
  <2>1. rowStatus' \in [Runs -> Statuses]
    BY <1>2, <1>10 DEF cancel, Statuses
  <2> QED BY <1>1, <1>10, <2>1 DEF cancel, Ask, logPanel
<1>11. CASE reconstruct
  BY <1>1, <1>2, <1>11 DEF reconstruct, Ask, platform, logPanel
<1>12. ASSUME NEW s \in DOMAIN loads,
              ListSteps(s) \/ SignedOut(s) \/ ListRefused(s) \/ Unreachable(s)
       PROVE  LogInv'
  <2>1. UNCHANGED panelVars
    BY <1>12 DEF ListSteps, load, ListRead, Loaded, SignedOut, ListRefused, Unreachable, LoadFails
  <2> QED BY <1>1, <1>2, <2>1 DEF panelVars, platform, logPanel
<1>13. CASE RunsNext
  BY <1>13, <1>4, <1>5, <1>6, <1>7, <1>8, <1>9, <1>10, <1>11, <1>12,
     AskingKeepsLog, AnswerKeepsLog, ClosingKeepsLog DEF RunsNext, User, Answers, TailSteps
<1> QED BY <1>3, <1>13

LEMMA LogInit ==
  ASSUME RunsAssumption, RunsInit
  PROVE  LogInv
<1>1. LogPieces \in Nat
  BY DEF RunsAssumption
<1>2. LogTypeOK
  BY <1>1 DEF RunsInit, LogTypeOK, Idle, Statuses
<1>3. TailsFit /\ OneTail /\ LogFits
  BY DEF RunsInit, TailsFit, OneTail, LogFits
<1> QED BY <1>2, <1>3 DEF LogInv

LEMMA LogInvSuffices ==
  ASSUME LogInv
  PROVE  LogIsOfTheSelection
<1>1. SUFFICES ASSUME selectedId # NoRun, Garbage \notin ToSet(log), NEW i \in DOMAIN log
               PROVE  log[i][1] = selectedId /\ log[i][2] = log[1][2] + i - 1
  BY DEF LogIsOfTheSelection
<1>2. PICK last \in Int : EndsAt(log, selectedId, last)
  BY <1>1 DEF LogInv, LogFits, Marked
<1>3. /\ \A k \in 1 .. Len(log) : log[k] = <<selectedId, last - Len(log) + k>>
      /\ i \in 1 .. Len(log) /\ 1 \in 1 .. Len(log) /\ Len(log) \in Nat
  BY <1>1, <1>2 DEF EndsAt
<1>4. log[i] = <<selectedId, last - Len(log) + i>> /\ log[1] = <<selectedId, last - Len(log) + 1>>
  BY <1>3
<1> QED BY <1>3, <1>4

\* Whatever the user selects, starts and closes, and whichever tails of
\* earlier selections still await their answers, the log under the selected
\* run is that run's own, piece after piece, unless an answer was not a log.
THEOREM LogStaysOfTheSelection ==
  ASSUME RunsAssumption
  PROVE  RunsSpec => []LogIsOfTheSelection
<1>1. RunsInit => LogInv
  BY LogInit
<1>2. LogInv /\ [RunsNext]_runsVars => LogInv'
  BY LogStep
<1>3. LogInv => LogIsOfTheSelection
  BY LogInvSuffices
<1> QED BY <1>1, <1>2, <1>3, PTL DEF RunsSpec
-----------------------------------------------------------------------------
\* The studio page.

TickRecords == [of : {"sweep", "agents"}, eager : BOOLEAN, swept : T0Choices \cup {NoSweep}]

StudioShape ==
  /\ panel \in Panels /\ config \in T0Choices
  /\ runStatus \in {"idle", "running", "complete"} /\ runProgress \in Nat
  /\ sweepTimer \in T0Choices \cup {NoTimer}
  /\ agentCompleted \in Nat
  /\ agentRunStatus \in {"idle", "running", "paused", "blocked"}
  /\ agentTimer \in BOOLEAN
  /\ pending \in Seq(TickRecords)

StudioInv == StudioShape /\ RunningIsDriven

LEMMA NoTimerIsNoChoice ==
  ASSUME StudioAssumption
  PROVE  NoTimer \notin T0Choices
<1>1. ASSUME NoTimer \in T0Configs
      PROVE  FALSE
  <2>1. DOMAIN NoTimer = {"timer"}
    BY DEF NoTimer
  <2>2. "channels" \in DOMAIN NoTimer
    BY <1>1 DEF T0Configs
  <2> QED BY <2>1, <2>2
<1> QED BY <1>1 DEF StudioAssumption

LEMMA SafeCount == safeCount = 8
BY DEF safeCount, OpenNodes

\* A rendering works off all the ticks there are.
LEMMA TicksAreCounted ==
  ASSUME pending \in Seq(TickRecords), NEW which
  PROVE  /\ TicksOf(which) \subseteq 1 .. Len(pending)
         /\ IsFiniteSet(TicksOf(which)) /\ Cardinality(TicksOf(which)) \in Nat
<1>1. TicksOf(which) \subseteq 1 .. Len(pending) /\ Len(pending) \in Nat
  BY DEF TicksOf
<1>2. IsFiniteSet(1 .. Len(pending))
  BY <1>1, FS_Interval
<1> QED BY <1>1, <1>2, FS_Subset, FS_CardinalityType

\* A tick that is queued leaves those before it as they were.
LEMMA TickQueued ==
  ASSUME pending \in Seq(TickRecords), NEW tick \in TickRecords, pending' = Append(pending, tick),
         NEW which, NEW from \in Nat, NEW last \in Nat
  PROVE  /\ pending' \in Seq(TickRecords)
         /\ EndedAtOnce(which, from, last) => EndedAtOnce(which, from, last)'
         /\ EndedLate(which, from, last) => EndedLate(which, from, last)'
         /\ tick.of = which /\ tick.eager /\ from + 1 >= last => EndedAtOnce(which, from, last)'
<1>1. /\ pending' \in Seq(TickRecords) /\ Len(pending') = Len(pending) + 1 /\ Len(pending) \in Nat
      /\ \A i \in 1 .. Len(pending) : pending'[i] = pending[i]
      /\ pending'[Len(pending) + 1] = tick
      /\ DOMAIN pending = 1 .. Len(pending) /\ DOMAIN pending' = 1 .. Len(pending) + 1
  OBVIOUS
<1>2. TicksOf(which) \subseteq TicksOf(which)' /\ \A i \in TicksOf(which) : pending'[i] = pending[i]
  BY <1>1 DEF TicksOf
<1>3. tick.of = which => Len(pending) + 1 \in TicksOf(which)'
  BY <1>1 DEF TicksOf
<1>4. IsFiniteSet(TicksOf(which)')
  <2> DEFINE n == Len(pending) + 1
  <2>1. TicksOf(which)' \subseteq 1 .. n /\ n \in Int
    BY <1>1 DEF TicksOf
  <2> HIDE DEF n
  <2>2. IsFiniteSet(1 .. n)
    BY <2>1, FS_Interval
  <2> QED BY <2>1, <2>2, FS_Subset
<1>5. /\ Cardinality(TicksOf(which)) <= Cardinality(TicksOf(which)')
      /\ Cardinality(TicksOf(which)) \in Nat /\ Cardinality(TicksOf(which)') \in Nat
  BY <1>2, <1>4, FS_Subset, FS_CardinalityType
<1>6. EndedAtOnce(which, from, last) => EndedAtOnce(which, from, last)'
  BY <1>2 DEF EndedAtOnce
<1>7. EndedLate(which, from, last) => EndedLate(which, from, last)'
  <2> SUFFICES ASSUME EndedLate(which, from, last)
               PROVE  EndedLate(which, from, last)'
    OBVIOUS
  <2>1. PICK i \in TicksOf(which) : ~pending[i].eager
    BY DEF EndedLate
  <2>2. i \in TicksOf(which)' /\ ~pending'[i].eager
    BY <1>2, <2>1
  <2>3. from + Cardinality(TicksOf(which)') >= last
    BY <1>5 DEF EndedLate
  <2> QED BY <2>2, <2>3 DEF EndedLate
<1>8. tick.of = which /\ tick.eager /\ from + 1 >= last => EndedAtOnce(which, from, last)'
  BY <1>1, <1>3 DEF EndedAtOnce
<1> QED BY <1>1, <1>6, <1>7, <1>8

\* What a rendering must set, so that what runs afterwards is driven: a click
\* that starts a run also sets its interval, and one that does not, leaves it.
Sound(set) ==
  /\ "status" \in DOMAIN set => set["status"] \in {"idle", "complete"}
                                \/ (set["status"] = "running" /\ "sweepTimer" \in DOMAIN set)
  /\ "sweepTimer" \in DOMAIN set => set["sweepTimer"] \in T0Choices
  /\ "progress" \in DOMAIN set => set["progress"] \in Nat
  /\ "agents" \in DOMAIN set => set["agents"] \in {"idle", "paused"}
                                \/ (set["agents"] = "running" /\ "agentTimer" \in DOMAIN set /\ set["agentTimer"])
  /\ "agentTimer" \in DOMAIN set => "agents" \in DOMAIN set /\ set["agentTimer"] \in BOOLEAN
  /\ "completed" \in DOMAIN set => set["completed"] \in Nat

LEMMA SmallerOf ==
  ASSUME NEW a \in Nat, NEW b \in Nat
  PROVE  Min({a, b}) \in Nat
<1>1. \E m \in {a, b} : \A n \in {a, b} : m <= n
  OBVIOUS
<1> QED BY <1>1 DEF Min

LEMMA Rendered ==
  ASSUME StudioAssumption, StudioInv, NEW set, Sound(set), Render(set), panel' \in Panels, config' \in T0Choices
  PROVE  StudioInv'
<1>1. StudioShape /\ RunningIsDriven /\ NoTimer \notin T0Choices /\ SweepTicks \in Nat
  BY NoTimerIsNoChoice DEF StudioInv, StudioAssumption
<1>2. pending' = <<>> /\ pending' \in Seq(TickRecords)
  BY DEF Render
<1>3. Cardinality(TicksOf("sweep")) \in Nat /\ Cardinality(TicksOf("agents")) \in Nat
  BY <1>1, TicksAreCounted DEF StudioShape
<1>4. /\ runStatus' \in {"idle", "running", "complete"}
      /\ sweepTimer' \in T0Choices \cup {NoTimer}
      /\ runStatus' = "running" => sweepTimer' # NoTimer
  <2> DEFINE late == EndedLate("sweep", runProgress, SweepTicks)
             atOnce == EndedAtOnce("sweep", runProgress, SweepTicks)
  <2>1. /\ runStatus' = IF late THEN "complete"
                        ELSE SetBy(set, "status", IF late \/ atOnce THEN "complete" ELSE runStatus)
        /\ sweepTimer' = IF late THEN NoTimer ELSE SetBy(set, "sweepTimer", sweepTimer)
    BY DEF Render, RenderSweep
  <2>2. /\ runStatus \in {"idle", "running", "complete"} /\ sweepTimer \in T0Choices \cup {NoTimer}
        /\ runStatus = "running" => sweepTimer # NoTimer \/ late \/ atOnce
    BY <1>1 DEF StudioShape, RunningIsDriven
  <2> HIDE DEF late, atOnce
  <2> QED BY <1>1, <2>1, <2>2 DEF SetBy, Sound
<1>5. /\ agentRunStatus' \in {"idle", "running", "paused", "blocked"}
      /\ agentTimer' \in BOOLEAN
      /\ agentRunStatus' = "running" => agentTimer'
  <2> DEFINE late == EndedLate("agents", agentCompleted, safeCount)
             atOnce == EndedAtOnce("agents", agentCompleted, safeCount)
  <2>1. /\ agentRunStatus' = IF late THEN "blocked"
                             ELSE SetBy(set, "agents", IF late \/ atOnce THEN "blocked" ELSE agentRunStatus)
        /\ agentTimer' = (~late /\ SetBy(set, "agentTimer", agentTimer))
    BY DEF Render, RenderReplay
  <2>2. /\ agentRunStatus \in {"idle", "running", "paused", "blocked"} /\ agentTimer \in BOOLEAN
        /\ agentRunStatus = "running" => agentTimer \/ late \/ atOnce
    BY <1>1 DEF StudioShape, RunningIsDriven
  <2> HIDE DEF late, atOnce
  <2> QED BY <2>1, <2>2 DEF SetBy, Sound
<1>6. runProgress' \in Nat
  <2>1. runProgress' = SetBy(set, "progress", Min({SweepTicks, runProgress + Cardinality(TicksOf("sweep"))}))
    BY DEF Render, RenderSweep
  <2>2. Min({SweepTicks, runProgress + Cardinality(TicksOf("sweep"))}) \in Nat
    BY <1>1, <1>3, SmallerOf DEF StudioShape
  <2> QED BY <2>1, <2>2 DEF SetBy, Sound
<1>7. agentCompleted' \in Nat
  <2>1. agentCompleted' = SetBy(set, "completed", Min({safeCount, agentCompleted + Cardinality(TicksOf("agents"))}))
    BY DEF Render, RenderReplay
  <2>2. Min({safeCount, agentCompleted + Cardinality(TicksOf("agents"))}) \in Nat
    BY <1>1, <1>3, SmallerOf, SafeCount DEF StudioShape
  <2> QED BY <2>1, <2>2 DEF SetBy, Sound
<1> QED BY <1>2, <1>4, <1>5, <1>6, <1>7 DEF StudioInv, StudioShape, RunningIsDriven

LEMMA Fired ==
  ASSUME StudioAssumption, StudioInv, SweepTick \/ AgentTick
  PROVE  StudioInv'
<1>1. StudioShape /\ RunningIsDriven /\ SweepTicks \in Nat /\ safeCount \in Nat
  BY SafeCount DEF StudioInv, StudioAssumption
<1>2. UNCHANGED <<panel, runStatus, runProgress, agentCompleted, agentRunStatus, config>>
  BY DEF SweepTick, AgentTick, Fires
<1>3. ASSUME NEW which \in {"sweep", "agents"}, NEW eager \in BOOLEAN, NEW swept \in T0Choices \cup {NoSweep},
             NEW from \in Nat, NEW last \in Nat,
             which = "sweep" => from = runProgress /\ last = SweepTicks,
             which = "agents" => from = agentCompleted /\ last = safeCount,
             pending' = Append(pending, [of |-> which, eager |-> eager, swept |-> swept]),
             sweepTimer' = IF which = "sweep" /\ eager /\ from + 1 >= last THEN NoTimer ELSE sweepTimer,
             agentTimer' = (agentTimer /\ ~(which = "agents" /\ eager /\ from + 1 >= last))
      PROVE  StudioInv'
  <2> DEFINE tick == [of |-> which, eager |-> eager, swept |-> swept]
  <2>1. tick \in TickRecords /\ tick.of = which /\ tick.eager = eager
    BY DEF TickRecords
  <2> HIDE DEF tick
  <2>2. pending \in Seq(TickRecords) /\ pending' = Append(pending, tick)
    BY <1>1, <1>3 DEF StudioShape, tick
  <2>3. runProgress \in Nat /\ agentCompleted \in Nat
    BY <1>1 DEF StudioShape
  <2>4. /\ pending' \in Seq(TickRecords)
        /\ EndedAtOnce("sweep", runProgress, SweepTicks) => EndedAtOnce("sweep", runProgress, SweepTicks)'
        /\ EndedLate("sweep", runProgress, SweepTicks) => EndedLate("sweep", runProgress, SweepTicks)'
        /\ which = "sweep" /\ eager /\ from + 1 >= last => EndedAtOnce("sweep", runProgress, SweepTicks)'
    <3>1. \A f, l \in Nat :
            /\ EndedAtOnce("sweep", f, l) => EndedAtOnce("sweep", f, l)'
            /\ EndedLate("sweep", f, l) => EndedLate("sweep", f, l)'
            /\ tick.of = "sweep" /\ tick.eager /\ f + 1 >= l => EndedAtOnce("sweep", f, l)'
      BY <2>1, <2>2, TickQueued
    <3>2. pending' \in Seq(TickRecords)
      BY <2>1, <2>2
    <3> QED BY <1>1, <1>2, <1>3, <2>1, <2>3, <3>1, <3>2 DEF EndedAtOnce, EndedLate, TicksOf
  <2>5. /\ EndedAtOnce("agents", agentCompleted, safeCount) => EndedAtOnce("agents", agentCompleted, safeCount)'
        /\ EndedLate("agents", agentCompleted, safeCount) => EndedLate("agents", agentCompleted, safeCount)'
        /\ which = "agents" /\ eager /\ from + 1 >= last => EndedAtOnce("agents", agentCompleted, safeCount)'
    <3>1. \A f, l \in Nat :
            /\ EndedAtOnce("agents", f, l) => EndedAtOnce("agents", f, l)'
            /\ EndedLate("agents", f, l) => EndedLate("agents", f, l)'
            /\ tick.of = "agents" /\ tick.eager /\ f + 1 >= l => EndedAtOnce("agents", f, l)'
      BY <2>1, <2>2, TickQueued
    <3> QED BY <1>1, <1>2, <1>3, <2>1, <2>3, <3>1 DEF EndedAtOnce, EndedLate, TicksOf
  <2>6. RunningIsDriven'
    BY <1>1, <1>2, <1>3, <2>4, <2>5 DEF RunningIsDriven
  <2>7. StudioShape'
    BY <1>1, <1>2, <1>3, <2>4 DEF StudioShape
  <2> QED BY <2>6, <2>7 DEF StudioInv
<1>4. CASE SweepTick
  <2>1. sweepTimer \in T0Choices
    BY <1>1, <1>4 DEF SweepTick, Fires, StudioShape
  <2> QED BY <1>1, <1>3, <1>4, <2>1 DEF SweepTick, Fires, StudioShape
<1>5. CASE AgentTick
  BY <1>1, <1>3, <1>5 DEF AgentTick, Fires, StudioShape
<1> QED BY <1>4, <1>5

LEMMA StudioStep ==
  ASSUME StudioAssumption, StudioInv, [StudioNext]_studioVars
  PROVE  StudioInv'
<1>1. panel \in Panels /\ config \in T0Choices
  BY DEF StudioInv, StudioShape
<1>2. Sound(<<>>)
  <2>1. DOMAIN <<>> = {}
    OBVIOUS
  <2> QED BY <2>1 DEF Sound
<1>3. CASE SweepTick \/ AgentTick
  BY <1>3, Fired
<1>4. CASE RenderTicks \/ SetView
  BY <1>1, <1>2, <1>4, Rendered DEF RenderTicks, SetView
<1>5. CASE StartSweep
  <2> DEFINE set == [status |-> "running", progress |-> 0, sweep |-> NoSweep, sweepTimer |-> config, event |-> TRUE]
  <2>1. Sound(set)
    BY <1>1 DEF Sound
  <2> HIDE DEF set
  <2>2. Render(set) /\ panel' = panel /\ config' = config
    BY <1>5 DEF StartSweep, StudioClick, set
  <2> QED BY <1>1, <2>1, <2>2, Rendered
<1>6. CASE UpdateConfig
  <2> DEFINE set == [status |-> "idle", progress |-> 0]
  <2>1. Sound(set)
    BY DEF Sound
  <2> HIDE DEF set
  <2>2. Render(set) /\ panel' = panel /\ config' \in T0Choices
    BY <1>6 DEF UpdateConfig, StudioClick, set
  <2> QED BY <1>1, <2>1, <2>2, Rendered
<1>7. CASE ResetConfig
  <2>1. T0Default \in T0Choices
    BY DEF StudioAssumption
  <2> QED BY <1>1, <1>2, <1>7, <2>1, Rendered DEF ResetConfig, StudioClick
<1>8. CASE StartAgentReplay
  <2> DEFINE again == [agents |-> "running", agentTimer |-> TRUE, agentEvent |-> TRUE, completed |-> 0]
             on == [agents |-> "running", agentTimer |-> TRUE, agentEvent |-> TRUE]
  <2>1. Sound(again) /\ Sound(on)
    BY DEF Sound
  <2> HIDE DEF again, on
  <2>2. (Render(again) \/ Render(on)) /\ panel' = panel /\ config' = config
    BY <1>8 DEF StartAgentReplay, StudioClick, again, on
  <2> QED BY <1>1, <2>1, <2>2, Rendered
<1>9. CASE PauseAgentReplay
  <2> DEFINE set == [agents |-> "paused", agentTimer |-> FALSE, agentEvent |-> FALSE]
  <2>1. Sound(set)
    BY DEF Sound
  <2> HIDE DEF set
  <2>2. Render(set) /\ panel' = panel /\ config' = config
    BY <1>9 DEF PauseAgentReplay, StudioClick, set
  <2> QED BY <1>1, <2>1, <2>2, Rendered
<1>10. CASE ResetAgentReplay
  <2> DEFINE set == [agents |-> "idle", agentTimer |-> FALSE, agentEvent |-> FALSE, completed |-> 0]
  <2>1. Sound(set)
    BY DEF Sound
  <2> HIDE DEF set
  <2>2. Render(set) /\ panel' = panel /\ config' = config
    BY <1>10 DEF ResetAgentReplay, StudioClick, set
  <2> QED BY <1>1, <2>1, <2>2, Rendered
<1>11. CASE UpdateT1 \/ UpdateX1 \/ ToggleOverlay \/ ChooseStep \/ AdvanceScope
  <2>1. Render(<<>>) /\ panel' = panel /\ config' = config
    BY <1>11 DEF UpdateT1, UpdateX1, ToggleOverlay, ChooseStep, AdvanceScope, Edit
  <2> QED BY <1>1, <1>2, <2>1, Rendered
<1>12. CASE UNCHANGED studioVars
  BY <1>12 DEF studioVars, sweepVars, replayVars, StudioInv, StudioShape, RunningIsDriven, EndedAtOnce, EndedLate, TicksOf
<1> QED BY <1>3, <1>4, <1>5, <1>6, <1>7, <1>8, <1>9, <1>10, <1>11, <1>12 DEF StudioNext

LEMMA StudioStart ==
  ASSUME StudioAssumption, StudioInit
  PROVE  StudioInv
<1>1. pending \in Seq(TickRecords)
  BY EmptySeq DEF StudioInit
<1>2. panel \in Panels /\ config \in T0Choices /\ sweepTimer \in T0Choices \cup {NoTimer}
  BY DEF StudioAssumption, StudioInit, Panels
<1>3. RunningIsDriven
  BY DEF StudioInit, RunningIsDriven
<1> QED BY <1>1, <1>2, <1>3 DEF StudioInit, StudioInv, StudioShape

\* A sweep or a replay that the studio shows as running has an interval that
\* will end it or the tick that ends it waiting, whenever React runs the
\* updates and whatever the visitor clicks in between.
THEOREM RunsAreDriven ==
  ASSUME StudioAssumption
  PROVE  StudioSpec => []RunningIsDriven
<1>1. StudioInit => StudioInv
  BY StudioStart
<1>2. StudioInv /\ [StudioNext]_studioVars => StudioInv'
  BY StudioStep
<1>3. StudioInv => RunningIsDriven
  BY DEF StudioInv
<1> QED BY <1>1, <1>2, <1>3, PTL DEF StudioSpec
----------------------------------------------------------------------------
\* What the T0 page advises.

LEMMA ClampedIsAnInteger ==
  ASSUME NEW n \in Int, NEW low \in Int, NEW high \in Int
  PROVE  Clamped(n, low, high) \in Int
<1>1. ASSUME NEW a \in Int, NEW b \in Int
      PROVE  Max({a, b}) \in {a, b} /\ Min({a, b}) \in {a, b}
  <2>1. /\ \E x \in {a, b} : \A y \in {a, b} : x >= y
        /\ \E x \in {a, b} : \A y \in {a, b} : x <= y
    BY <1>1
  <2> QED BY <2>1 DEF Max, Min
<1>2. Max({low, n}) \in Int
  BY <1>1
<1> QED BY <1>1, <1>2 DEF Clamped

Measured(c) == {c.streaming, c.random, c.phyEnergy, rawBandwidth(c)} \subseteq Int

LEMMA FieldsAreMeasured ==
  ASSUME NEW c, {c.channels, c.channelWidthBits, c.laneRate} \subseteq Nat,
         {c.streaming, c.random, c.phyEnergy} \subseteq Int
  PROVE  Measured(c)
<1>1. c.channels * c.channelWidthBits \in Nat
  OBVIOUS
<1>2. (c.channels * c.channelWidthBits) * c.laneRate \in Nat
  BY <1>1
<1>3. rawBandwidth(c) \in Int
  BY <1>2 DEF rawBandwidth, payloadLanes
<1> QED BY <1>3 DEF Measured

LEMMA CandidatesAreMeasured ==
  ASSUME NEW c \in T0Configs, NEW d \in {c} \cup runT0Sweep(c)
  PROVE  Measured(d)
<1>1. {c.channels, c.channelWidthBits, c.laneRate, c.streaming, c.random, c.phyEnergy} \subseteq Nat
  BY DEF T0Configs
<1>2. ASSUME NEW rate \in {4, 8, 10, 12}, NEW sram \in {8, 16, 32}
      PROVE  Measured(Candidate(c, rate, sram))
  <2> DEFINE lift == sramLift(sram)
             penalty == ratePenalty(rate)
             stream == c.streaming - penalty + lift
             random == c.random - (penalty * 8) \div 10 + (lift * 13) \div 10
             e == Candidate(c, rate, sram)
  <2>1. penalty \in Int /\ lift \in Int
    BY DEF ratePenalty, sramLift
  <2> HIDE DEF lift, penalty
  <2>2. stream \in Int /\ random \in Int
    BY <1>1, <2>1
  <2>3. /\ e.channels = c.channels /\ e.channelWidthBits = c.channelWidthBits /\ e.laneRate = rate
        /\ e.phyEnergy = c.phyEnergy
        /\ e.streaming = Clamped(stream, 5000, 9600) /\ e.random = Clamped(random, 3500, 8800)
    BY DEF Candidate, T0Configs, lift, penalty
  <2> HIDE DEF stream, random, e
  <2>4. Clamped(stream, 5000, 9600) \in Int /\ Clamped(random, 3500, 8800) \in Int
    <3>1. {5000, 9600, 3500, 8800} \subseteq Int
      OBVIOUS
    <3> QED BY <2>2, <3>1, ClampedIsAnInteger
  <2>5. Measured(e)
    BY <1>1, <2>3, <2>4, FieldsAreMeasured
  <2> QED BY <2>5 DEF e
<1>3. Measured(c)
  BY <1>1, FieldsAreMeasured
<1> QED BY <1>2, <1>3 DEF runT0Sweep

LEMMA GatesAreFinite ==
  ASSUME NEW c
  PROVE  IsFiniteSet(DOMAIN T0Gates(c)) /\ DOMAIN T0Gates(c) # {}
<1> DEFINE ids == <<"RAW", "STREAM", "RANDOM", "ENERGY", "LATENCY", "THERMAL", "BOND",
                    "GATHER", "ECC", "REPAIR", "LIVENESS", "REFRESH">>
           set == {"RAW", "STREAM", "RANDOM", "ENERGY", "LATENCY", "THERMAL", "BOND",
                   "GATHER", "ECC", "REPAIR", "LIVENESS", "REFRESH"}
<1>1. DOMAIN T0Gates(c) = set
  BY DEF T0Gates
<1>2. ids \in Surjection(1 .. 12, set)
  BY DEF Surjection
<1> HIDE DEF ids, set
<1>3. IsFiniteSet(1 .. 12)
  <2>1. 1 \in Int /\ 12 \in Int
    OBVIOUS
  <2> QED BY <2>1, FS_Interval
<1>4. IsFiniteSet(set)
  BY <1>2, <1>3, FS_Surjection
<1>5. set # {}
  BY DEF set
<1> QED BY <1>1, <1>4, <1>5

\* No gate is ever passed.
LEMMA NothingPasses ==
  ASSUME NEW c, NEW id \in DOMAIN T0Gates(c)
  PROVE  T0Gates(c)[id] # "pass"
BY DEF T0Gates, gate

LEMMA EntryIsOnHold ==
  ASSUME NEW c, NEW inputs
  PROVE  entryDecision(T0Gates(c)) = "hold" /\ foundryDecision(T0Gates(c), inputs) = "hold"
<1>1. {id \in DOMAIN T0Gates(c) : T0Gates(c)[id] = "pass"} = {}
  BY NothingPasses
<1>2. CountOf(T0Gates(c), "pass") = 0
  BY <1>1, FS_EmptySet DEF CountOf
<1>3. Cardinality(DOMAIN T0Gates(c)) # 0
  BY GatesAreFinite, FS_EmptySet
<1>4. ~readyToFabricate(T0Gates(c), inputs)
  BY GatesAreFinite, NothingPasses DEF readyToFabricate
<1> QED BY <1>2, <1>3, <1>4 DEF entryDecision, foundryDecision

LEMMA RisksAreFailures ==
  ASSUME NEW c, Measured(c), NEW id \in {"RAW", "STREAM", "RANDOM", "ENERGY"}
  PROVE  <<"risk", id>> \in recommendations(c) <=> T0Gates(c)[id] = "fail"
<1>1. /\ T0Gates(c)["RAW"] = gate(rawBandwidth(c) > 1000)
      /\ T0Gates(c)["STREAM"] = gate(c.streaming >= 8500)
      /\ T0Gates(c)["RANDOM"] = gate(c.random >= 6500)
      /\ T0Gates(c)["ENERGY"] = gate(c.phyEnergy < 20)
  BY DEF T0Gates
<1>2. /\ <<"risk", "RAW">> \in recommendations(c) <=> rawBandwidth(c) <= 1000
      /\ <<"risk", "STREAM">> \in recommendations(c) <=> c.streaming < 8500
      /\ <<"risk", "RANDOM">> \in recommendations(c) <=> c.random < 6500
      /\ <<"risk", "ENERGY">> \in recommendations(c) <=> c.phyEnergy >= 20
  BY DEF recommendations, Advice
<1>3. /\ rawBandwidth(c) <= 1000 <=> ~(rawBandwidth(c) > 1000)
      /\ c.streaming < 8500 <=> ~(c.streaming >= 8500)
      /\ c.random < 6500 <=> ~(c.random >= 6500)
      /\ c.phyEnergy >= 20 <=> ~(c.phyEnergy < 20)
  BY DEF Measured
<1> QED BY <1>1, <1>2, <1>3 DEF gate

\* Whatever is set on the page, a risk is named for exactly the bounds that
\* the configuration, or a candidate of its sweep, misses; and no model
\* result opens the way to T1 or to fabrication.
THEOREM AdviceIsWhatTheGatesSay ==
  ASSUME StudioAssumption
  PROVE  StudioSpec => []AdviceMatchesGates
<1>1. StudioInit => StudioInv
  BY StudioStart
<1>2. StudioInv /\ [StudioNext]_studioVars => StudioInv'
  BY StudioStep
<1>3. StudioInv => AdviceMatchesGates
  <2> SUFFICES ASSUME StudioInv, NEW c \in {config} \cup runT0Sweep(config)
               PROVE  /\ \A id \in {"RAW", "STREAM", "RANDOM", "ENERGY"} :
                           <<"risk", id>> \in recommendations(c) <=> T0Gates(c)[id] = "fail"
                      /\ entryDecision(T0Gates(c)) = "hold"
                      /\ foundryDecision(T0Gates(c), [id \in DOMAIN foundryInputs |-> "ready"]) = "hold"
                      /\ foundryDecision(T0Gates(c), foundryInputs) = "hold"
    BY DEF AdviceMatchesGates
  <2>1. config \in T0Configs
    BY DEF StudioInv, StudioShape, StudioAssumption
  <2>2. Measured(c)
    BY <2>1, CandidatesAreMeasured
  <2> QED BY <2>2, RisksAreFailures, EntryIsOnHold
<1> QED BY <1>1, <1>2, <1>3, PTL DEF StudioSpec
=============================================================================
