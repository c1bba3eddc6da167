------------------------------ MODULE UiAudit -------------------------------
(***************************************************************************)
(* The browser's audit client (lib/ui-audit.ts) and the ingestion endpoint *)
(* (platform api/ui_events.py), with the network between them.             *)
(*                                                                         *)
(* The client runs on one thread: record, a timer, pagehide, and flush up  *)
(* to its await are steps that nothing interrupts; the rest of flush is a  *)
(* step of its own when the answer is there.  The server stores a batch in *)
(* one transaction under the append lock (AuditLog).  The clock is left    *)
(* out: an armed timer may fire, a blocked client may become unblocked.    *)
(***************************************************************************)
EXTENDS Integers, Sequences, FiniteSets, SequencesExt

CONSTANTS
  MaxEvents,     \* bound: events recorded; the n-th event is n
  MaxBatch,      \* maxBatch
  MaxQueue,      \* maxQueue
  Refused,       \* events the server rejects (unknown feature, too large, ...)
  MaxFailures    \* bound: requests that fail or are refused

ASSUME ClientBounds ==
  /\ MaxEvents \in Nat /\ MaxFailures \in Nat /\ MaxBatch \in Nat \ {0}
  /\ MaxQueue \in Nat \ {0} /\ Refused \subseteq 1..MaxEvents

VARIABLES
  queue,      \* events to send, oldest first
  counts,     \* the client's counters
  status,     \* of each event, as the Activity workspace shows it
  armed,      \* a timer is scheduled
  blocked,    \* now() < blockedUntil
  request,    \* the fetch being awaited: its batch and where it is
  strays,     \* batches on their way whose answer nobody awaits
  stored,     \* the events in the audit log, in order
  hidden,     \* the page has been hidden, and beacons sent
  failures

serverVars == <<strays, stored>>
vars == <<queue, counts, status, armed, blocked, request, serverVars, hidden, failures>>

Events == 1..MaxEvents
NoRequest == [at |-> "none", batch |-> <<>>]
Flushing == request.at # "none"

Take(q) == SubSeq(q, 1, IF Len(q) < MaxBatch THEN Len(q) ELSE MaxBatch)
DropFirst(q, n) == SubSeq(q, n + 1, Len(q))

Init ==
  /\ queue = <<>>
  /\ counts = [recorded |-> 0, sent |-> 0, rejected |-> 0, dropped |-> 0]
  /\ status = [e \in Events |-> "unrecorded"]
  /\ armed = FALSE
  /\ blocked = FALSE
  /\ request = NoRequest
  /\ strays = {}
  /\ stored = <<>>
  /\ hidden = FALSE
  /\ failures = 0

-----------------------------------------------------------------------------
(* Client *)

\* Mistake: the batch is not limited.
FlushWholeQueue(q, isBlocked, timer) ==
  \/ /\ Flushing \/ q = <<>> \/ isBlocked
     /\ armed' = (timer \/ isBlocked)
     /\ UNCHANGED request
  \/ /\ ~Flushing /\ q # <<>> /\ ~isBlocked
     /\ armed' = timer
     /\ request' = [at |-> "travelling", batch |-> q]

\* flush() on queue q up to its await, with the block and the timer as given.
Flush(q, isBlocked, timer) ==
  \/ /\ Flushing \/ q = <<>>
     /\ armed' = timer
     /\ UNCHANGED request
  \/ /\ ~Flushing /\ q # <<>> /\ isBlocked
     /\ armed' = TRUE
     /\ UNCHANGED request
  \/ /\ ~Flushing /\ q # <<>> /\ ~isBlocked
     /\ armed' = timer
     /\ request' = [at |-> "travelling", batch |-> Take(q)]

Record ==
  /\ counts.recorded < MaxEvents
  /\ LET e == counts.recorded + 1
         q == Append(queue, e)
         excess == IF Len(q) > MaxQueue THEN Len(q) - MaxQueue ELSE 0
     IN  /\ counts' = [counts EXCEPT !.recorded = e, !.dropped = @ + excess]
         /\ status' = [status EXCEPT ![e] = "queued"]
         /\ queue' = DropFirst(q, excess)
         /\ \/ Len(queue') >= MaxBatch /\ Flush(queue', blocked, armed)
            \/ Len(queue') < MaxBatch /\ armed' = TRUE /\ UNCHANGED request
  /\ UNCHANGED <<blocked, serverVars, hidden, failures>>

Timer ==
  /\ armed
  /\ Flush(queue, blocked, FALSE)
  /\ UNCHANGED <<queue, counts, status, blocked, serverVars, hidden, failures>>

\* The backoff time has passed.
Unblock ==
  /\ blocked
  /\ blocked' = FALSE
  /\ UNCHANGED <<queue, counts, status, armed, request, serverVars, hidden, failures>>

\* retryNow, or flush when the page becomes invisible.
RetryNow ==
  /\ blocked' = FALSE
  /\ Flush(queue, FALSE, armed)
  /\ UNCHANGED <<queue, counts, status, serverVars, hidden, failures>>

\* Mistake: success does not schedule the rest of the queue.
AnsweredUnarmed ==
  /\ request.at = "accepted"
  /\ LET good == {e \in ToSet(request.batch) : e \notin Refused}
         bad == ToSet(request.batch) \ good
     IN  /\ status' = [e \in Events |-> IF e \in good THEN "sent"
                                        ELSE IF e \in bad THEN "rejected" ELSE status[e]]
         /\ counts' = [counts EXCEPT !.sent = @ + Cardinality(good),
                                     !.rejected = @ + Cardinality(bad)]
  /\ queue' = DropFirst(queue, Len(request.batch))
  /\ request' = NoRequest
  /\ UNCHANGED <<armed, blocked, serverVars, hidden, failures>>

\* Mistake: a full batch is cut off the queue, however short the one sent was.
AnsweredCutsFullBatch ==
  /\ request.at = "accepted"
  /\ LET good == {e \in ToSet(request.batch) : e \notin Refused}
         bad == ToSet(request.batch) \ good
     IN  /\ status' = [e \in Events |-> IF e \in good THEN "sent"
                                        ELSE IF e \in bad THEN "rejected" ELSE status[e]]
         /\ counts' = [counts EXCEPT !.sent = @ + Cardinality(good),
                                     !.rejected = @ + Cardinality(bad)]
  /\ queue' = DropFirst(queue, MaxBatch)
  /\ armed' = (armed \/ queue' # <<>>)
  /\ request' = NoRequest
  /\ UNCHANGED <<blocked, serverVars, hidden, failures>>

\* The answer lists the rejections; the batch's length is cut off the queue.
Answered ==
  /\ request.at = "accepted"
  /\ LET good == {e \in ToSet(request.batch) : e \notin Refused}
         bad == ToSet(request.batch) \ good
     IN  /\ status' = [e \in Events |-> IF e \in good THEN "sent"
                                        ELSE IF e \in bad THEN "rejected" ELSE status[e]]
         /\ counts' = [counts EXCEPT !.sent = @ + Cardinality(good),
                                     !.rejected = @ + Cardinality(bad)]
  /\ queue' = DropFirst(queue, Len(request.batch))
  /\ armed' = (armed \/ queue' # <<>>)
  /\ request' = NoRequest
  /\ UNCHANGED <<blocked, serverVars, hidden, failures>>

BackOff ==
  /\ blocked' = TRUE
  /\ armed' = TRUE
  /\ request' = NoRequest
  /\ UNCHANGED <<queue, counts, status>>

\* 401, 413, 429 or 5xx.
RefusalSeen ==
  /\ request.at = "refused"
  /\ BackOff
  /\ UNCHANGED <<serverVars, hidden, failures>>

\* Mistake: a failed request's events are taken as sent.
NetworkErrorSent ==
  /\ request.at \in {"travelling", "accepted"}
  /\ failures < MaxFailures
  /\ failures' = failures + 1
  /\ strays' = IF request.at = "travelling" THEN strays \cup {request.batch} ELSE strays
  /\ status' = [e \in Events |-> IF e \in ToSet(request.batch) THEN "sent" ELSE status[e]]
  /\ counts' = [counts EXCEPT !.sent = @ + Len(request.batch)]
  /\ queue' = DropFirst(queue, Len(request.batch))
  /\ request' = NoRequest
  /\ UNCHANGED <<armed, blocked, stored, hidden>>

\* fetch or response.json() throws.  The request may still arrive, or its
\* batch is stored already and only the answer was lost.
NetworkError ==
  /\ request.at \in {"travelling", "accepted"}
  /\ failures < MaxFailures
  /\ failures' = failures + 1
  /\ strays' = IF request.at = "travelling" THEN strays \cup {request.batch} ELSE strays
  /\ BackOff
  /\ UNCHANGED <<stored, hidden>>

\* The end-of-session event, and the whole queue in beacons, until one is not
\* accepted by the browser.  k is the number of events that went out.
PageHide ==
  /\ counts.recorded < MaxEvents
  /\ LET e == counts.recorded + 1
         q == Append(queue, e)
         excess == IF Len(q) > MaxQueue THEN Len(q) - MaxQueue ELSE 0
         all == DropFirst(q, excess)
     IN  /\ \/ Len(all) >= MaxBatch /\ Flush(all, blocked, armed)
            \/ Len(all) < MaxBatch /\ armed' = TRUE /\ UNCHANGED request
         /\ \E k \in {i \in 0..Len(all) : i = Len(all) \/ i % MaxBatch = 0} :
              LET gone == SubSeq(all, 1, k) IN
              /\ queue' = DropFirst(all, k)
              /\ strays' = strays \cup
                   {SubSeq(gone, i, IF i + MaxBatch - 1 < k THEN i + MaxBatch - 1 ELSE k) :
                      i \in {j \in 1..k : (j - 1) % MaxBatch = 0}}
              /\ status' = [x \in Events |-> IF x \in ToSet(gone) THEN "sent"
                                             ELSE IF x = e THEN "queued" ELSE status[x]]
              /\ counts' = [counts EXCEPT !.recorded = e, !.dropped = @ + excess, !.sent = @ + k]
  /\ hidden' = TRUE
  /\ UNCHANGED <<blocked, stored, failures>>

-----------------------------------------------------------------------------
(* Server *)

\* Writing the events `news` of a batch, in the batch's order.
Write(batch, news) ==
  \E rows \in [1 .. Cardinality(news) -> news] :
    /\ ToSet(rows) = news
    /\ \A i, j \in 1 .. Cardinality(news) : i < j =>
         \E a, b \in DOMAIN batch : a < b /\ batch[a] = rows[i] /\ batch[b] = rows[j]
    /\ stored' = stored \o rows

\* Mistake: a retried event is stored again.
StoreAgain(batch) == Write(batch, ToSet(batch) \ Refused)

\* _ingest: what _prepare rejects is left out, what is stored is skipped.
Store(batch) == Write(batch, {e \in ToSet(batch) \ Refused : ~Contains(stored, e)})

Ingest ==
  /\ request.at = "travelling"
  /\ Store(request.batch)
  /\ request' = [request EXCEPT !.at = "accepted"]
  /\ UNCHANGED <<queue, counts, status, armed, blocked, strays, hidden, failures>>

Refuse ==
  /\ request.at = "travelling"
  /\ failures < MaxFailures
  /\ failures' = failures + 1
  /\ request' = [request EXCEPT !.at = "refused"]
  /\ UNCHANGED <<queue, counts, status, armed, blocked, serverVars, hidden>>

\* A stray request arrives late, is refused, or never arrives.
StrayEnds(batch) ==
  /\ strays' = strays \ {batch}
  /\ \/ Store(batch)
     \/ UNCHANGED stored
  /\ UNCHANGED <<queue, counts, status, armed, blocked, request, hidden, failures>>

-----------------------------------------------------------------------------

Client == Record \/ RetryNow \/ PageHide \/ Timer \/ Unblock \/ Answered \/ RefusalSeen
Network == NetworkError \/ Ingest \/ Refuse \/ \E b \in strays : StrayEnds(b)

Next == Client \/ Network

Spec == Init /\ [][Next]_vars

\* Timers fire, time passes, and a request gets an answer one way or another.
Fairness ==
  /\ WF_vars(Timer) /\ WF_vars(Unblock)
  /\ WF_vars(Answered \/ RefusalSeen)
  /\ WF_vars(Ingest)

LiveSpec == Spec /\ Fairness

-----------------------------------------------------------------------------
(* Properties *)

TypeOK ==
  /\ ToSet(queue) \subseteq Events /\ Len(queue) <= MaxQueue
  /\ counts \in [{"recorded", "sent", "rejected", "dropped"} -> Nat]
  /\ status \in [Events -> {"unrecorded", "queued", "sent", "rejected"}]
  /\ armed \in BOOLEAN /\ blocked \in BOOLEAN
  /\ request.at \in {"none", "travelling", "accepted", "refused"}
  /\ Len(request.batch) <= MaxBatch
  /\ \A b \in strays : Len(b) \in 1..MaxBatch
  /\ ToSet(stored) \subseteq Events
  /\ hidden \in BOOLEAN
  /\ failures \in 0..MaxFailures

\* Whatever is retried, repeated by a beacon or delivered late, an event is in
\* the audit log once (ui_events.py:6), and never if the server rejects it.
StoredOnce ==
  /\ \A i, j \in DOMAIN stored : stored[i] = stored[j] => i = j
  /\ ToSet(stored) \cap Refused = {}

\* An event shown as sent is in the audit log.  Beacons cannot promise that.
SentMeansStored ==
  ~hidden => \A e \in Events : status[e] = "sent" => Contains(stored, e)

\* A session's events reach the log in the order in which they were recorded,
\* retries and late requests included, unless the queue overflowed or beacons
\* were sent.
StoredInOrder ==
  ~hidden /\ counts.dropped = 0 =>
    \A i, j \in DOMAIN stored : i < j => stored[i] < stored[j]

\* Something will call flush for the events that wait.
NeverStranded == queue # <<>> => Flushing \/ armed

\* Until the page is hidden, every event that left the queue without being
\* shown as sent or rejected is covered by the count of dropped events.
Lost == {e \in Events : status[e] = "queued" /\ ~Contains(queue, e)}
LossesAreCounted == ~hidden => Cardinality(Lost) <= counts.dropped

\* Every recorded event ends in the audit log once and in order, is shown as
\* rejected, or is counted as dropped; and none waits for a flush that nobody
\* will call.
EventsAreAccounted ==
  /\ TypeOK
  /\ StoredOnce /\ StoredInOrder /\ SentMeansStored
  /\ LossesAreCounted /\ NeverStranded

\* "Nothing is dropped silently" (ui-audit.ts:5); "drops are counted and shown,
\* not silent" (platform/README.md:161).
NothingDroppedSilently == Cardinality(Lost) <= counts.dropped

\* In the end every recorded event is in the audit log or shown as rejected,
\* unless the queue overflowed or beacons were sent.
Delivered ==
  \A e \in Events : status[e] \in {"queued", "sent"} =>
    Contains(stored, e) \/ counts.dropped > 0 \/ hidden
=============================================================================
