------------------------------ MODULE AuditLog ------------------------------
(***************************************************************************)
(* The hash-chained audit table: transactions that append to it            *)
(* (audit/writer.py, audit/guard.py, db.py), and verifications that read   *)
(* it in batches and anchor its head outside the database                  *)
(* (audit/verifier.py, operations.py).                                     *)
(*                                                                         *)
(* Postgres runs READ COMMITTED: every statement sees the rows committed   *)
(* before it and those of its own transaction, so each statement is a      *)
(* step.  A hash is modelled by what it is computed from, which makes it   *)
(* free of collisions.                                                     *)
(***************************************************************************)
EXTENDS Integers, Sequences, FiniteSets, SequencesExt

CONSTANTS
  Txns,            \* transactions; each is used once
  Verifiers,       \* verifications; each is used once
  ServerIds,       \* event ids drawn by the server (uuid4)
  ClientBatches,   \* batches of browser events: sequences of client event ids
  Nobody,          \* the append lock is free
  BatchRows,       \* rows the verifier reads per statement (BATCH)
  MaxAppends,      \* bound: append calls per transaction
  MaxAlterations   \* bound: changes made around the append-only triggers

ASSUME NobodyAssumption == Nobody \notin Txns
ASSUME BatchesAssumption == \A b \in ClientBatches : b \in Seq(ToSet(b))
ASSUME AuditBounds ==
  BatchRows \in Nat \ {0} /\ MaxAppends \in Nat /\ MaxAlterations \in Nat

VARIABLES
  table,         \* committed rows of audit_events
  changes,       \* transactions whose domain writes are committed
  lock,          \* holder of the advisory append lock
  at,            \* where each transaction is
  batch,         \* the events of the append call in progress
  skip,          \* whether it drops events already stored
  head,          \* the head it read: [seq, hash]
  pending,       \* rows inserted and not yet committed, in order
  domainWrites,  \* the guard's count of domain writes, as a Boolean
  appends,       \* append calls made
  check,         \* the verifications
  anchors,       \* the anchor file
  alterations    \* rows changed around the triggers so far

txnVars == <<lock, at, batch, skip, head, pending, domainWrites, appends>>
vars == <<table, changes, txnVars, check, anchors, alterations>>

-----------------------------------------------------------------------------
(* Rows *)

Genesis == <<>>
ClientIds == UNION {ToSet(b) : b \in ClientBatches}
Events == ServerIds \cup ClientIds

\* compute_event_hash covers seq, prev_hash and every field; `by` stands for
\* the fields only one transaction can write (ts, span_id).
HashOf(prev, seq, id, by, body) == Append(prev, <<seq, id, by, body>>)

NewRow(prev, seq, id, by) ==
  [seq |-> seq, id |-> id, by |-> by, body |-> "written",
   prev |-> prev, hash |-> HashOf(prev, seq, id, by, "written")]

Seal(row) == [row EXCEPT !.hash = HashOf(row.prev, row.seq, row.id, row.by, row.body)]

\* The row with the highest seq, or what stands in for it in an empty table.
Top(rows) == IF rows = {} THEN [seq |-> 0, hash |-> Genesis]
             ELSE LET r == CHOOSE x \in rows : \A y \in rows : y.seq <= x.seq
                  IN  [seq |-> r.seq, hash |-> r.hash]

\* What a statement of transaction t sees.
Visible(t) == table \cup ToSet(pending[t])

InUse == {r.id : r \in table}
         \cup UNION {{r.id : r \in ToSet(pending[t])} \cup ToSet(batch[t]) : t \in Txns}

Init ==
  /\ table = {}
  /\ changes = {}
  /\ lock = Nobody
  /\ at = [t \in Txns |-> "idle"]
  /\ batch = [t \in Txns |-> <<>>]
  /\ skip = [t \in Txns |-> FALSE]
  /\ head = [t \in Txns |-> [seq |-> 0, hash |-> Genesis]]
  /\ pending = [t \in Txns |-> <<>>]
  /\ domainWrites = [t \in Txns |-> FALSE]
  /\ appends = [t \in Txns |-> 0]
  /\ check = [v \in Verifiers |->
               [at |-> "idle", anchors |-> {}, last |-> 0, previous |-> Genesis,
                failed |-> FALSE, stored |-> {}, since |-> 0, warned |-> FALSE]]
  /\ anchors = {}
  /\ alterations = 0

-----------------------------------------------------------------------------
(* A transaction (Database.transaction) and its append calls *)

Move(t, from, to) == at[t] = from /\ at' = [at EXCEPT ![t] = to]

Begin(t) ==
  /\ Move(t, "idle", "open")
  /\ UNCHANGED <<table, changes, lock, batch, skip, head, pending, domainWrites, appends,
                 check, anchors, alterations>>

\* before_flush and do_orm_execute count writes to any other table.
DomainWrite(t) ==
  /\ at[t] = "open"
  /\ ~domainWrites[t]
  /\ domainWrites' = [domainWrites EXCEPT ![t] = TRUE]
  /\ UNCHANGED <<table, changes, lock, at, batch, skip, head, pending, appends,
                 check, anchors, alterations>>

CallAppend(t, events, skipping) ==
  /\ Move(t, "open", "waiting")
  /\ appends[t] < MaxAppends
  /\ appends' = [appends EXCEPT ![t] = @ + 1]
  /\ batch' = [batch EXCEPT ![t] = events]
  /\ skip' = [skip EXCEPT ![t] = skipping]
  /\ UNCHANGED <<table, changes, lock, head, pending, domainWrites, check, anchors, alterations>>

\* writer.append: one event with an id of the server's own.
AppendOne(t) == \E e \in ServerIds \ InUse : CallAppend(t, <<e>>, FALSE)

\* ui_events._ingest: a browser batch, possibly a retry of one stored before.
AppendBrowserBatch(t) == \E b \in ClientBatches : CallAppend(t, b, TRUE)

\* pg_advisory_xact_lock: held to the end of the transaction, re-entrant.
Lock(t) ==
  /\ Move(t, "waiting", "locked")
  /\ lock \in {Nobody, t}
  /\ lock' = t
  /\ UNCHANGED <<table, changes, batch, skip, head, pending, domainWrites, appends,
                 check, anchors, alterations>>

\* The first occurrence of each id that is not stored yet, in order.
Unstored(t) ==
  LET fresh == {i \in DOMAIN batch[t] :
                  /\ \A j \in 1..(i - 1) : batch[t][j] # batch[t][i]
                  /\ \A r \in Visible(t) : r.id # batch[t][i]}
      nth(n) == CHOOSE i \in fresh : Cardinality({j \in fresh : j <= i}) = n
  IN  [n \in 1..Cardinality(fresh) |-> batch[t][nth(n)]]

DropStored(t) ==
  /\ Move(t, "locked", "filtered")
  /\ batch' = [batch EXCEPT ![t] = IF skip[t] THEN Unstored(t) ELSE @]
  /\ UNCHANGED <<table, changes, lock, skip, head, pending, domainWrites, appends,
                 check, anchors, alterations>>

\* append_rows returns without a row when nothing is left.
NothingNew(t) ==
  /\ batch[t] = <<>>
  /\ Move(t, "filtered", "open")
  /\ UNCHANGED <<table, changes, lock, batch, skip, head, pending, domainWrites, appends,
                 check, anchors, alterations>>

ReadHead(t) ==
  /\ batch[t] # <<>>
  /\ Move(t, "filtered", "chaining")
  /\ head' = [head EXCEPT ![t] = Top(Visible(t))]
  /\ UNCHANGED <<table, changes, lock, batch, skip, pending, domainWrites, appends,
                 check, anchors, alterations>>

\* Mistake: every row of the batch links to the head.
ChainRowsToHead(t) ==
  [i \in DOMAIN batch[t] |-> NewRow(head[t].hash, head[t].seq + i, batch[t][i], t)]

\* `previous` after i rows of the batch: each row was hashed onto the one
\* before it, the first onto the head.
PreviousAfter(t, i) ==
  head[t].hash \o [j \in 1..i |-> <<head[t].seq + j, batch[t][j], t, "written">>]

ChainRows(t) ==
  [i \in DOMAIN batch[t] |-> NewRow(PreviousAfter(t, i - 1), head[t].seq + i, batch[t][i], t)]

\* seq is the primary key and event_id is unique.
Conflicts(rows, others) ==
  \E r \in rows : \E o \in others : r # o /\ (r.seq = o.seq \/ r.id = o.id)

\* An insert waits for the transaction that inserted a conflicting key.
Insert(t) ==
  /\ at[t] = "chaining"
  /\ LET rows == ChainRows(t) IN
       /\ \A u \in Txns \ {t} : ~Conflicts(ToSet(rows), ToSet(pending[u]))
       /\ \/ /\ ~Conflicts(ToSet(rows), Visible(t) \cup ToSet(rows))
             /\ pending' = [pending EXCEPT ![t] = @ \o rows]
             /\ at' = [at EXCEPT ![t] = "open"]
          \/ /\ Conflicts(ToSet(rows), Visible(t) \cup ToSet(rows))
             /\ at' = [at EXCEPT ![t] = "conflict"]
             /\ UNCHANGED pending
  /\ batch' = [batch EXCEPT ![t] = <<>>]
  /\ UNCHANGED <<table, changes, lock, skip, head, domainWrites, appends,
                 check, anchors, alterations>>

End(t) ==
  /\ at' = [at EXCEPT ![t] = "done"]
  /\ lock' = IF lock = t THEN Nobody ELSE lock
  /\ pending' = [pending EXCEPT ![t] = <<>>]
  /\ batch' = [batch EXCEPT ![t] = <<>>]
  /\ UNCHANGED <<skip, head, domainWrites, appends, check, anchors, alterations>>

\* Mistake: the guard does not look at the audit writes.
CommitUnguarded(t) ==
  /\ at[t] = "open"
  /\ table' = table \cup ToSet(pending[t])
  /\ changes' = IF domainWrites[t] THEN changes \cup {t} ELSE changes
  /\ End(t)

\* The guard: domain writes need at least one audit row in this transaction.
\* The counter of audit writes is positive exactly when rows were inserted.
Commit(t) ==
  /\ at[t] = "open"
  /\ domainWrites[t] => pending[t] # <<>>
  /\ table' = table \cup ToSet(pending[t])
  /\ changes' = IF domainWrites[t] THEN changes \cup {t} ELSE changes
  /\ End(t)

\* UnauditedWriteError, any other exception, or a lost connection.
Rollback(t) ==
  /\ at[t] \notin {"idle", "done"}
  /\ End(t)
  /\ UNCHANGED <<table, changes>>

-----------------------------------------------------------------------------
(* verify_and_anchor *)

\* The anchors are loaded before the first row is read.
BeginVerify(v) ==
  /\ check[v].at = "idle"
  /\ check' = [check EXCEPT ![v].at = "reading", ![v].anchors = anchors,
                 ![v].since = alterations,
                 ![v].warned = \E u \in Verifiers :
                    check[u].at = "broken" /\ check[u].since = alterations]
  /\ UNCHANGED <<table, changes, txnVars, anchors, alterations>>

Unread(v) == {r \in table : r.seq > check[v].last}

\* The next statement's rows: the first ones above the last row read.
NextRows(v) ==
  {r \in Unread(v) : Cardinality({q \in Unread(v) : q.seq < r.seq}) < BatchRows}

\* The row before r among them, or the last row of the statement before.
Before(v, r) ==
  IF \A q \in NextRows(v) : r.seq <= q.seq
  THEN [seq |-> check[v].last, hash |-> check[v].previous]
  ELSE Top({q \in NextRows(v) : q.seq < r.seq})

\* seq_gap, prev_hash_mismatch or hash_mismatch of a row after another.
Breaks(row, before) ==
  row.seq # before.seq + 1 \/ row.prev # before.hash \/ row # Seal(row)

\* Mistake: only the last statement's rows decide.
ReadRowsForgetful(v) ==
  /\ check[v].at = "reading"
  /\ Unread(v) # {}
  /\ check' = [check EXCEPT
       ![v].last = Top(NextRows(v)).seq,
       ![v].previous = Top(NextRows(v)).hash,
       ![v].failed = \E r \in NextRows(v) : Breaks(r, Before(v, r)),
       ![v].stored = @ \cup {[seq |-> r.seq, hash |-> r.hash] : r \in NextRows(v)}]
  /\ UNCHANGED <<table, changes, txnVars, anchors, alterations>>

ReadRows(v) ==
  /\ check[v].at = "reading"
  /\ Unread(v) # {}
  /\ check' = [check EXCEPT
       ![v].last = Top(NextRows(v)).seq,
       ![v].previous = Top(NextRows(v)).hash,
       ![v].failed = @ \/ \E r \in NextRows(v) : Breaks(r, Before(v, r)),
       ![v].stored = @ \cup {[seq |-> r.seq, hash |-> r.hash] :
                               r \in {x \in NextRows(v) :
                                        \E a \in check[v].anchors : a.seq = x.seq}}]
  /\ UNCHANGED <<table, changes, txnVars, anchors, alterations>>

\* Mistake: the anchors are those of the file as it is after reading.
JudgeLateAnchors(v) ==
  /\ check[v].at = "reading"
  /\ Unread(v) = {}
  /\ check' = [check EXCEPT ![v].at =
       IF check[v].failed \/ ~(anchors \subseteq check[v].stored) THEN "broken"
       ELSE IF check[v].last > 0 THEN "anchoring" ELSE "passed"]
  /\ UNCHANGED <<table, changes, txnVars, anchors, alterations>>

\* Mistake: an anchored row that is there with another hash is accepted.
JudgeMissingOnly(v) ==
  /\ check[v].at = "reading"
  /\ Unread(v) = {}
  /\ check' = [check EXCEPT ![v].at =
       IF check[v].failed \/ \E a \in check[v].anchors : \A s \in check[v].stored : s.seq # a.seq
       THEN "broken"
       ELSE IF check[v].last > 0 THEN "anchoring" ELSE "passed"]
  /\ UNCHANGED <<table, changes, txnVars, anchors, alterations>>

\* No rows left: an anchor that is missing or different is a failure too.
Judge(v) ==
  /\ check[v].at = "reading"
  /\ Unread(v) = {}
  /\ check' = [check EXCEPT ![v].at =
       IF check[v].failed \/ ~(check[v].anchors \subseteq check[v].stored) THEN "broken"
       ELSE IF check[v].last > 0 THEN "anchoring" ELSE "passed"]
  /\ UNCHANGED <<table, changes, txnVars, anchors, alterations>>

\* The verified head goes to the anchor file, whatever the table holds by now.
Anchor(v) ==
  /\ check[v].at = "anchoring"
  /\ anchors' = anchors \cup {[seq |-> check[v].last, hash |-> check[v].previous]}
  /\ check' = [check EXCEPT ![v].at = "passed"]
  /\ UNCHANGED <<table, changes, txnVars, alterations>>

\* The verifying process ends without a verdict or without anchoring.
GiveUp(v) ==
  /\ check[v].at \in {"reading", "anchoring"}
  /\ check' = [check EXCEPT ![v].at = "stopped"]
  /\ UNCHANGED <<table, changes, txnVars, anchors, alterations>>

-----------------------------------------------------------------------------
(* Changes around the triggers, as tests/test_tamper.py makes them *)

Alter(row, rows) ==
  /\ alterations < MaxAlterations
  /\ alterations' = alterations + 1
  /\ table' = (table \ {row}) \cup rows
  /\ UNCHANGED <<changes, txnVars, check, anchors>>

Edit(row) == Alter(row, {[row EXCEPT !.body = "edited"]})
EditAndRehash(row) == Alter(row, {Seal([row EXCEPT !.body = "edited"])})
Relink(row) == Alter(row, {Seal([row EXCEPT !.prev = Top({r \in table : r.seq < row.seq}).hash])})
Delete(row) == Alter(row, {})

-----------------------------------------------------------------------------

TxnStep(t) ==
  \/ Begin(t) \/ DomainWrite(t) \/ AppendOne(t) \/ AppendBrowserBatch(t)
  \/ Lock(t) \/ DropStored(t) \/ NothingNew(t) \/ ReadHead(t) \/ Insert(t)
  \/ Commit(t) \/ Rollback(t)

VerifyStep(v) == BeginVerify(v) \/ ReadRows(v) \/ Judge(v) \/ Anchor(v) \/ GiveUp(v)

AlterStep == \E row \in table : Edit(row) \/ EditAndRehash(row) \/ Relink(row) \/ Delete(row)

Next ==
  \/ \E t \in Txns : TxnStep(t)
  \/ \E v \in Verifiers : VerifyStep(v)
  \/ AlterStep

Spec == Init /\ [][Next]_vars

-----------------------------------------------------------------------------
(* Properties *)

Link == (Nat \ {0}) \X Events \X Txns \X {"written", "edited"}
Row == [seq : Nat \ {0}, id : Events, by : Txns, body : {"written", "edited"},
        prev : Seq(Link), hash : Seq(Link)]
Place == [seq : Nat, hash : Seq(Link)]
Check == [at : {"idle", "reading", "anchoring", "passed", "broken", "stopped"},
          anchors : SUBSET Place, last : Nat, previous : Seq(Link), failed : BOOLEAN,
          stored : SUBSET Place, since : 0..MaxAlterations, warned : BOOLEAN]

TypeOK ==
  /\ table \subseteq Row /\ IsFiniteSet(table)
  /\ changes \subseteq Txns
  /\ lock \in Txns \cup {Nobody}
  /\ at \in [Txns -> {"idle", "open", "waiting", "locked", "filtered", "chaining", "conflict", "done"}]
  /\ batch \in [Txns -> Seq(Events)]
  /\ skip \in [Txns -> BOOLEAN]
  /\ head \in [Txns -> Place]
  /\ pending \in [Txns -> Seq(Row)]
  /\ domainWrites \in [Txns -> BOOLEAN]
  /\ appends \in [Txns -> 0..MaxAppends]
  /\ check \in [Verifiers -> Check]
  /\ anchors \subseteq Place
  /\ alterations \in 0..MaxAlterations

\* The first n rows, for n up to the highest seq, are there, each sealed and
\* linked to the one before it.
ChainedUpTo(n) ==
  \A i \in 1..n :
    \E r \in table :
      /\ r.seq = i /\ r = Seal(r)
      /\ r.prev = Top({q \in table : q.seq < i}).hash

\* Whatever the writers do, the committed rows form a gapless chain from
\* genesis with one row per seq, as long as nobody works around the triggers.
GaplessChain ==
  alterations = 0 =>
    /\ ChainedUpTo(Top(table).seq)
    /\ Cardinality(table) = Top(table).seq

\* A verification that runs while writers append and other verifications
\* anchor reports no break where nothing was altered.
NoFalseAlarm == \A v \in Verifiers : check[v].at = "broken" => alterations > 0

\* The history an anchor stands for is the one in the table.
Matches(a) ==
  \A i \in 1..a.seq :
    \E r \in table : r.seq = i /\ <<r.seq, r.id, r.by, r.body>> = a.hash[i]

\* "A later verification fails if any anchored row is missing or different"
\* (verifier.py:7-8): one that passed, on a table not altered since it began,
\* leaves an intact chain and every anchor it loaded matches the rows below it.
PassedMeansIntact ==
  \A v \in Verifiers :
    check[v].at = "passed" /\ check[v].since = alterations =>
      /\ ChainedUpTo(check[v].last)
      /\ \A a \in check[v].anchors : Matches(a)

\* What a verification reports is so: a break only where rows were altered,
\* and a pass only over a chain and anchors that match.
VerdictIsRight == NoFalseAlarm /\ PassedMeansIntact

\* A break that was reported is not healed by the events appended after it.
BreakStays ==
  \A v \in Verifiers :
    check[v].at = "passed" /\ check[v].since = alterations => ~check[v].warned

\* Until a row is altered, the table is the append-only list of EventLog, and
\* a domain change appears in the same step as an event of its transaction:
\* the writer's statements implement that atomic step.
Entries == [i \in 1..Cardinality(table) |-> (CHOOSE r \in table : r.seq = i).id]

Log == INSTANCE EventLog WITH entries <- Entries

ImplementsLog ==
  /\ Log!Init
  /\ [][alterations' = 0 => Log!Next \/ UNCHANGED Log!vars]_<<table, changes>>
=============================================================================
