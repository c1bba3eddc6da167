--------------------------- MODULE AuditLog_proofs ---------------------------
(***************************************************************************)
(* Proofs about AuditLog, for any numbers of transactions, verifications,  *)
(* events, appends and alterations, and any size of a verifier's batch.    *)
(*                                                                         *)
(* The writers keep IInv: the lock ties the appending to one transaction,  *)
(* so ids and seqs stay unique and, until a row is altered, the table and  *)
(* what each transaction sees of it are chains.  From it follow the gapless *)
(* chain and that the writers' statements implement the atomic steps of    *)
(* EventLog.  The verifications keep VInv on top of it: until a row is     *)
(* altered once more, what a verification remembers is what the table has, *)
(* whatever was committed meanwhile.  From it follow that its verdict is   *)
(* right and that a break stays reported.                                  *)
(*                                                                         *)
(* What would be an induction over the rows is an argument on the lowest   *)
(* row that fails (LeastNumber).                                           *)
(***************************************************************************)
EXTENDS AuditLog, FiniteSetTheorems, SequenceTheorems, WellFoundedInduction, TLAPS

-----------------------------------------------------------------------------
(* The writers' invariant *)

\* Between taking the lock and its end a transaction is the only one with rows
\* of its own.
OneAppender ==
  \A t \in Txns :
    at[t] \in {"locked", "filtered", "chaining"} \/ pending[t] # <<>> => lock = t

\* No two rows of the table, or of what a transaction sees, share a seq or an id.
KeysAreUnique ==
  /\ \A q, r \in table : q.seq = r.seq \/ q.id = r.id => q = r
  /\ \A t \in Txns : \A q, r \in Visible(t) : q.seq = r.seq \/ q.id = r.id => q = r

\* A transaction that is chaining sees no row above its head, and what it appended is above the table.
AppendsAbove ==
  \A t \in Txns :
    /\ at[t] = "chaining" => \A r \in Visible(t) : r.seq <= head[t].seq
    /\ \A p \in ToSet(pending[t]), r \in table : r.seq < p.seq

\* The rows are numbered 1..n without a gap, sealed and linked.
Linked(rows, n) ==
  /\ \A r \in rows : r.seq \in 1..n
  /\ \A i \in 1..n : \E r \in rows : r.seq = i
  /\ \A r \in rows : r = Seal(r) /\ (r.seq = 1 => r.prev = Genesis)
  /\ \A q, r \in rows : r.seq = q.seq + 1 => r.prev = q.hash

\* Until a row is altered, the table is a chain, and so is what a transaction sees.
WritersSeeAChain ==
  alterations = 0 =>
    /\ Linked(table, Top(table).seq)
    /\ \A t \in Txns : Linked(Visible(t), Top(Visible(t)).seq)
    /\ \A t \in Txns : at[t] = "chaining" => head[t] = Top(Visible(t))

\* What every step of the writers preserves.
IInv == TypeOK /\ OneAppender /\ KeysAreUnique /\ AppendsAbove /\ WritersSeeAChain

-----------------------------------------------------------------------------
(* Numbers and finite sets *)

\* A set of numbers that is not empty has a least element: what stands in for
\* induction below.
LEMMA LeastNumber ==
  ASSUME NEW T \in SUBSET Nat, T # {}
  PROVE  \E x \in T : \A y \in T : x <= y
<1> DEFINE R == OpToRel(<, Nat)
<1>1. IsWellFoundedOn(R, Nat)
  BY NatLessThanWellFounded
<1>2. PICK x \in T : \A y \in T : ~(<<y, x>> \in R)
  BY <1>1, WFMin
<1>3. \A y \in T : ~(y < x)
  BY <1>2 DEF OpToRel
<1>4. QED BY <1>3

\* Finitely many numbers have an upper bound.
LEMMA NumbersBounded ==
  ASSUME NEW n \in Nat, NEW g \in [1..n -> Nat]
  PROVE  \E m \in Nat : \A i \in 1..n : g[i] <= m
<1> DEFINE Bounded(k) == \E m \in Nat : \A i \in 1..k : g[i] <= m
           Bad == {k \in 0..n : ~Bounded(k)}
<1> HIDE DEF Bounded
<1>1. Bounded(0)
  <2>1. 0 \in Nat /\ \A i \in 1..0 : g[i] <= 0
    OBVIOUS
  <2>2. QED BY <2>1 DEF Bounded
<1>2. \A k \in 1..n : Bounded(k - 1) => Bounded(k)
  <2>1. SUFFICES ASSUME NEW k \in 1..n, Bounded(k - 1) PROVE Bounded(k)
    OBVIOUS
  <2>2. PICK m \in Nat : \A i \in 1..(k - 1) : g[i] <= m
    BY <2>1 DEF Bounded
  <2>3. g[k] \in Nat /\ \A i \in 1..k : i = k \/ i \in 1..(k - 1)
    OBVIOUS
  <2>4. \A i \in 1..k : g[i] \in Nat
    OBVIOUS
  <2>5. CASE g[k] <= m
    <3>1. \A i \in 1..k : g[i] <= m
      BY <2>2, <2>3, <2>5
    <3>2. QED BY <3>1 DEF Bounded
  <2>6. CASE m <= g[k]
    <3>1. \A i \in 1..k : g[i] <= g[k]
      BY <2>2, <2>3, <2>4, <2>6
    <3>2. QED BY <3>1, <2>3 DEF Bounded
  <2>7. QED BY <2>3, <2>5, <2>6
<1>3. Bad = {}
  <2>1. SUFFICES ASSUME Bad # {} PROVE FALSE
    OBVIOUS
  <2>2. Bad \in SUBSET Nat
    OBVIOUS
  <2>3. PICK k \in Bad : \A j \in Bad : k <= j
    BY <2>1, <2>2, LeastNumber
  <2>4. k \in 0..n /\ ~Bounded(k)
    OBVIOUS
  <2>5. k \in 1..n
    BY <2>4, <1>1
  <2>6. k - 1 \in 0..n /\ ~(k <= k - 1)
    BY <2>5
  <2>7. Bounded(k - 1)
    BY <2>3, <2>6
  <2>8. QED BY <2>4, <2>5, <2>7, <1>2
<1>4. Bounded(n)
  BY <1>3
<1>5. QED BY <1>4 DEF Bounded

\* Of finitely many positions, each from the first to the last has its number.
LEMMA NthPosition ==
  ASSUME NEW m \in Nat, NEW F \in SUBSET (1..m), NEW n \in 1..Cardinality(F)
  PROVE  \E i \in F : Cardinality({j \in F : j <= i}) = n
<1> DEFINE UpTo(i) == {j \in F : j <= i}
           Count(i) == Cardinality(UpTo(i))
<1>1. \A j \in F : j \in Int /\ 1 <= j /\ j <= m
  OBVIOUS
<1>2. IsFiniteSet(F)
  <2>1. IsFiniteSet(1..m)
    BY FS_Interval
  <2>2. QED BY <2>1, FS_Subset
<1>3. \A i \in 0..m : IsFiniteSet(UpTo(i)) /\ Count(i) \in Nat
  <2>1. TAKE i \in 0..m
  <2>2. UpTo(i) \in SUBSET F
    OBVIOUS
  <2>3. IsFiniteSet(UpTo(i))
    BY <1>2, <2>2, FS_Subset
  <2>4. QED BY <2>3, FS_CardinalityType
<1>4. Count(0) = 0
  <2>1. \A j \in F : ~(j <= 0)
    BY <1>1
  <2>2. UpTo(0) = {}
    BY <2>1
  <2>3. QED BY <2>2, FS_EmptySet
<1>5. Count(m) = Cardinality(F) /\ Cardinality(F) \in Nat
  <2>1. UpTo(m) = F
    BY <1>1
  <2>2. QED BY <2>1, <1>2, FS_CardinalityType
<1>6. \A i \in 1..m : Count(i) = IF i \in F THEN Count(i - 1) + 1 ELSE Count(i - 1)
  <2>1. TAKE i \in 1..m
  <2>2. \A j \in F : (j <= i <=> j <= i - 1 \/ j = i) /\ ~(i <= i - 1)
    BY <1>1
  <2>3. CASE i \in F
    <3>1. UpTo(i) = UpTo(i - 1) \cup {i} /\ i \notin UpTo(i - 1)
      BY <2>3, <2>2
    <3>2. i - 1 \in 0..m
      OBVIOUS
    <3>3. IsFiniteSet(UpTo(i - 1))
      BY <3>2, <1>3
    <3>4. QED BY <2>3, <3>1, <3>3, FS_AddElement
  <2>4. CASE i \notin F
    <3>1. UpTo(i) = UpTo(i - 1)
      BY <2>4, <2>2
    <3>2. QED BY <2>4, <3>1
  <2>5. QED BY <2>3, <2>4
<1> HIDE DEF Count
<1> DEFINE Enough == {i \in 0..m : n <= Count(i)}
<1>7. PICK i \in Enough : \A j \in Enough : i <= j
  <2>1. m \in Enough
    BY <1>5
  <2>2. Enough \in SUBSET Nat /\ Enough # {}
    BY <2>1
  <2>3. QED BY <2>2, LeastNumber
<1>8. i \in 0..m /\ n <= Count(i) /\ n \in Nat \ {0}
  BY <1>5
<1>9. i \in 1..m /\ i - 1 \in 0..m
  BY <1>8, <1>4
<1>10. ~(n <= Count(i - 1))
  BY <1>7, <1>9
<1>11. i \in F /\ Count(i) = n
  <2>1. Count(i) \in Nat /\ Count(i - 1) \in Nat
    BY <1>3, <1>9
  <2>2. Count(i) = IF i \in F THEN Count(i - 1) + 1 ELSE Count(i - 1)
    BY <1>6, <1>9
  <2>3. QED BY <2>1, <2>2, <1>8, <1>10
<1>12. QED BY <1>11 DEF Count

\* A finite set of rows has a bound on its seqs.
LEMMA SeqsBounded ==
  ASSUME NEW rows \in SUBSET Row, IsFiniteSet(rows)
  PROVE  \E m \in Nat : \A r \in rows : r.seq <= m
<1>1. PICK n \in Nat : ExistsBijection(1..n, rows)
  BY FS_NatBijection
<1>2. PICK f \in Bijection(1..n, rows) : TRUE
  BY <1>1 DEF ExistsBijection
<1>3. f \in [1..n -> rows] /\ \A r \in rows : \E i \in 1..n : f[i] = r
  BY <1>2 DEF Bijection, Surjection, Injection
<1> DEFINE g == [i \in 1..n |-> f[i].seq]
<1>4. g \in [1..n -> Nat]
  BY <1>3 DEF Row
<1>5. PICK m \in Nat : \A i \in 1..n : g[i] <= m
  BY <1>4, NumbersBounded
<1>6. QED BY <1>3, <1>5

\* The top row of a set of rows, where one of them is above all the others.
LEMMA TopOf ==
  ASSUME NEW rows, NEW m \in rows, \A y \in rows : y.seq <= m.seq
  PROVE  \E r \in rows : /\ \A y \in rows : y.seq <= r.seq
                         /\ Top(rows) = [seq |-> r.seq, hash |-> r.hash]
<1> DEFINE IsTop(x) == \A y \in rows : y.seq <= x.seq
<1>1. IsTop(CHOOSE x \in rows : IsTop(x)) /\ (CHOOSE x \in rows : IsTop(x)) \in rows
  OBVIOUS
<1>2. QED BY <1>1 DEF Top

\* A finite set of rows has a top row, or none at all.
LEMMA FiniteTop ==
  ASSUME NEW rows \in SUBSET Row, IsFiniteSet(rows), rows # {}
  PROVE  \E r \in rows : /\ \A y \in rows : y.seq <= r.seq
                         /\ Top(rows) = [seq |-> r.seq, hash |-> r.hash]
<1>1. PICK m \in Nat : \A r \in rows : r.seq <= m
  BY SeqsBounded
<1> DEFINE Gaps == {m - r.seq : r \in rows}
<1>2. Gaps \in SUBSET Nat /\ Gaps # {}
  BY <1>1 DEF Row
<1>3. PICK g \in Gaps : \A h \in Gaps : g <= h
  BY <1>2, LeastNumber
<1>4. PICK r \in rows : g = m - r.seq
  BY <1>3
<1>5. \A y \in rows : y.seq <= r.seq
  <2>1. TAKE y \in rows
  <2>2. m - y.seq \in Gaps
    OBVIOUS
  <2>3. m - r.seq <= m - y.seq
    BY <2>2, <1>3, <1>4
  <2>4. QED BY <2>3, <1>1 DEF Row
<1>6. QED BY <1>5, TopOf

\* The top of a set of rows is a place, and no row is above it.
LEMMA TopType ==
  ASSUME NEW rows \in SUBSET Row, IsFiniteSet(rows)
  PROVE  /\ Top(rows) \in Place
         /\ \A r \in rows : r.seq <= Top(rows).seq
<1>1. CASE rows = {}
  BY <1>1 DEF Top, Place, Genesis
<1>2. CASE rows # {}
  <2>1. PICK r \in rows : (\A y \in rows : y.seq <= r.seq)
                          /\ Top(rows) = [seq |-> r.seq, hash |-> r.hash]
    BY <1>2, FiniteTop
  <2>2. QED BY <2>1 DEF Row, Place
<1>3. QED BY <1>1, <1>2

\* The rows of a sequence of rows.
LEMMA ToSetFinite ==
  ASSUME NEW S, NEW s \in Seq(S)
  PROVE  /\ ToSet(s) \in SUBSET S
         /\ IsFiniteSet(ToSet(s))
<1>1. ToSet(s) = {s[i] : i \in 1..Len(s)} /\ s \in [1..Len(s) -> S]
  BY DEF ToSet
<1>2. s \in Surjection(1..Len(s), ToSet(s))
  BY <1>1 DEF Surjection
<1>3. IsFiniteSet(1..Len(s))
  BY FS_Interval
<1>4. QED BY <1>1, <1>2, <1>3, FS_Surjection

-----------------------------------------------------------------------------
(* Types *)

\* Whatever is written is a row, and so is whatever a row is altered to.
LEMMA RowTypes ==
  /\ \A prev \in Seq(Link), seq \in Nat \ {0}, id \in Events, by \in Txns :
       NewRow(prev, seq, id, by) \in Row
  /\ \A row \in Row : Seal(row) \in Row
  /\ \A row \in Row : [row EXCEPT !.body = "edited"] \in Row
  /\ \A row \in Row, prev \in Seq(Link) : [row EXCEPT !.prev = prev] \in Row
<1>1. \A prev \in Seq(Link), seq \in Nat \ {0}, id \in Events, by \in Txns,
         body \in {"written", "edited"} : HashOf(prev, seq, id, by, body) \in Seq(Link)
  BY AppendProperties DEF HashOf, Link
<1>2. \A prev \in Seq(Link), seq \in Nat \ {0}, id \in Events, by \in Txns :
         NewRow(prev, seq, id, by) \in Row
  BY <1>1 DEF NewRow, Row
<1>3. \A row \in Row : Seal(row) \in Row
  BY <1>1 DEF Seal, Row
<1>4. QED BY <1>2, <1>3 DEF Row

\* What a transaction sees is a finite set of rows.
LEMMA VisibleType ==
  ASSUME TypeOK, NEW t \in Txns
  PROVE  Visible(t) \in SUBSET Row /\ IsFiniteSet(Visible(t))
<1>1. pending[t] \in Seq(Row)
  BY DEF TypeOK
<1>2. QED BY <1>1, ToSetFinite, FS_Union DEF Visible, TypeOK

\* The chain a batch makes on the head: each row is hashed onto the one before.
LEMMA ChainShape ==
  ASSUME TypeOK, NEW t \in Txns
  PROVE  /\ \A i \in 0..Len(batch[t]) : PreviousAfter(t, i) \in Seq(Link)
         /\ PreviousAfter(t, 0) = head[t].hash
         /\ \A i \in 1..Len(batch[t]) :
              PreviousAfter(t, i) =
                HashOf(PreviousAfter(t, i - 1), head[t].seq + i, batch[t][i], t, "written")
<1> DEFINE h == head[t].hash
           link(j) == <<head[t].seq + j, batch[t][j], t, "written">>
           links(i) == [j \in 1..i |-> link(j)]
<1>1. h \in Seq(Link) /\ head[t].seq \in Nat /\ batch[t] \in Seq(Events)
  BY DEF TypeOK, Place
<1>2. \A j \in 1..Len(batch[t]) : link(j) \in Link
  BY <1>1 DEF Link
<1>3. \A i \in 0..Len(batch[t]) :
        links(i) \in Seq(Link) /\ Len(links(i)) = i
  BY <1>2
<1>4. \A i \in 0..Len(batch[t]) : PreviousAfter(t, i) = h \o links(i)
  BY DEF PreviousAfter
<1>5. links(0) = <<>>
  OBVIOUS
<1>6. \A i \in 1..Len(batch[t]) : links(i) = links(i - 1) \o <<link(i)>>
  BY <1>3
<1> HIDE DEF link, links, h
<1>7. \A i \in 1..Len(batch[t]) : i \in 0..Len(batch[t]) /\ i - 1 \in 0..Len(batch[t])
  BY <1>1
<1>8. \A i \in 1..Len(batch[t]) : h \o links(i) = Append(h \o links(i - 1), link(i))
  <2>1. TAKE i \in 1..Len(batch[t])
  <2>2. /\ links(i - 1) \in Seq(Link) /\ link(i) \in Link /\ h \in Seq(Link)
        /\ <<link(i)>> \in Seq(Link)
    BY <1>1, <1>2, <1>3, <1>7
  <2>3. h \o links(i) = (h \o links(i - 1)) \o <<link(i)>>
    <3>1. (h \o links(i - 1)) \o <<link(i)>> = h \o (links(i - 1) \o <<link(i)>>)
      BY <2>2, ConcatAssociative
    <3>2. links(i) = links(i - 1) \o <<link(i)>>
      BY <1>6
    <3>3. QED BY <3>1, <3>2
  <2>4. h \o links(i - 1) \in Seq(Link)
    BY <2>2, ConcatProperties
  <2>5. QED BY <2>2, <2>3, <2>4, AppendIsConcat
<1>9. \A i \in 0..Len(batch[t]) : PreviousAfter(t, i) \in Seq(Link)
  BY <1>1, <1>3, <1>4, ConcatProperties
<1>10. PreviousAfter(t, 0) = h
  BY <1>1, <1>4, <1>5, ConcatEmptySeq
<1>11. QED BY <1>4, <1>7, <1>8, <1>9, <1>10 DEF HashOf, link, h

\* A batch makes one row for each of its events.
LEMMA ChainRowsType ==
  ASSUME TypeOK, NEW t \in Txns
  PROVE  ChainRows(t) \in Seq(Row) /\ Len(ChainRows(t)) = Len(batch[t])
<1>1. head[t].seq \in Nat /\ batch[t] \in Seq(Events)
  BY DEF TypeOK, Place
<1>2. \A i \in 1..Len(batch[t]) :
        NewRow(PreviousAfter(t, i - 1), head[t].seq + i, batch[t][i], t) \in Row
  <2>1. TAKE i \in 1..Len(batch[t])
  <2>2. PreviousAfter(t, i - 1) \in Seq(Link)
    <3>1. i - 1 \in 0..Len(batch[t])
      BY <1>1
    <3>2. QED BY <3>1, ChainShape
  <2>3. head[t].seq + i \in Nat \ {0} /\ batch[t][i] \in Events
    BY <1>1
  <2>4. QED BY <2>2, <2>3, RowTypes
<1>3. QED BY <1>1, <1>2 DEF ChainRows

\* What remains of a batch without the events already stored.
LEMMA UnstoredType ==
  ASSUME TypeOK, NEW t \in Txns
  PROVE  Unstored(t) \in Seq(Events)
<1> DEFINE fresh == {i \in DOMAIN batch[t] :
                  /\ \A j \in 1..(i - 1) : batch[t][j] # batch[t][i]
                  /\ \A r \in Visible(t) : r.id # batch[t][i]}
           nth(n) == CHOOSE i \in fresh : Cardinality({j \in fresh : j <= i}) = n
<1>1. batch[t] \in Seq(Events)
  BY DEF TypeOK
<1>2. Unstored(t) = [n \in 1..Cardinality(fresh) |-> batch[t][nth(n)]]
  BY DEF Unstored
<1>3. fresh \in SUBSET (1..Len(batch[t])) /\ Len(batch[t]) \in Nat
  BY <1>1
<1> HIDE DEF fresh
<1>4. Cardinality(fresh) \in Nat
  <2>1. IsFiniteSet(1..Len(batch[t]))
    BY <1>3, FS_Interval
  <2>2. QED BY <2>1, <1>3, FS_Subset, FS_CardinalityType
<1>5. \A n \in 1..Cardinality(fresh) : nth(n) \in fresh
  BY <1>3, NthPosition
<1> HIDE DEF nth
<1>6. \A n \in 1..Cardinality(fresh) : batch[t][nth(n)] \in Events
  <2>1. TAKE n \in 1..Cardinality(fresh)
  <2>2. nth(n) \in 1..Len(batch[t])
    BY <1>3, <1>5
  <2>3. QED BY <2>2, <1>1
<1>7. QED BY <1>2, <1>4, <1>6

\* A step of a transaction.
LEMMA TxnTypes ==
  ASSUME TypeOK, NEW t \in Txns, TxnStep(t)
  PROVE  TypeOK'
<1> USE DEF txnVars
<1>1. CASE Begin(t)
  BY <1>1 DEF TypeOK, Begin, Move
<1>2. CASE DomainWrite(t)
  BY <1>2 DEF TypeOK, DomainWrite
<1>3. ASSUME NEW events \in Seq(Events), NEW skipping \in BOOLEAN, CallAppend(t, events, skipping)
      PROVE  TypeOK'
  <2>1. appends[t] + 1 \in 0..MaxAppends
    BY <1>3, AuditBounds DEF TypeOK, CallAppend
  <2>2. QED BY <1>3, <2>1 DEF TypeOK, CallAppend, Move
<1>4. CASE AppendOne(t)
  <2>1. PICK e \in ServerIds : CallAppend(t, <<e>>, FALSE)
    BY <1>4 DEF AppendOne
  <2>2. <<e>> \in Seq(Events)
    BY DEF Events
  <2>3. QED BY <2>1, <2>2, <1>3
<1>5. CASE AppendBrowserBatch(t)
  <2>1. PICK b \in ClientBatches : CallAppend(t, b, TRUE)
    BY <1>5 DEF AppendBrowserBatch
  <2>2. b \in Seq(Events)
    <3>1. ToSet(b) \subseteq Events
      BY DEF Events, ClientIds
    <3>2. QED BY <3>1, BatchesAssumption, SeqMonotonic
  <2>3. QED BY <2>1, <2>2, <1>3
<1>6. CASE Lock(t)
  BY <1>6 DEF TypeOK, Lock, Move
<1>7. CASE DropStored(t)
  BY <1>7, UnstoredType DEF TypeOK, DropStored, Move
<1>8. CASE NothingNew(t)
  BY <1>8 DEF TypeOK, NothingNew, Move
<1>9. CASE ReadHead(t)
  <2>1. Top(Visible(t)) \in Place
    BY VisibleType, TopType
  <2>2. QED BY <1>9, <2>1 DEF TypeOK, ReadHead, Move
<1>10. CASE Insert(t)
  <2>1. pending[t] \o ChainRows(t) \in Seq(Row)
    BY ChainRowsType, ConcatProperties DEF TypeOK
  <2>2. pending' = [pending EXCEPT ![t] = @ \o ChainRows(t)] \/ pending' = pending
    BY <1>10 DEF Insert
  <2>3. pending' \in [Txns -> Seq(Row)]
    BY <2>1, <2>2 DEF TypeOK
  <2>4. at' = [at EXCEPT ![t] = "open"] \/ at' = [at EXCEPT ![t] = "conflict"]
    BY <1>10 DEF Insert
  <2>5. batch' \in [Txns -> Seq(Events)]
    BY <1>10 DEF Insert, TypeOK
  <2>6. QED BY <1>10, <2>3, <2>4, <2>5 DEF Insert, TypeOK
<1>11. ASSUME End(t), table' \subseteq Row /\ IsFiniteSet(table)', changes' \subseteq Txns
       PROVE  TypeOK'
  BY <1>11 DEF TypeOK, End
<1>12. CASE Commit(t)
  <2>1. pending[t] \in Seq(Row) /\ IsFiniteSet(table) /\ table \in SUBSET Row
    BY DEF TypeOK
  <2>2. table \cup ToSet(pending[t]) \in SUBSET Row /\ IsFiniteSet(table \cup ToSet(pending[t]))
    BY <2>1, ToSetFinite, FS_Union
  <2>3. QED BY <1>12, <2>2, <1>11 DEF Commit, TypeOK
<1>13. CASE Rollback(t)
  BY <1>13, <1>11 DEF Rollback, TypeOK
<1>14. QED
  BY <1>1, <1>2, <1>4, <1>5, <1>6, <1>7, <1>8, <1>9, <1>10, <1>12, <1>13 DEF TxnStep

\* The rows a verification reads next.
LEMMA NextRowsType ==
  ASSUME TypeOK, NEW v \in Verifiers, Unread(v) # {}
  PROVE  /\ NextRows(v) \in SUBSET table /\ NextRows(v) # {} /\ IsFiniteSet(NextRows(v))
         /\ \A r \in NextRows(v) : \A q \in Unread(v) : q.seq <= r.seq => q \in NextRows(v)
<1>1. Unread(v) \in SUBSET table /\ table \in SUBSET Row /\ IsFiniteSet(Unread(v))
  BY FS_Subset DEF Unread, TypeOK
<1> DEFINE Below(r) == {q \in Unread(v) : q.seq < r.seq}
<1>2. NextRows(v) = {r \in Unread(v) : Cardinality(Below(r)) < BatchRows}
  BY DEF NextRows
<1>3. \A r \in Unread(v) : IsFiniteSet(Below(r)) /\ Cardinality(Below(r)) \in Nat
  BY <1>1, FS_Subset, FS_CardinalityType
<1>4. NextRows(v) # {}
  <2> DEFINE Seqs == {r.seq : r \in Unread(v)}
  <2>1. Seqs \in SUBSET Nat /\ Seqs # {}
    BY <1>1 DEF Row
  <2>2. PICK s \in Seqs : \A x \in Seqs : s <= x
    BY <2>1, LeastNumber
  <2>3. PICK r \in Unread(v) : r.seq = s
    BY <2>2
  <2>4. \A q \in Unread(v) : q.seq \in Nat /\ s <= q.seq
    BY <2>2, <1>1 DEF Row
  <2>5. Below(r) = {}
    BY <2>1, <2>3, <2>4
  <2>6. QED BY <1>2, <2>3, <2>5, FS_EmptySet, AuditBounds
<1>5. ASSUME NEW r \in NextRows(v), NEW q \in Unread(v), q.seq <= r.seq
      PROVE  q \in NextRows(v)
  <2>1. r \in Unread(v) /\ r.seq \in Nat /\ q.seq \in Nat /\ \A p \in Unread(v) : p.seq \in Nat
    BY <1>1, <1>2 DEF Row
  <2>2. Below(q) \in SUBSET Below(r)
    BY <1>5, <2>1
  <2>3. Cardinality(Below(q)) <= Cardinality(Below(r))
    BY <2>1, <2>2, <1>3, FS_Subset
  <2>4. Cardinality(Below(r)) < BatchRows /\ BatchRows \in Nat
    BY <1>2, AuditBounds
  <2>5. Cardinality(Below(q)) \in Nat /\ Cardinality(Below(r)) \in Nat
    BY <1>3, <2>1
  <2>6. Cardinality(Below(q)) < BatchRows
    BY <2>3, <2>4, <2>5
  <2>7. QED BY <1>2, <2>6
<1>6. QED BY <1>1, <1>2, <1>4, <1>5, FS_Subset

\* A step of a verification.
LEMMA VerifyTypes ==
  ASSUME TypeOK, NEW v \in Verifiers, VerifyStep(v)
  PROVE  TypeOK'
<1> USE DEF txnVars
<1>1. ASSUME NEW c \in Check, check' = [check EXCEPT ![v] = c],
             anchors' \subseteq Place, UNCHANGED <<table, changes, txnVars, alterations>>
      PROVE  TypeOK'
  BY <1>1 DEF TypeOK
<1>2. check[v] \in Check /\ anchors \subseteq Place /\ alterations \in 0..MaxAlterations
  BY DEF TypeOK
<1>3. CASE BeginVerify(v)
  <2> DEFINE c == [check[v] EXCEPT !.at = "reading", !.anchors = anchors,
                     !.since = alterations,
                     !.warned = \E u \in Verifiers :
                        check[u].at = "broken" /\ check[u].since = alterations]
  <2>1. check' = [check EXCEPT ![v] = c]
    BY <1>3 DEF BeginVerify
  <2>2. c \in Check
    BY <1>2 DEF Check
  <2>3. QED BY <2>1, <2>2, <1>1, <1>2, <1>3 DEF BeginVerify
<1>4. CASE ReadRows(v)
  <2> DEFINE read == {[seq |-> r.seq, hash |-> r.hash] :
                        r \in {x \in NextRows(v) :
                                 \E a \in check[v].anchors : a.seq = x.seq}}
             c == [check[v] EXCEPT
                     !.last = Top(NextRows(v)).seq,
                     !.previous = Top(NextRows(v)).hash,
                     !.failed = @ \/ \E r \in NextRows(v) : Breaks(r, Before(v, r)),
                     !.stored = @ \cup read]
  <2>1. check' = [check EXCEPT ![v] = c]
    BY <1>4 DEF ReadRows
  <2>2. NextRows(v) \in SUBSET Row /\ IsFiniteSet(NextRows(v))
    BY <1>4, NextRowsType DEF ReadRows, TypeOK
  <2>3. Top(NextRows(v)) \in Place
    BY <2>2, TopType
  <2>4. read \subseteq Place
    BY <2>2 DEF Place, Row
  <2>5. c \in Check
    <3> HIDE DEF read
    <3>1. (check[v].failed \/ \E r \in NextRows(v) : Breaks(r, Before(v, r))) \in BOOLEAN
      BY <1>2 DEF Check
    <3>2. QED BY <2>3, <2>4, <3>1, <1>2 DEF Check, Place
  <2>6. QED BY <2>1, <2>5, <1>1, <1>2, <1>4 DEF ReadRows
<1>5. ASSUME NEW pc \in {"broken", "anchoring", "passed", "stopped"},
             check' = [check EXCEPT ![v].at = pc],
             anchors' \subseteq Place, UNCHANGED <<table, changes, txnVars, alterations>>
      PROVE  TypeOK'
  <2>1. [check[v] EXCEPT !.at = pc] \in Check
    BY <1>2 DEF Check
  <2>2. check' = [check EXCEPT ![v] = [check[v] EXCEPT !.at = pc]]
    BY <1>5
  <2>3. QED BY <2>1, <2>2, <1>1, <1>5
<1>6. CASE Judge(v)
  BY <1>6, <1>5, <1>2 DEF Judge
<1>7. CASE Anchor(v)
  BY <1>7, <1>5, <1>2 DEF Anchor, Check, Place
<1>8. CASE GiveUp(v)
  BY <1>8, <1>5, <1>2 DEF GiveUp
<1>9. QED BY <1>3, <1>4, <1>6, <1>7, <1>8 DEF VerifyStep

\* An alteration around the triggers.
LEMMA AlterTypes ==
  ASSUME TypeOK, AlterStep
  PROVE  TypeOK'
<1>1. PICK row \in table : Edit(row) \/ EditAndRehash(row) \/ Relink(row) \/ Delete(row)
  BY DEF AlterStep
<1>2. row \in Row /\ table \in SUBSET Row /\ IsFiniteSet(table)
  BY DEF TypeOK
<1>3. Top({r \in table : r.seq < row.seq}).hash \in Seq(Link)
  <2>1. {r \in table : r.seq < row.seq} \in SUBSET table
    OBVIOUS
  <2>2. IsFiniteSet({r \in table : r.seq < row.seq})
    BY <2>1, <1>2, FS_Subset
  <2>3. QED BY <2>1, <2>2, <1>2, TopType DEF Place
<1>4. PICK rows \in SUBSET Row : Alter(row, rows) /\ IsFiniteSet(rows)
  <2>1. ASSUME NEW new \in Row, Alter(row, {new})
        PROVE  \E rows \in SUBSET Row : Alter(row, rows) /\ IsFiniteSet(rows)
    <3>1. {new} \in SUBSET Row /\ IsFiniteSet({new})
      BY FS_Singleton
    <3>2. QED BY <2>1, <3>1
  <2>2. CASE Edit(row)
    BY <2>2, <2>1, <1>2, RowTypes DEF Edit
  <2>3. CASE EditAndRehash(row)
    BY <2>3, <2>1, <1>2, RowTypes DEF EditAndRehash
  <2>4. CASE Relink(row)
    BY <2>4, <2>1, <1>2, <1>3, RowTypes DEF Relink
  <2>5. CASE Delete(row)
    BY <2>5, FS_EmptySet DEF Delete
  <2>6. QED BY <1>1, <2>2, <2>3, <2>4, <2>5
<1>5. table' \subseteq Row /\ IsFiniteSet(table')
  BY <1>2, <1>4, FS_RemoveElement, FS_Union DEF Alter
<1>6. alterations' \in 0..MaxAlterations
  BY <1>4, AuditBounds DEF Alter, TypeOK
<1>7. QED BY <1>4, <1>5, <1>6 DEF Alter, TypeOK, txnVars

\* Every step keeps the types.
LEMMA TypeNext == TypeOK /\ [Next]_vars => TypeOK'
<1> SUFFICES ASSUME TypeOK, [Next]_vars PROVE TypeOK'
  OBVIOUS
<1>1. CASE UNCHANGED vars
  BY <1>1 DEF TypeOK, vars, txnVars
<1>2. CASE Next
  BY <1>2, TxnTypes, VerifyTypes, AlterTypes DEF Next
<1>3. QED BY <1>1, <1>2

\* The empty log is of its type.
LEMMA InitTypes == Init => TypeOK
<1> SUFFICES ASSUME Init PROVE TypeOK
  OBVIOUS
<1>1. <<>> \in Seq(Link) /\ <<>> \in Seq(Events) /\ <<>> \in Seq(Row) /\ IsFiniteSet({})
  BY EmptySeq, FS_EmptySet
<1>2. check \in [Verifiers -> Check]
  BY <1>1, AuditBounds DEF Init, Check, Genesis
<1>3. QED BY <1>1, <1>2, AuditBounds DEF Init, TypeOK, Place, Genesis

\* Every variable keeps its type.
THEOREM TypeCorrect == Spec => []TypeOK
<1>1. QED BY InitTypes, TypeNext, PTL DEF Spec

-----------------------------------------------------------------------------
(* One transaction appends at a time *)

\* Rows come and go in the hand of the one that holds the lock.
LEMMA OneAppenderNext == TypeOK /\ OneAppender /\ [Next]_vars => OneAppender'
<1> SUFFICES ASSUME TypeOK, OneAppender, [Next]_vars PROVE OneAppender'
  OBVIOUS
<1> USE DEF OneAppender, TypeOK, Move, txnVars
<1>1. ASSUME NEW t \in Txns, TxnStep(t) PROVE OneAppender'
  <2>1. CASE Begin(t)
    BY <2>1 DEF Begin
  <2>2. CASE DomainWrite(t)
    BY <2>2 DEF DomainWrite
  <2>3. CASE AppendOne(t)
    BY <2>3 DEF AppendOne, CallAppend
  <2>4. CASE AppendBrowserBatch(t)
    BY <2>4 DEF AppendBrowserBatch, CallAppend
  <2>5. CASE Lock(t)
    BY <2>5, NobodyAssumption DEF Lock
  <2>6. CASE DropStored(t)
    BY <2>6 DEF DropStored
  <2>7. CASE NothingNew(t)
    BY <2>7 DEF NothingNew
  <2>8. CASE ReadHead(t)
    BY <2>8 DEF ReadHead
  <2>9. CASE Insert(t)
    <3>1. lock = t /\ lock' = lock /\ \A u \in Txns \ {t} : at'[u] = at[u] /\ pending'[u] = pending[u]
      BY <2>9 DEF Insert
    <3>2. QED BY <3>1
  <2>10. CASE End(t)
    BY <2>10, NobodyAssumption DEF End
  <2>11. CASE Commit(t) \/ Rollback(t)
    BY <2>10, <2>11 DEF Commit, Rollback
  <2>12. QED
    BY <1>1, <2>1, <2>2, <2>3, <2>4, <2>5, <2>6, <2>7, <2>8, <2>9, <2>11 DEF TxnStep
<1>2. ASSUME NEW v \in Verifiers, VerifyStep(v) PROVE OneAppender'
  BY <1>2 DEF VerifyStep, BeginVerify, ReadRows, Judge, Anchor, GiveUp
<1>3. CASE AlterStep
  BY <1>3 DEF AlterStep, Edit, EditAndRehash, Relink, Delete, Alter
<1>4. CASE UNCHANGED vars
  BY <1>4 DEF vars
<1>5. QED BY <1>1, <1>2, <1>3, <1>4 DEF Next

-----------------------------------------------------------------------------
(* What a step does to the rows *)

\* Nothing is inserted, committed or altered, and no head is read.
Quiet ==
  /\ UNCHANGED <<table, pending, alterations>>
  /\ \A u \in Txns : at'[u] = "chaining" => at[u] = "chaining" /\ head'[u] = head[u]

\* The batch becomes visible to its own transaction.
Inserts(t) ==
  /\ at[t] = "chaining"
  /\ ~Conflicts(ToSet(ChainRows(t)), Visible(t) \cup ToSet(ChainRows(t)))
  /\ pending' = [pending EXCEPT ![t] = @ \o ChainRows(t)]
  /\ at' = [at EXCEPT ![t] = "open"]
  /\ UNCHANGED <<table, head, alterations>>

\* The transaction is over, and the table has its rows, or none of them.
Ends(t, new) ==
  /\ table' = table \cup new
  /\ pending' = [pending EXCEPT ![t] = <<>>]
  /\ at' = [at EXCEPT ![t] = "done"]
  /\ UNCHANGED <<head, alterations>>

\* One row is replaced by one of the same keys, or deleted.
Alters(row, rows) ==
  /\ table' = (table \ {row}) \cup rows
  /\ \A r \in rows : rows = {r} /\ r.seq = row.seq /\ r.id = row.id
  /\ alterations' # 0
  /\ UNCHANGED <<pending, at, head>>

\* A step is quiet, reads a head, inserts a batch, ends a transaction or alters a row.
LEMMA StepShape ==
  ASSUME TypeOK, [Next]_vars
  PROVE  \/ Quiet
         \/ \E t \in Txns : \/ ReadHead(t) \/ Inserts(t)
                            \/ Ends(t, {}) \/ (Commit(t) /\ Ends(t, ToSet(pending[t])))
         \/ \E row \in table : \E rows \in SUBSET Row : Alters(row, rows)
<1> USE DEF TypeOK, Move, txnVars
<1>1. ASSUME NEW t \in Txns, TxnStep(t)
      PROVE  \/ Quiet \/ ReadHead(t) \/ Inserts(t)
             \/ Ends(t, {}) \/ (Commit(t) /\ Ends(t, ToSet(pending[t])))
  <2>1. CASE Begin(t)
    BY <2>1 DEF Begin, Quiet
  <2>2. CASE DomainWrite(t)
    BY <2>2 DEF DomainWrite, Quiet
  <2>3. CASE AppendOne(t)
    BY <2>3 DEF AppendOne, CallAppend, Quiet
  <2>4. CASE AppendBrowserBatch(t)
    BY <2>4 DEF AppendBrowserBatch, CallAppend, Quiet
  <2>5. CASE Lock(t)
    BY <2>5 DEF Lock, Quiet
  <2>6. CASE DropStored(t)
    BY <2>6 DEF DropStored, Quiet
  <2>7. CASE NothingNew(t)
    BY <2>7 DEF NothingNew, Quiet
  <2>8. CASE Insert(t)
    BY <2>8 DEF Insert, Quiet, Inserts
  <2>9. CASE Commit(t)
    BY <2>9 DEF Commit, End, Ends
  <2>10. CASE Rollback(t)
    BY <2>10 DEF Rollback, End, Ends
  <2>11. QED
    BY <1>1, <2>1, <2>2, <2>3, <2>4, <2>5, <2>6, <2>7, <2>8, <2>9, <2>10 DEF TxnStep
<1>2. ASSUME NEW v \in Verifiers, VerifyStep(v) PROVE Quiet
  BY <1>2 DEF VerifyStep, BeginVerify, ReadRows, Judge, Anchor, GiveUp, Quiet
<1>3. CASE AlterStep
  <2>1. PICK row \in table : Edit(row) \/ EditAndRehash(row) \/ Relink(row) \/ Delete(row)
    BY <1>3 DEF AlterStep
  <2>2. row \in Row
    OBVIOUS
  <2>3. ASSUME NEW new \in Row, new.seq = row.seq, new.id = row.id, Alter(row, {new})
        PROVE  \E rows \in SUBSET Row : Alters(row, rows)
    <3>1. Alters(row, {new})
      BY <2>3, AuditBounds DEF Alter, Alters
    <3>2. QED BY <3>1
  <2>4. CASE Edit(row)
    <3> DEFINE new == [row EXCEPT !.body = "edited"]
    <3>1. new \in Row /\ new.seq = row.seq /\ new.id = row.id
      BY <2>2, RowTypes DEF Row
    <3>2. QED BY <2>3, <2>4, <3>1 DEF Edit
  <2>5. CASE EditAndRehash(row)
    <3> DEFINE new == Seal([row EXCEPT !.body = "edited"])
    <3>1. new \in Row /\ new.seq = row.seq /\ new.id = row.id
      BY <2>2, RowTypes DEF Row, Seal
    <3>2. QED BY <2>3, <2>5, <3>1 DEF EditAndRehash
  <2>6. CASE Relink(row)
    <3> DEFINE below == {r \in table : r.seq < row.seq}
               new == Seal([row EXCEPT !.prev = Top(below).hash])
    <3>1. below \in SUBSET Row /\ IsFiniteSet(below)
      BY FS_Subset
    <3>2. Top(below).hash \in Seq(Link)
      BY <3>1, TopType DEF Place
    <3>3. [row EXCEPT !.prev = Top(below).hash] \in Row
      BY <2>2, <3>2, RowTypes
    <3>4. new \in Row /\ new.seq = row.seq /\ new.id = row.id
      BY <2>2, <3>3, RowTypes DEF Row, Seal
    <3>5. QED BY <2>3, <2>6, <3>4 DEF Relink
  <2>7. CASE Delete(row)
    <3>1. Alters(row, {})
      BY <2>7, AuditBounds DEF Delete, Alter, Alters
    <3>2. QED BY <3>1
  <2>8. QED BY <2>1, <2>4, <2>5, <2>6, <2>7
<1>4. CASE UNCHANGED vars
  BY <1>4 DEF vars, Quiet
<1>5. QED BY <1>1, <1>2, <1>3, <1>4 DEF Next

\* The rows a batch makes: numbered on from the head, sealed and linked.
LEMMA ChainRowsAre ==
  ASSUME TypeOK, NEW t \in Txns
  PROVE  /\ \A p \in ToSet(ChainRows(t)) : \E i \in 1..Len(batch[t]) : p = ChainRows(t)[i]
         /\ \A i \in 1..Len(batch[t]) :
              /\ ChainRows(t)[i] \in ToSet(ChainRows(t)) /\ ChainRows(t)[i] \in Row
              /\ ChainRows(t)[i].seq = head[t].seq + i
              /\ ChainRows(t)[i].prev = PreviousAfter(t, i - 1)
              /\ ChainRows(t)[i].hash = PreviousAfter(t, i)
              /\ ChainRows(t)[i] = Seal(ChainRows(t)[i])
<1>1. batch[t] \in Seq(Events)
  BY DEF TypeOK
<1>2. DOMAIN ChainRows(t) = 1..Len(batch[t])
  BY <1>1 DEF ChainRows
<1>3. \A i \in 1..Len(batch[t]) :
        ChainRows(t)[i] = NewRow(PreviousAfter(t, i - 1), head[t].seq + i, batch[t][i], t)
  BY <1>1 DEF ChainRows
<1>4. \A i \in 1..Len(batch[t]) :
        PreviousAfter(t, i) =
          HashOf(PreviousAfter(t, i - 1), head[t].seq + i, batch[t][i], t, "written")
  BY ChainShape
<1>5. \A prev, seq, id, by :
        LET r == NewRow(prev, seq, id, by)
        IN  /\ r.seq = seq /\ r.prev = prev /\ r.hash = HashOf(prev, seq, id, by, "written")
            /\ r = Seal(r)
  BY DEF NewRow, Seal
<1>6. \A i \in 1..Len(batch[t]) : ChainRows(t)[i] \in Row
  BY <1>1, ChainRowsType, ElementOfSeq
<1>7. \A p \in ToSet(ChainRows(t)) : \E i \in 1..Len(batch[t]) : p = ChainRows(t)[i]
  BY <1>2 DEF ToSet
<1>8. ASSUME NEW i \in 1..Len(batch[t])
      PROVE  /\ ChainRows(t)[i].seq = head[t].seq + i
             /\ ChainRows(t)[i].prev = PreviousAfter(t, i - 1)
             /\ ChainRows(t)[i].hash = PreviousAfter(t, i)
             /\ ChainRows(t)[i] = Seal(ChainRows(t)[i])
  <2> HIDE DEF PreviousAfter
  <2>1. ChainRows(t)[i] = NewRow(PreviousAfter(t, i - 1), head[t].seq + i, batch[t][i], t)
    BY <1>3
  <2>2. PreviousAfter(t, i) =
          HashOf(PreviousAfter(t, i - 1), head[t].seq + i, batch[t][i], t, "written")
    BY <1>4
  <2>3. QED BY <2>1, <2>2, <1>5
<1>9. \A i \in 1..Len(batch[t]) : ChainRows(t)[i] \in ToSet(ChainRows(t))
  BY <1>2 DEF ToSet
<1>10. QED BY <1>6, <1>7, <1>8, <1>9

\* The rows of two sequences put together.
LEMMA ToSetConcat ==
  ASSUME NEW S, NEW s \in Seq(S), NEW r \in Seq(S)
  PROVE  ToSet(s \o r) = ToSet(s) \cup ToSet(r)
<1>1. /\ DOMAIN s = 1..Len(s) /\ DOMAIN r = 1..Len(r) /\ Len(s) \in Nat /\ Len(r) \in Nat
      /\ DOMAIN (s \o r) = 1..(Len(s) + Len(r))
  BY ConcatProperties, LenProperties
<1>2. \A i \in 1..(Len(s) + Len(r)) :
        (s \o r)[i] = IF i <= Len(s) THEN s[i] ELSE r[i - Len(s)]
  BY ConcatProperties
<1>3. \A x \in ToSet(s \o r) : x \in ToSet(s) \cup ToSet(r)
  <2>1. SUFFICES ASSUME NEW i \in 1..(Len(s) + Len(r))
                 PROVE  (s \o r)[i] \in ToSet(s) \cup ToSet(r)
    BY <1>1 DEF ToSet
  <2>2. CASE i <= Len(s)
    <3>1. i \in DOMAIN s
      BY <1>1, <2>2
    <3>2. QED BY <3>1, <2>2, <1>2 DEF ToSet
  <2>3. CASE ~(i <= Len(s))
    <3>1. i - Len(s) \in DOMAIN r
      BY <1>1, <2>3
    <3>2. QED BY <3>1, <2>3, <1>2 DEF ToSet
  <2>4. QED BY <2>2, <2>3
<1>4. \A x \in ToSet(s) : x \in ToSet(s \o r)
  <2>1. SUFFICES ASSUME NEW i \in 1..Len(s) PROVE s[i] \in ToSet(s \o r)
    BY <1>1 DEF ToSet
  <2>2. i \in 1..(Len(s) + Len(r)) /\ (s \o r)[i] = s[i]
    BY <1>1, <1>2
  <2>3. QED BY <2>2, <1>1 DEF ToSet
<1>5. \A x \in ToSet(r) : x \in ToSet(s \o r)
  <2>1. SUFFICES ASSUME NEW i \in 1..Len(r) PROVE r[i] \in ToSet(s \o r)
    BY <1>1 DEF ToSet
  <2>2. Len(s) + i \in 1..(Len(s) + Len(r)) /\ (s \o r)[Len(s) + i] = r[i]
    BY <1>1, <1>2
  <2>3. QED BY <2>2, <1>1 DEF ToSet
<1>6. QED BY <1>3, <1>4, <1>5

\* No transaction begins with rows of its own.
LEMMA ToSetEmpty == ToSet(<<>>) = {}
BY DEF ToSet

\* What a transaction that ends leaves the others: either the table is as
\* before, or it is what the transaction saw and no other has rows or a head.
LEMMA EndShape ==
  ASSUME TypeOK, OneAppender, NEW t \in Txns,
         Ends(t, {}) \/ (Commit(t) /\ Ends(t, ToSet(pending[t])))
  PROVE  /\ \A u \in Txns : pending'[u] = IF u = t THEN <<>> ELSE pending[u]
         /\ \A u \in Txns : at'[u] = "chaining" => u # t /\ at[u] = "chaining" /\ head'[u] = head[u]
         /\ \/ table' = table
            \/ /\ table' = Visible(t)
               /\ \A u \in Txns \ {t} : pending[u] = <<>> /\ at[u] # "chaining"
<1>1. \A u \in Txns : pending'[u] = IF u = t THEN <<>> ELSE pending[u]
  BY DEF Ends, TypeOK
<1>2. \A u \in Txns : at'[u] = "chaining" => u # t /\ at[u] = "chaining" /\ head'[u] = head[u]
  BY DEF Ends, TypeOK
<1>3. CASE Ends(t, {})
  <2>1. table' = table
    BY <1>3 DEF Ends
  <2>2. QED BY <1>1, <1>2, <2>1
<1>4. CASE Ends(t, ToSet(pending[t])) /\ pending[t] = <<>>
  <2>1. table' = table
    BY <1>4, ToSetEmpty DEF Ends
  <2>2. QED BY <1>1, <1>2, <2>1
<1>5. CASE Ends(t, ToSet(pending[t])) /\ pending[t] # <<>>
  <2>1. table' = Visible(t)
    BY <1>5 DEF Ends, Visible
  <2>2. lock = t
    BY <1>5 DEF OneAppender
  <2>3. \A u \in Txns \ {t} : pending[u] = <<>> /\ at[u] # "chaining"
    BY <2>2 DEF OneAppender
  <2>4. QED BY <1>1, <1>2, <2>1, <2>3
<1>6. QED BY <1>3, <1>4, <1>5

\* What a transaction that inserts its batch leaves the others.
LEMMA InsertShape ==
  ASSUME TypeOK, OneAppender, NEW t \in Txns, Inserts(t)
  PROVE  /\ \A u \in Txns : ToSet(pending'[u]) = IF u = t THEN ToSet(pending[t]) \cup ToSet(ChainRows(t))
                                                 ELSE ToSet(pending[u])
         /\ \A u \in Txns : at'[u] = "chaining" => u # t /\ at[u] = "chaining" /\ head'[u] = head[u]
         /\ table' = table
<1>1. pending[t] \in Seq(Row) /\ ChainRows(t) \in Seq(Row)
  BY ChainRowsType DEF TypeOK
<1>2. ToSet(pending[t] \o ChainRows(t)) = ToSet(pending[t]) \cup ToSet(ChainRows(t))
  BY <1>1, ToSetConcat
<1>3. \A u \in Txns : pending'[u] = IF u = t THEN pending[t] \o ChainRows(t) ELSE pending[u]
  BY DEF Inserts, TypeOK
<1>4. QED BY <1>2, <1>3 DEF Inserts, TypeOK

-----------------------------------------------------------------------------
(* Keys are unique, and rows are appended above what is there *)

\* A new row is above the head its transaction read under the lock, and DropStored left
\* out the events that are there; an alteration keeps the keys.
LEMMA KeysNext ==
  ASSUME TypeOK, OneAppender, KeysAreUnique, AppendsAbove, [Next]_vars
  PROVE  KeysAreUnique' /\ AppendsAbove'
<1>1. CASE Quiet
  BY <1>1 DEF Quiet, KeysAreUnique, AppendsAbove, Visible
<1>2. ASSUME NEW t \in Txns, ReadHead(t) PROVE KeysAreUnique' /\ AppendsAbove'
  <2>1. \A r \in Visible(t) : r.seq <= Top(Visible(t)).seq
    BY VisibleType, TopType
  <2>2. /\ UNCHANGED <<table, pending>>
        /\ head' = [head EXCEPT ![t] = Top(Visible(t))]
        /\ at' = [at EXCEPT ![t] = "chaining"]
    BY <1>2 DEF ReadHead, Move
  <2>3. \A u \in Txns : /\ u # t => head'[u] = head[u] /\ at'[u] = at[u]
                        /\ head'[t] = Top(Visible(t))
    BY <2>2 DEF TypeOK
  <2>4. QED BY <2>1, <2>2, <2>3 DEF KeysAreUnique, AppendsAbove, Visible
<1>3. ASSUME NEW t \in Txns, Inserts(t) PROVE KeysAreUnique' /\ AppendsAbove'
  <2> DEFINE new == ToSet(ChainRows(t))
  <2>1. \A r \in new, o \in Visible(t) \cup new : r.seq = o.seq \/ r.id = o.id => r = o
    BY <1>3 DEF Inserts, Conflicts
  <2>2. Visible(t)' = Visible(t) \cup new
        /\ \A u \in Txns \ {t} : Visible(u)' = Visible(u)
    BY <1>3, InsertShape DEF Visible
  <2>3. \A p \in new : p.seq > head[t].seq /\ p.seq \in Nat
    <3>1. TAKE p \in new
    <3>2. PICK i \in 1..Len(batch[t]) : p = ChainRows(t)[i]
      BY ChainRowsAre
    <3>3. p.seq = head[t].seq + i /\ head[t].seq \in Nat /\ i \in Nat \ {0}
      BY <3>2, ChainRowsAre DEF TypeOK, Place
    <3>4. QED BY <3>3
  <2>4. \A p \in new, r \in table : r.seq < p.seq
    <3>1. \A r \in table : r.seq <= head[t].seq /\ r.seq \in Nat
      BY <1>3 DEF Inserts, AppendsAbove, Visible, TypeOK, Row
    <3>2. QED BY <3>1, <2>3 DEF TypeOK, Place
  <2>5. KeysAreUnique'
    <3>1. \A q, r \in Visible(t) \cup new : q.seq = r.seq \/ q.id = r.id => q = r
      <4>1. \A q, r \in Visible(t) : q.seq = r.seq \/ q.id = r.id => q = r
        BY DEF KeysAreUnique
      <4>2. QED BY <4>1, <2>1
    <3>2. table' = table
      BY <1>3, InsertShape
    <3>3. QED BY <2>2, <3>1, <3>2 DEF KeysAreUnique
  <2>6. AppendsAbove'
    <3>1. \A u \in Txns : at'[u] = "chaining" =>
            u # t /\ at[u] = "chaining" /\ head'[u] = head[u] /\ Visible(u)' = Visible(u)
      BY <1>3, <2>2, InsertShape
    <3>2. \A u \in Txns : \A p \in ToSet(pending'[u]), r \in table : r.seq < p.seq
      BY <1>3, <2>4, InsertShape DEF AppendsAbove
    <3>3. QED BY <1>3, <3>1, <3>2, InsertShape DEF AppendsAbove
  <2>7. QED BY <2>5, <2>6
<1>4. ASSUME NEW t \in Txns, Ends(t, {}) \/ (Commit(t) /\ Ends(t, ToSet(pending[t])))
      PROVE  KeysAreUnique' /\ AppendsAbove'
  <2>1. Visible(t)' = table' /\ ToSet(pending'[t]) = {}
    BY <1>4, EndShape, ToSetEmpty DEF Visible
  <2>2. CASE table' = table
    <3>1. \A u \in Txns \ {t} : Visible(u)' = Visible(u) /\ pending'[u] = pending[u]
      BY <1>4, <2>2, EndShape DEF Visible
    <3>2. KeysAreUnique'
      BY <2>1, <2>2, <3>1 DEF KeysAreUnique
    <3>3. AppendsAbove'
      BY <1>4, <2>1, <2>2, <3>1, EndShape DEF AppendsAbove
    <3>4. QED BY <3>2, <3>3
  <2>3. CASE /\ table' = Visible(t)
             /\ \A u \in Txns \ {t} : pending[u] = <<>> /\ at[u] # "chaining"
    <3>1. \A u \in Txns : ToSet(pending'[u]) = {} /\ Visible(u)' = Visible(t)
      BY <1>4, <2>1, <2>3, EndShape, ToSetEmpty DEF Visible
    <3>2. \A u \in Txns : at'[u] # "chaining"
      BY <1>4, <2>3, EndShape
    <3>3. QED BY <2>3, <3>1, <3>2 DEF KeysAreUnique, AppendsAbove
  <2>4. QED BY <1>4, <2>2, <2>3, EndShape
<1>5. ASSUME NEW row \in table, NEW rows \in SUBSET Row, Alters(row, rows)
      PROVE  KeysAreUnique' /\ AppendsAbove'
  <2>1. /\ table' = (table \ {row}) \cup rows
        /\ \A r \in rows : rows = {r} /\ r.seq = row.seq /\ r.id = row.id
        /\ UNCHANGED <<pending, at, head>>
    BY <1>5 DEF Alters
  <2>2. \A t \in Txns : row \notin ToSet(pending[t])
    <3>1. row.seq \in Nat
      BY DEF TypeOK, Row
    <3>2. QED BY <3>1 DEF AppendsAbove
  <2>3. \A t \in Txns : Visible(t)' = (Visible(t) \ {row}) \cup rows
    BY <2>1, <2>2 DEF Visible
  <2>4. ASSUME NEW seen, row \in seen,
               \A q, r \in seen : q.seq = r.seq \/ q.id = r.id => q = r
        PROVE  \A q, r \in (seen \ {row}) \cup rows : q.seq = r.seq \/ q.id = r.id => q = r
    BY <2>4, <2>1
  <2>5. KeysAreUnique'
    <3>1. \A t \in Txns : row \in Visible(t)
      BY DEF Visible
    <3>2. QED BY <2>1, <2>3, <2>4, <3>1 DEF KeysAreUnique
  <2>6. AppendsAbove'
    <3>1. \A t \in Txns : at[t] = "chaining" => \A r \in Visible(t)' : r.seq <= head[t].seq
      BY <2>1, <2>3 DEF AppendsAbove, Visible
    <3>2. \A t \in Txns : \A p \in ToSet(pending[t]), r \in table' : r.seq < p.seq
      BY <2>1 DEF AppendsAbove
    <3>3. QED BY <2>1, <3>1, <3>2 DEF AppendsAbove
  <2>7. QED BY <2>5, <2>6
<1>6. QED BY <1>1, <1>2, <1>3, <1>4, <1>5, StepShape

-----------------------------------------------------------------------------
(* The chain *)

\* The top of a chain of n rows is row n.
LEMMA LinkedTop ==
  ASSUME NEW rows \in SUBSET Row, IsFiniteSet(rows), NEW n \in Nat, Linked(rows, n)
  PROVE  /\ Top(rows).seq = n
         /\ n = 0 => rows = {} /\ Top(rows).hash = Genesis
         /\ n # 0 => \E r \in rows : r.seq = n /\ r.hash = Top(rows).hash
<1>1. CASE rows = {}
  <2>1. n = 0
    BY <1>1 DEF Linked
  <2>2. QED BY <1>1, <2>1 DEF Top
<1>2. CASE rows # {}
  <2>1. PICK r \in rows : (\A y \in rows : y.seq <= r.seq)
                          /\ Top(rows) = [seq |-> r.seq, hash |-> r.hash]
    BY <1>2, FiniteTop
  <2>2. r.seq \in 1..n
    BY DEF Linked
  <2>3. PICK q \in rows : q.seq = n
    BY <2>2 DEF Linked
  <2>4. r.seq = n
    BY <2>1, <2>2, <2>3
  <2>5. QED BY <2>1, <2>2, <2>4
<1>3. QED BY <1>1, <1>2

\* A batch chained on the top of what its transaction sees makes it longer.
LEMMA LinkedGrows ==
  ASSUME TypeOK, KeysAreUnique, NEW t \in Txns, NEW n \in Nat,
         Linked(Visible(t), n), head[t] = Top(Visible(t))
  PROVE  Linked(Visible(t) \cup ToSet(ChainRows(t)), n + Len(batch[t]))
<1> DEFINE new == ToSet(ChainRows(t))
           old == Visible(t)
           len == Len(batch[t])
<1>1. old \in SUBSET Row /\ IsFiniteSet(old) /\ len \in Nat
  BY VisibleType DEF TypeOK
<1>2. head[t].seq = n
      /\ (n = 0 => old = {} /\ head[t].hash = Genesis)
      /\ (n # 0 => \E r \in old : r.seq = n /\ r.hash = head[t].hash)
  BY <1>1, LinkedTop
<1>3. /\ \A p \in new : \E i \in 1..len : p = ChainRows(t)[i]
      /\ \A i \in 1..len :
           /\ ChainRows(t)[i] \in new /\ ChainRows(t)[i].seq = n + i
           /\ ChainRows(t)[i].prev = PreviousAfter(t, i - 1)
           /\ ChainRows(t)[i].hash = PreviousAfter(t, i)
           /\ ChainRows(t)[i] = Seal(ChainRows(t)[i])
  BY <1>2, ChainRowsAre
<1>4. PreviousAfter(t, 0) = head[t].hash
  BY ChainShape
<1>5. /\ \A r \in old : r.seq \in 1..n
      /\ \A i \in 1..n : \E r \in old : r.seq = i
      /\ \A r \in old : r = Seal(r) /\ (r.seq = 1 => r.prev = Genesis)
      /\ \A q, r \in old : r.seq = q.seq + 1 => r.prev = q.hash
  BY DEF Linked
<1>6. \A q, r \in old : q.seq = r.seq => q = r
  BY DEF KeysAreUnique
<1> HIDE DEF new, old, len
<1>7. \A p \in new : p.seq \in (n + 1)..(n + len)
  BY <1>1, <1>3
<1>8. \A r \in old \cup new : r.seq \in 1..(n + len)
  <2>1. \A r \in old : r.seq \in 1..(n + len)
    BY <1>1, <1>5
  <2>2. \A r \in new : r.seq \in 1..(n + len)
    BY <1>1, <1>7
  <2>3. QED BY <2>1, <2>2
<1>9. \A i \in 1..(n + len) : \E r \in old \cup new : r.seq = i
  <2>1. TAKE i \in 1..(n + len)
  <2>2. CASE i \in 1..n
    BY <2>2, <1>5
  <2>3. CASE i \notin 1..n
    <3>1. i - n \in 1..len /\ n + (i - n) = i
      BY <2>3, <1>1
    <3>2. QED BY <3>1, <1>3
  <2>4. QED BY <2>2, <2>3
<1>10. \A r \in old \cup new : r = Seal(r) /\ (r.seq = 1 => r.prev = Genesis)
  <2>1. ASSUME NEW p \in new PROVE p = Seal(p) /\ (p.seq = 1 => p.prev = Genesis)
    <3>1. PICK i \in 1..len : p = ChainRows(t)[i]
      BY <1>3
    <3>2. p = Seal(p) /\ p.seq = n + i /\ p.prev = PreviousAfter(t, i - 1)
      BY <3>1, <1>3
    <3>3. CASE p.seq = 1
      <4>1. n = 0 /\ i = 1
        BY <3>2, <3>3, <1>1
      <4>2. p.prev = PreviousAfter(t, 0)
        BY <3>2, <4>1
      <4>3. QED BY <3>2, <4>1, <4>2, <1>2, <1>4
    <3>4. QED BY <3>2, <3>3
  <2>2. QED BY <2>1, <1>5
<1>11. \A q, r \in old \cup new : r.seq = q.seq + 1 => r.prev = q.hash
  <2>1. SUFFICES ASSUME NEW q \in old \cup new, NEW r \in old \cup new, r.seq = q.seq + 1
                 PROVE  r.prev = q.hash
    OBVIOUS
  <2>2. CASE q \in old /\ r \in old
    BY <2>1, <2>2, <1>5
  <2>3. CASE q \in old /\ r \in new
    <3>1. PICK i \in 1..len : r = ChainRows(t)[i]
      BY <2>3, <1>3
    <3>2. r.seq = n + i /\ r.prev = PreviousAfter(t, i - 1)
      BY <3>1, <1>3
    <3>3. q.seq \in 1..n
      BY <2>3, <1>5
    <3>4. i = 1 /\ q.seq = n /\ n # 0
      BY <2>1, <3>2, <3>3, <1>1
    <3>5. r.prev = head[t].hash
      BY <3>2, <3>4, <1>4
    <3>6. QED BY <2>3, <3>4, <3>5, <1>2, <1>6
  <2>4. CASE q \in new /\ r \in old
    <3>1. q.seq \in (n + 1)..(n + len) /\ r.seq \in 1..n
      BY <2>4, <1>5, <1>7
    <3>2. QED BY <3>1, <2>1, <1>1
  <2>5. CASE q \in new /\ r \in new
    <3>1. PICK i \in 1..len : r = ChainRows(t)[i]
      BY <2>5, <1>3
    <3>2. PICK j \in 1..len : q = ChainRows(t)[j]
      BY <2>5, <1>3
    <3>3. r.seq = n + i /\ q.seq = n + j /\ r.prev = PreviousAfter(t, i - 1) /\ q.hash = PreviousAfter(t, j)
      BY <3>1, <3>2, <1>3
    <3>4. i - 1 = j
      BY <2>1, <3>3, <1>1
    <3>5. QED BY <3>3, <3>4
  <2>6. QED BY <2>2, <2>3, <2>4, <2>5
<1>12. Linked(old \cup new, n + len)
  BY <1>8, <1>9, <1>10, <1>11 DEF Linked
<1>13. QED BY <1>12 DEF old, new, len

\* Whoever inserts extends what it saw, and whoever commits makes that the table.
LEMMA ChainNext ==
  ASSUME TypeOK, OneAppender, KeysAreUnique, WritersSeeAChain, [Next]_vars
  PROVE  WritersSeeAChain'
<1>1. SUFFICES ASSUME alterations' = 0
               PROVE  /\ Linked(table', Top(table').seq)
                      /\ \A u \in Txns : Linked(Visible(u)', Top(Visible(u)').seq)
                      /\ \A u \in Txns : at'[u] = "chaining" => head'[u] = Top(Visible(u)')
  BY DEF WritersSeeAChain
<1>2. TypeOK'
  BY TypeNext
<1>3. ASSUME alterations = 0
      PROVE  /\ Linked(table, Top(table).seq)
             /\ \A u \in Txns : Linked(Visible(u), Top(Visible(u)).seq)
             /\ \A u \in Txns : at[u] = "chaining" => head[u] = Top(Visible(u))
  BY <1>3 DEF WritersSeeAChain
<1>4. CASE Quiet
  BY <1>1, <1>3, <1>4 DEF Quiet, Visible
<1>5. ASSUME NEW t \in Txns, ReadHead(t)
      PROVE  /\ Linked(table', Top(table').seq)
             /\ \A u \in Txns : Linked(Visible(u)', Top(Visible(u)').seq)
             /\ \A u \in Txns : at'[u] = "chaining" => head'[u] = Top(Visible(u)')
  <2>1. /\ UNCHANGED <<table, pending, alterations>>
        /\ \A u \in Txns : u # t => head'[u] = head[u] /\ at'[u] = at[u]
        /\ head'[t] = Top(Visible(t))
    BY <1>5 DEF ReadHead, Move, TypeOK
  <2>2. \A u \in Txns : Visible(u)' = Visible(u)
    BY <2>1 DEF Visible
  <2>3. QED BY <1>1, <1>3, <2>1, <2>2
<1>6. ASSUME NEW t \in Txns, Inserts(t)
      PROVE  /\ Linked(table', Top(table').seq)
             /\ \A u \in Txns : Linked(Visible(u)', Top(Visible(u)').seq)
             /\ \A u \in Txns : at'[u] = "chaining" => head'[u] = Top(Visible(u)')
  <2> DEFINE rows == Visible(t) \cup ToSet(ChainRows(t))
  <2>0. PICK n \in Nat : n = Top(Visible(t)).seq
    BY VisibleType, TopType DEF Place
  <2>1. alterations = 0
    BY <1>1, <1>6 DEF Inserts
  <2>2. Visible(t)' = rows /\ \A u \in Txns \ {t} : Visible(u)' = Visible(u)
    BY <1>6, InsertShape DEF Visible
  <2>3. Linked(rows, n + Len(batch[t])) /\ n + Len(batch[t]) \in Nat
    <3>1. head[t] = Top(Visible(t)) /\ Linked(Visible(t), n)
      BY <1>3, <1>6, <2>0, <2>1 DEF Inserts
    <3>2. n + Len(batch[t]) \in Nat
      BY DEF TypeOK
    <3>3. QED BY <3>1, <3>2, LinkedGrows
  <2>4. rows \in SUBSET Row /\ IsFiniteSet(rows)
    BY VisibleType, ChainRowsType, ToSetFinite, FS_Union
  <2>5. Linked(rows, Top(rows).seq)
    BY <2>3, <2>4, LinkedTop
  <2>6. \A u \in Txns : at'[u] = "chaining" => u # t /\ at[u] = "chaining" /\ head'[u] = head[u]
    BY <1>6, InsertShape
  <2>7. table' = table
    BY <1>6, InsertShape
  <2> HIDE DEF rows
  <2>8. QED BY <1>3, <2>1, <2>2, <2>5, <2>6, <2>7
<1>7. ASSUME NEW t \in Txns, Ends(t, {}) \/ (Commit(t) /\ Ends(t, ToSet(pending[t])))
      PROVE  /\ Linked(table', Top(table').seq)
             /\ \A u \in Txns : Linked(Visible(u)', Top(Visible(u)').seq)
             /\ \A u \in Txns : at'[u] = "chaining" => head'[u] = Top(Visible(u)')
  <2>1. alterations = 0
    BY <1>1, <1>7 DEF Ends
  <2>2. Visible(t)' = table'
    BY <1>7, EndShape, ToSetEmpty DEF Visible
  <2>3. CASE table' = table
    <3>1. \A u \in Txns \ {t} : Visible(u)' = Visible(u)
      BY <1>7, <2>3, EndShape DEF Visible
    <3>2. \A u \in Txns : at'[u] = "chaining" => u # t /\ at[u] = "chaining" /\ head'[u] = head[u]
      BY <1>7, EndShape
    <3>3. QED BY <1>3, <2>1, <2>2, <2>3, <3>1, <3>2
  <2>4. CASE /\ table' = Visible(t)
             /\ \A u \in Txns \ {t} : pending[u] = <<>> /\ at[u] # "chaining"
    <3>1. \A u \in Txns : Visible(u)' = Visible(t) /\ at'[u] # "chaining"
      BY <1>7, <2>4, EndShape, ToSetEmpty DEF Visible
    <3>2. QED BY <1>3, <2>1, <2>4, <3>1
  <2>5. QED BY <1>7, <2>3, <2>4, EndShape
<1>8. ASSUME NEW row \in table, NEW rows \in SUBSET Row, Alters(row, rows) PROVE FALSE
  BY <1>1, <1>8 DEF Alters
<1>9. QED BY <1>4, <1>5, <1>6, <1>7, <1>8, StepShape

\* The empty log is a chain that nobody appends to.
LEMMA InitInv == Init => IInv
<1> SUFFICES ASSUME Init PROVE IInv
  OBVIOUS
<1>1. /\ table = {} /\ alterations = 0
      /\ \A t \in Txns : at[t] = "idle" /\ pending[t] = <<>> /\ Visible(t) = {}
  BY ToSetEmpty DEF Init, Visible
<1>2. Linked({}, Top({}).seq)
  BY DEF Linked, Top
<1>3. QED
  BY <1>1, <1>2, ToSetEmpty, InitTypes DEF IInv, OneAppender, KeysAreUnique, AppendsAbove, WritersSeeAChain

\* IInv is inductive.
LEMMA InvNext == IInv /\ [Next]_vars => IInv'
BY TypeNext, OneAppenderNext, KeysNext, ChainNext DEF IInv

\* One transaction appends at a time, the keys stay unique, and until a row is
\* altered the table and what every transaction sees are chains.
THEOREM InvariantHolds == Spec => []IInv
BY InitInv, InvNext, PTL DEF Spec

\* Below a row of a chain there is a shorter chain.
LEMMA LinkedBelow ==
  ASSUME NEW rows \in SUBSET Row, IsFiniteSet(rows), NEW n \in Nat, Linked(rows, n),
         NEW i \in 1..n
  PROVE  Linked({q \in rows : q.seq < i}, i - 1)
<1>1. \A r \in rows : r.seq \in 1..n
  BY DEF Linked
<1>2. \A r \in rows : r.seq < i <=> r.seq \in 1..(i - 1)
  BY <1>1
<1>3. \A j \in 1..(i - 1) : j \in 1..n /\ j < i
  OBVIOUS
<1>4. QED BY <1>2, <1>3 DEF Linked

\* A chain of n rows is ChainedUpTo(n).
LEMMA LinkedIsChained ==
  ASSUME TypeOK, NEW n \in Nat, Linked(table, n)
  PROVE  ChainedUpTo(n)
<1> SUFFICES ASSUME NEW i \in 1..n
             PROVE  \E r \in table : /\ r.seq = i /\ r = Seal(r)
                                     /\ r.prev = Top({q \in table : q.seq < i}).hash
  BY DEF ChainedUpTo
<1> DEFINE below == {q \in table : q.seq < i}
<1>1. below \in SUBSET table /\ table \in SUBSET Row /\ IsFiniteSet(table) /\ IsFiniteSet(below)
  BY FS_Subset DEF TypeOK
<1>2. Linked(below, i - 1) /\ i - 1 \in Nat
  BY <1>1, LinkedBelow
<1> HIDE DEF below
<1>3. /\ i - 1 = 0 => Top(below).hash = Genesis
      /\ i - 1 # 0 => \E q \in below : q.seq = i - 1 /\ q.hash = Top(below).hash
  BY <1>1, <1>2, LinkedTop
<1>4. PICK r \in table : r.seq = i
  BY DEF Linked
<1>5. r = Seal(r) /\ (r.seq = 1 => r.prev = Genesis)
      /\ \A q \in table : r.seq = q.seq + 1 => r.prev = q.hash
  BY DEF Linked
<1>6. r.prev = Top(below).hash
  <2>1. CASE i = 1
    BY <2>1, <1>3, <1>4, <1>5
  <2>2. CASE i # 1
    <3>1. PICK q \in below : q.seq = i - 1 /\ q.hash = Top(below).hash
      BY <2>2, <1>3
    <3>2. q \in table /\ r.seq = q.seq + 1
      BY <3>1, <1>1, <1>4
    <3>3. QED BY <3>1, <3>2, <1>5
  <2>3. QED BY <2>1, <2>2
<1>7. QED BY <1>4, <1>5, <1>6 DEF below

\* A chain up to n has n rows.
LEMMA LinkedCount ==
  ASSUME NEW rows \in SUBSET Row, NEW n \in Nat, Linked(rows, n),
         \A q, r \in rows : q.seq = r.seq => q = r
  PROVE  Cardinality(rows) = n
<1> DEFINE f == [i \in 1..n |-> CHOOSE r \in rows : r.seq = i]
<1>1. \A i \in 1..n : f[i] \in rows /\ f[i].seq = i
  BY DEF Linked
<1>2. \A r \in rows : r.seq \in 1..n /\ f[r.seq] = r
  BY <1>1 DEF Linked
<1> HIDE DEF f
<1>3. f \in [1..n -> rows]
  BY <1>1 DEF f
<1>4. f \in Bijection(1..n, rows)
  <2>1. \A i, j \in 1..n : f[i] = f[j] => i = j
    BY <1>1
  <2>2. \A r \in rows : \E i \in 1..n : f[i] = r
    BY <1>2
  <2>3. QED BY <2>1, <2>2, <1>3 DEF Bijection, Injection, IsInjective, Surjection
<1>5. QED BY <1>4, FS_CountingElements DEF ExistsBijection

\* Whatever the writers do, the committed rows are one gapless chain from
\* genesis, as long as no row was altered around the triggers.
THEOREM GaplessChainHolds == Spec => []GaplessChain
<1>1. IInv => GaplessChain
  <2>1. SUFFICES ASSUME IInv, alterations = 0
                 PROVE  ChainedUpTo(Top(table).seq) /\ Cardinality(table) = Top(table).seq
    BY DEF GaplessChain
  <2>2. TypeOK /\ KeysAreUnique /\ Linked(table, Top(table).seq)
    BY <2>1 DEF IInv, WritersSeeAChain
  <2>3. Top(table).seq \in Nat
    BY <2>2, TopType DEF TypeOK, Place
  <2>4. Cardinality(table) = Top(table).seq
    BY <2>2, <2>3, LinkedCount DEF TypeOK, KeysAreUnique
  <2>5. QED BY <2>2, <2>3, <2>4, LinkedIsChained
<1>2. QED BY <1>1, InvariantHolds, PTL

-----------------------------------------------------------------------------
(* The statements implement the atomic step of EventLog *)

\* The ids of a chain of rows, in the order of their seqs.
EntriesOf(rows) == [i \in 1..Cardinality(rows) |-> (CHOOSE r \in rows : r.seq = i).id]

\* The entries of a chain are the ids of its rows.
LEMMA EntriesAre ==
  ASSUME NEW rows \in SUBSET Row, NEW n \in Nat, Linked(rows, n),
         \A q, r \in rows : q.seq = r.seq => q = r
  PROVE  /\ EntriesOf(rows) \in Seq(Events) /\ Len(EntriesOf(rows)) = n
         /\ \A i \in 1..n : \E r \in rows : r.seq = i /\ EntriesOf(rows)[i] = r.id
         /\ \A r \in rows : r.seq \in 1..n /\ EntriesOf(rows)[r.seq] = r.id
<1>1. EntriesOf(rows) = [i \in 1..n |-> (CHOOSE r \in rows : r.seq = i).id]
  BY LinkedCount DEF EntriesOf
<1>2. \A i \in 1..n : (CHOOSE r \in rows : r.seq = i) \in rows
                      /\ (CHOOSE r \in rows : r.seq = i).seq = i
  BY DEF Linked
<1>3. \A i \in 1..n : \E r \in rows : r.seq = i /\ EntriesOf(rows)[i] = r.id
  BY <1>1, <1>2
<1>4. \A r \in rows : r.seq \in 1..n /\ r.id \in Events
  BY DEF Linked, Row
<1>5. \A i \in 1..n : EntriesOf(rows)[i] \in Events
  BY <1>3, <1>4
<1>6. EntriesOf(rows) \in [1..n -> Events]
  BY <1>1, <1>5
<1>7. \A r \in rows : EntriesOf(rows)[r.seq] = r.id
  BY <1>3, <1>4
<1>8. QED BY <1>3, <1>4, <1>6, <1>7

\* A chain of more rows over the same ones is a log that grew at its end.
LEMMA EntriesGrow ==
  ASSUME NEW old \in SUBSET Row, NEW n \in Nat, Linked(old, n),
         NEW new \in SUBSET Row, NEW m \in Nat, Linked(new, m),
         \A q, r \in new : q.seq = r.seq \/ q.id = r.id => q = r,
         old \subseteq new, n < m
  PROVE  /\ EntriesOf(new) # EntriesOf(old)
         /\ SubSeq(EntriesOf(new), 1, Len(EntriesOf(old))) = EntriesOf(old)
         /\ Log!Range(EntriesOf(new)) \subseteq Events
         /\ Log!Distinct(EntriesOf(new))
<1> DEFINE o == EntriesOf(old)
           e == EntriesOf(new)
<1>1. /\ o \in Seq(Events) /\ Len(o) = n
      /\ \A i \in 1..n : \E r \in old : r.seq = i /\ o[i] = r.id
  BY EntriesAre
<1>2. /\ e \in Seq(Events) /\ Len(e) = m
      /\ \A i \in 1..m : \E r \in new : r.seq = i /\ e[i] = r.id
      /\ \A r \in new : r.seq \in 1..m /\ e[r.seq] = r.id
  BY EntriesAre
<1> HIDE DEF o, e
<1>3. e # o
  BY <1>1, <1>2
<1>4. SubSeq(e, 1, n) = o
  <2>1. \A i \in 1..n : i \in 1..m /\ e[i] \in Events /\ e[i] = o[i]
    BY <1>1, <1>2
  <2>2. SubSeq(e, 1, n) \in Seq(Events) /\ Len(SubSeq(e, 1, n)) = n
        /\ \A i \in 1..n : SubSeq(e, 1, n)[i] = e[i]
    BY <2>1, SubSeqProperties
  <2>3. QED BY <2>1, <2>2, <1>1, SeqEqual
<1>5. Log!Range(e) \subseteq Events
  BY <1>2 DEF Log!Range
<1>6. Log!Distinct(e)
  <2>1. SUFFICES ASSUME NEW i \in 1..m, NEW j \in 1..m, e[i] = e[j] PROVE i = j
    BY <1>2 DEF Log!Distinct
  <2>2. QED BY <2>1, <1>2
<1>7. QED BY <1>1, <1>3, <1>4, <1>5, <1>6 DEF o, e

\* A commit with rows appends their ids and publishes its domain changes in one step;
\* every other step leaves the log and the changes as they are.
LEMMA LogNext ==
  ASSUME IInv, IInv', [Next]_vars, alterations' = 0
  PROVE  Log!Next \/ UNCHANGED Log!vars
<1>1. CASE UNCHANGED <<table, changes>>
  BY <1>1 DEF Log!vars, Entries
<1>2. ASSUME NEW t \in Txns, Commit(t) PROVE Log!Next \/ UNCHANGED Log!vars
  <2>1. /\ table' = table \cup ToSet(pending[t])
        /\ domainWrites[t] => pending[t] # <<>>
        /\ changes' = IF domainWrites[t] THEN changes \cup {t} ELSE changes
        /\ alterations' = alterations
    BY <1>2 DEF Commit, End
  <2>2. CASE pending[t] = <<>>
    <3>1. UNCHANGED <<table, changes>>
      BY <2>1, <2>2, ToSetEmpty
    <3>2. QED BY <3>1, <1>1
  <2>3. CASE pending[t] # <<>>
    <3>1. PICK n \in Nat : Linked(table, n)
      BY <2>1, TopType DEF IInv, WritersSeeAChain, TypeOK, Place
    <3>2. PICK m \in Nat : Linked(table', m)
      <4>1. IsFiniteSet(table') /\ table' \in SUBSET Row
        BY DEF IInv, TypeOK
      <4>2. QED BY <4>1, TopType DEF IInv, WritersSeeAChain, Place
    <3>3. PICK p \in ToSet(pending[t]) : TRUE
      <4>1. pending[t] \in Seq(Row)
        BY DEF IInv, TypeOK
      <4>2. 1 \in DOMAIN pending[t]
        BY <4>1, <2>3
      <4>3. QED BY <4>2 DEF ToSet
    <3>4. n < m
      <4>1. \A r \in table : r.seq < p.seq
        BY DEF IInv, AppendsAbove
      <4>2. p.seq \in 1..m
        BY <2>1, <3>2 DEF Linked
      <4>3. ~(p.seq \in 1..n)
        <5>1. SUFFICES ASSUME p.seq \in 1..n PROVE FALSE
          OBVIOUS
        <5>2. PICK r \in table : r.seq = p.seq
          BY <5>1, <3>1 DEF Linked
        <5>3. QED BY <5>1, <5>2, <4>1
      <4>4. QED BY <4>2, <4>3
    <3>5. /\ table \in SUBSET Row /\ table' \in SUBSET Row /\ table \subseteq table'
          /\ \A q, r \in table' : q.seq = r.seq \/ q.id = r.id => q = r
      BY <2>1 DEF IInv, TypeOK, KeysAreUnique
    <3>6. Entries = EntriesOf(table) /\ Entries' = EntriesOf(table')
      BY DEF Entries, EntriesOf
    <3>7. Log!Grows(t)
      BY <2>1, <3>1, <3>2, <3>4, <3>5, <3>6, EntriesGrow DEF Log!Grows
    <3>8. QED BY <3>7 DEF Log!Next
  <2>4. QED BY <2>2, <2>3
<1>3. CASE AlterStep
  <2>1. alterations' # 0
    BY <1>3 DEF AlterStep, Edit, EditAndRehash, Relink, Delete, Alter, IInv, TypeOK
  <2>2. QED BY <2>1
<1>4. ASSUME NEW t \in Txns, TxnStep(t), ~Commit(t) PROVE UNCHANGED <<table, changes>>
  BY <1>4 DEF TxnStep, Begin, DomainWrite, AppendOne, AppendBrowserBatch, CallAppend, Lock,
              DropStored, NothingNew, ReadHead, Insert, Rollback
<1>5. ASSUME NEW v \in Verifiers, VerifyStep(v) PROVE UNCHANGED <<table, changes>>
  BY <1>5 DEF VerifyStep, BeginVerify, ReadRows, Judge, Anchor, GiveUp
<1>6. CASE UNCHANGED vars
  BY <1>1, <1>6 DEF vars
<1>7. QED BY <1>1, <1>2, <1>3, <1>4, <1>5, <1>6 DEF Next

\* Until a row is altered, the writers' statements implement EventLog: the
\* table is a list that grows at its end, with distinct ids, and no domain
\* change becomes visible without an event in the same step.
THEOREM LogImplemented == Spec => ImplementsLog
<1>1. Init => Log!Init
  <2>1. SUFFICES ASSUME Init PROVE Entries = <<>> /\ changes = {}
    BY DEF Log!Init
  <2>2. Cardinality(table) = 0
    BY <2>1, FS_EmptySet DEF Init
  <2>3. QED BY <2>1, <2>2 DEF Init, Entries
<1>2. IInv /\ IInv' /\ [Next]_vars
        => [alterations' = 0 => Log!Next \/ UNCHANGED Log!vars]_<<table, changes>>
  BY LogNext
<1>3. QED BY <1>1, <1>2, InvariantHolds, PTL DEF Spec, ImplementsLog

-----------------------------------------------------------------------------
(* Verifications *)

\* The rows below a row.
Below(rows, row) == {q \in rows : q.seq < row.seq}

\* A row that does not follow from the rows below it.
Broken(rows, row) == Breaks(row, Top(Below(rows, row)))

\* The rows a verification has read, as the table has them now.
ReadBy(v) == {r \in table : r.seq <= check[v].last}

\* A row of the anchor's place and hash is there.
Stands(a) == \E r \in table : r.seq = a.seq /\ r.hash = a.hash

\* What a verification remembers at each of its stages.
Sane(v) ==
  /\ check[v].since <= alterations
  /\ check[v].anchors \subseteq anchors
  /\ check[v].at = "idle" =>
       /\ check[v].last = 0 /\ check[v].previous = Genesis /\ ~check[v].failed
       /\ check[v].stored = {} /\ check[v].anchors = {} /\ ~check[v].warned
  /\ check[v].at = "anchoring" => check[v].last # 0
  /\ check[v].at \in {"anchoring", "passed"} =>
       ~check[v].failed /\ check[v].anchors \subseteq check[v].stored

\* While nothing is altered since a verification began, what it remembers is
\* what the table has: where it is, whether a row read is broken, and which of
\* the anchored rows are there.
Current(v) ==
  check[v].since = alterations =>
    /\ Top(ReadBy(v)) = [seq |-> check[v].last, hash |-> check[v].previous]
    /\ check[v].failed <=> \E r \in ReadBy(v) : Broken(table, r)
    /\ \A s \in check[v].stored : \E r \in ReadBy(v) : r.seq = s.seq /\ r.hash = s.hash
    /\ \A r \in ReadBy(v) : [seq |-> r.seq, hash |-> r.hash] \in check[v].anchors
                              => [seq |-> r.seq, hash |-> r.hash] \in check[v].stored

\* Where nothing was altered every anchor stands, and no verification reports a break.
UnalteredPasses ==
  alterations = 0 => /\ \A a \in anchors : Stands(a)
                     /\ \A v \in Verifiers : check[v].at # "broken"

\* The last link of a hash names a transaction that has ended.
Old(hash) == hash # Genesis /\ at[hash[Len(hash)][3]] = "done"

\* So does every hash of the table, of an anchor and of a verification's place.
HashesAreOld ==
  /\ \A r \in table : at[r.by] = "done" /\ Old(r.hash)
  /\ \A t \in Txns : \A r \in ToSet(pending[t]) :
       r.by = t /\ r.hash # Genesis /\ r.hash[Len(r.hash)][3] = t
  /\ \A t \in Txns : at[t] = "done" => pending[t] = <<>>
  /\ \A a \in anchors : Old(a.hash)
  /\ \A v \in Verifiers : check[v].last # 0 => Old(check[v].previous)

\* A break that was reported is still there, and one that is there is reported.
BreakIsThere(v) ==
  check[v].since = alterations =>
    /\ check[v].at = "broken" => \/ \E r \in table : Broken(table, r)
                                 \/ \E a \in check[v].anchors : ~Stands(a)
    /\ check[v].warned =>
         \E u \in Verifiers : /\ check[u].at = "broken" /\ check[u].since = alterations
                              /\ check[u].anchors \subseteq check[v].anchors
    /\ check[v].at \in {"anchoring", "passed"} => ~check[v].warned

\* The three, of every verification.
ChecksAreRight == \A v \in Verifiers : Sane(v) /\ Current(v) /\ BreakIsThere(v)

\* What every step of writers, verifiers and alterations preserves.
VInv == IInv /\ ChecksAreRight /\ UnalteredPasses /\ HashesAreOld

\* The top of rows of distinct seqs is the one above all the others.
LEMMA TopIs ==
  ASSUME NEW rows \in SUBSET Row, NEW m \in rows, \A y \in rows : y.seq <= m.seq,
         \A q, r \in rows : q.seq = r.seq => q = r
  PROVE  Top(rows) = [seq |-> m.seq, hash |-> m.hash]
<1>1. PICK r \in rows : (\A y \in rows : y.seq <= r.seq)
                        /\ Top(rows) = [seq |-> r.seq, hash |-> r.hash]
  BY TopOf
<1>2. m.seq \in Nat /\ r.seq \in Nat /\ m.seq <= r.seq /\ r.seq <= m.seq
  BY <1>1 DEF Row
<1>3. QED BY <1>1, <1>2

\* Rows have a top row, or there are none.
LEMMA TopCases ==
  ASSUME NEW rows \in SUBSET Row, IsFiniteSet(rows)
  PROVE  \/ rows = {} /\ Top(rows) = [seq |-> 0, hash |-> Genesis]
         \/ \E r \in rows : /\ \A y \in rows : y.seq <= r.seq
                            /\ Top(rows) = [seq |-> r.seq, hash |-> r.hash]
<1>1. CASE rows = {}
  BY <1>1 DEF Top
<1>2. CASE rows # {}
  BY <1>2, FiniteTop
<1>3. QED BY <1>1, <1>2

\* The rows below a row are finitely many rows.
LEMMA BelowType ==
  ASSUME NEW rows \in SUBSET Row, IsFiniteSet(rows), NEW row
  PROVE  Below(rows, row) \in SUBSET Row /\ IsFiniteSet(Below(rows, row))
<1>1. Below(rows, row) \in SUBSET rows
  BY DEF Below
<1>2. QED BY <1>1, FS_Subset

\* The table is a finite set of rows of distinct seqs.
LEMMA TableType ==
  ASSUME TypeOK, KeysAreUnique
  PROVE  /\ table \in SUBSET Row /\ IsFiniteSet(table)
         /\ \A r \in table : r.seq \in Nat \ {0}
         /\ \A q, r \in table : q.seq = r.seq => q = r
BY DEF TypeOK, KeysAreUnique, Row

\* What a verification has read is part of the table.
LEMMA ReadByType ==
  ASSUME TypeOK, NEW v \in Verifiers
  PROVE  ReadBy(v) \in SUBSET table /\ ReadBy(v) \in SUBSET Row /\ IsFiniteSet(ReadBy(v))
<1>1. ReadBy(v) \in SUBSET table
  BY DEF ReadBy
<1>2. QED BY <1>1, FS_Subset DEF TypeOK

\* A verification that knows its place compares each row with the one below it.
LEMMA BeforeIsBelow ==
  ASSUME TypeOK, KeysAreUnique, NEW v \in Verifiers, Unread(v) # {},
         Top(ReadBy(v)) = [seq |-> check[v].last, hash |-> check[v].previous],
         NEW r \in NextRows(v)
  PROVE  Before(v, r) = Top(Below(table, r))
<1> DEFINE N == NextRows(v)
           L == check[v].last
<1>1. /\ N \in SUBSET table
      /\ \A p \in N : \A q \in Unread(v) : q.seq <= p.seq => q \in N
  BY NextRowsType
<1>2. /\ \A q \in table : q.seq \in Nat
      /\ L \in Nat
      /\ \A q \in table : q \in Unread(v) <=> q.seq > L
      /\ \A q \in table : q \in ReadBy(v) <=> q.seq <= L
      /\ \A p \in N : p \in Unread(v)
  BY TableType DEF TypeOK, Check, Unread, ReadBy, NextRows
<1>3. r \in table /\ r.seq \in Nat /\ L < r.seq
  BY <1>1, <1>2
<1>4. CASE \A q \in N : r.seq <= q.seq
  <2>1. Before(v, r) = [seq |-> L, hash |-> check[v].previous]
    BY <1>4 DEF Before
  <2>2. \A q \in table : q.seq < r.seq <=> q.seq <= L
    <3>1. TAKE q \in table
    <3>2. CASE q.seq <= L
      BY <3>2, <1>2, <1>3
    <3>3. CASE q.seq > L
      <4>1. q.seq <= r.seq => q \in N
        BY <3>3, <1>1, <1>2
      <4>2. ~(q.seq < r.seq)
        BY <4>1, <1>2, <1>3, <1>4
      <4>3. QED BY <4>2, <3>3, <1>2
    <3>4. QED BY <3>2, <3>3, <1>2
  <2>3. Below(table, r) = ReadBy(v)
    BY <2>2 DEF Below, ReadBy
  <2>4. QED BY <2>1, <2>3
<1>5. CASE ~ \A q \in N : r.seq <= q.seq
  <2> DEFINE B == {q \in N : q.seq < r.seq}
  <2>1. Before(v, r) = Top(B)
    BY <1>5 DEF Before
  <2>2. B # {} /\ B \in SUBSET Row /\ IsFiniteSet(B) /\ B \in SUBSET Below(table, r)
    <3>1. B \in SUBSET table
      BY <1>1
    <3>2. B # {}
      BY <1>1, <1>2, <1>3, <1>5
    <3>3. QED BY <3>1, <3>2, TableType, FS_Subset DEF Below
  <2>3. PICK m \in B : (\A y \in B : y.seq <= m.seq)
                       /\ Top(B) = [seq |-> m.seq, hash |-> m.hash]
    BY <2>2, FiniteTop
  <2>4. \A y \in Below(table, r) : y.seq <= m.seq
    <3>1. TAKE y \in Below(table, r)
    <3>2. y \in table /\ y.seq < r.seq /\ y.seq \in Nat /\ m \in N /\ m.seq \in Nat /\ L < m.seq
      BY <1>1, <1>2, <2>3 DEF Below
    <3>3. CASE y.seq > L
      <4>1. y \in N
        BY <3>2, <3>3, <1>1, <1>2, <1>3
      <4>2. QED BY <4>1, <3>2, <2>3
    <3>4. CASE y.seq <= L
      BY <3>2, <3>4, <1>2
    <3>5. QED BY <3>2, <3>3, <3>4, <1>2
  <2>5. Top(Below(table, r)) = [seq |-> m.seq, hash |-> m.hash]
    <3>1. Below(table, r) \in SUBSET Row /\ m \in Below(table, r)
      BY <2>2, TableType DEF Below
    <3>2. \A p, q \in Below(table, r) : p.seq = q.seq => p = q
      BY TableType DEF Below
    <3>3. QED BY <3>1, <3>2, <2>4, TopIs
  <2>6. QED BY <2>1, <2>3, <2>5
<1>6. QED BY <1>4, <1>5

\* What it has read after the next statement.
LEMMA ReadOn ==
  ASSUME TypeOK, KeysAreUnique, NEW v \in Verifiers, Unread(v) # {}
  PROVE  LET now == {r \in table : r.seq <= Top(NextRows(v)).seq}
         IN  /\ now = ReadBy(v) \cup NextRows(v)
             /\ Top(now) = [seq |-> Top(NextRows(v)).seq, hash |-> Top(NextRows(v)).hash]
             /\ Top(NextRows(v)).seq # 0
             /\ \E r \in table : r.hash = Top(NextRows(v)).hash
<1> DEFINE N == NextRows(v)
           L == check[v].last
           now == {r \in table : r.seq <= Top(N).seq}
<1>1. /\ N \in SUBSET table /\ N # {} /\ IsFiniteSet(N)
      /\ \A p \in N : \A q \in Unread(v) : q.seq <= p.seq => q \in N
  BY NextRowsType
<1>2. /\ \A q \in table : q.seq \in Nat \ {0}
      /\ L \in Nat
      /\ \A q \in table : q \in Unread(v) <=> q.seq > L
      /\ \A q \in table : q \in ReadBy(v) <=> q.seq <= L
      /\ \A p \in N : p \in Unread(v)
  BY TableType DEF TypeOK, Check, Unread, ReadBy, NextRows
<1>3. PICK m \in N : (\A y \in N : y.seq <= m.seq)
                     /\ Top(N) = [seq |-> m.seq, hash |-> m.hash]
  BY <1>1, TableType, FiniteTop
<1>4. m \in table /\ m.seq \in Nat \ {0} /\ L < m.seq /\ Top(N).seq = m.seq /\ Top(N).hash = m.hash
  BY <1>1, <1>2, <1>3
<1>5. \A q \in table : q.seq <= m.seq <=> q \in ReadBy(v) \/ q \in N
  BY <1>1, <1>2, <1>3, <1>4
<1>6. now = ReadBy(v) \cup N
  BY <1>1, <1>4, <1>5 DEF ReadBy
<1>7. Top(now) = [seq |-> m.seq, hash |-> m.hash]
  <2>1. now \in SUBSET Row /\ m \in now /\ \A y \in now : y.seq <= m.seq
    BY <1>4, TableType
  <2>2. \A p, q \in now : p.seq = q.seq => p = q
    BY TableType
  <2>3. QED BY <2>1, <2>2, TopIs
<1>8. QED BY <1>4, <1>6, <1>7

\* Rows of which none is broken are numbered without a gap, and the hash of
\* each one holds the history below it.
LEMMA UnbrokenIsGapless ==
  ASSUME NEW rows \in SUBSET Row, IsFiniteSet(rows), \A r \in rows : ~Broken(rows, r)
  PROVE  \A i \in 1..Top(rows).seq : \E r \in rows : r.seq = i
<1> DEFINE m == Top(rows).seq
           Gap == {i \in 1..m : ~ \E r \in rows : r.seq = i}
           Dist == {m - i : i \in Gap}
<1>1. m \in Nat
  BY TopType DEF Place
<1>2. SUFFICES ASSUME Gap # {} PROVE FALSE
  OBVIOUS
<1>3. Dist \in SUBSET Nat /\ Dist # {}
  <2>1. \A i \in Gap : m - i \in Nat
    BY <1>1
  <2>2. QED BY <2>1, <1>2
<1>4. PICK d \in Dist : \A e \in Dist : d <= e
  BY <1>3, LeastNumber
<1>5. PICK i \in Gap : d = m - i
  BY <1>4
<1>6. i \in 1..m /\ \A r \in rows : r.seq # i
  BY <1>5
<1>7. \E r \in rows : r.seq = m
  BY <1>1, <1>6, TopCases
<1>8. i + 1 \in 1..m
  BY <1>1, <1>6, <1>7
<1>9. i + 1 \notin Gap
  <2>1. SUFFICES ASSUME i + 1 \in Gap PROVE FALSE
    OBVIOUS
  <2>2. m - (i + 1) \in Dist
    BY <2>1
  <2>3. m - i <= m - (i + 1)
    BY <2>2, <1>4, <1>5
  <2>4. QED BY <2>3, <1>1, <1>6
<1>10. PICK r \in rows : r.seq = i + 1
  BY <1>8, <1>9
<1>11. Top(Below(rows, r)).seq = i
  <2>1. r.seq = Top(Below(rows, r)).seq + 1
    BY DEF Broken, Breaks
  <2>2. Top(Below(rows, r)).seq \in Nat
    BY BelowType, TopType DEF Place
  <2>3. QED BY <2>1, <2>2, <1>6, <1>10
<1>12. \E q \in Below(rows, r) : q.seq = i
  BY <1>6, <1>11, BelowType, TopCases
<1>13. QED BY <1>6, <1>12 DEF Below

\* What a row adds to the hash of the one before.
HistoryOf(row) == <<row.seq, row.id, row.by, row.body>>

\* The hash of an unbroken row holds, place by place, the rows up to it.
LEMMA HashTells ==
  ASSUME NEW rows \in SUBSET Row, IsFiniteSet(rows), \A r \in rows : ~Broken(rows, r),
         \A q, r \in rows : q.seq = r.seq => q = r
  PROVE  \A r \in rows : /\ Len(r.hash) = r.seq
                         /\ \A q \in rows : q.seq <= r.seq => r.hash[q.seq] = HistoryOf(q)
<1> DEFINE Tells(r) == /\ Len(r.hash) = r.seq
                       /\ \A q \in rows : q.seq <= r.seq => r.hash[q.seq] = HistoryOf(q)
           Bad == {r.seq : r \in {x \in rows : ~Tells(x)}}
<1> HIDE DEF Tells
<1>0. \A r \in rows : r.seq \in Nat \ {0} /\ r.prev \in Seq(Link) /\ r.hash \in Seq(Link)
                      /\ HistoryOf(r) \in Link
  BY DEF Row, Link, HistoryOf
<1>1. SUFFICES ASSUME Bad # {} PROVE FALSE
  <2>1. \A r \in rows : Tells(r)
    BY <1>1
  <2>2. QED BY <2>1 DEF Tells
<1>2. Bad \in SUBSET Nat
  BY <1>0
<1>3. PICK n \in Bad : \A k \in Bad : n <= k
  BY <1>1, <1>2, LeastNumber
<1>4. PICK r \in rows : r.seq = n /\ ~Tells(r)
  BY <1>3
<1>5. \A q \in rows : q.seq < r.seq => Tells(q)
  <2>1. SUFFICES ASSUME NEW q \in rows, q.seq < r.seq, ~Tells(q) PROVE FALSE
    OBVIOUS
  <2>2. q.seq \in Bad
    BY <2>1
  <2>3. n <= q.seq
    BY <2>2, <1>3
  <2>4. QED BY <2>1, <2>3, <1>0, <1>4
<1> HIDE DEF Bad
<1> DEFINE top == Top(Below(rows, r))
<1>6. r.seq = top.seq + 1 /\ r.prev = top.hash /\ r = Seal(r)
  BY DEF Broken, Breaks
<1>7. r.hash = Append(r.prev, HistoryOf(r))
  <2>1. Seal(r).hash = Append(r.prev, HistoryOf(r))
    BY DEF Seal, HashOf, HistoryOf, Row
  <2>2. QED BY <1>6, <2>1
<1>8. /\ Len(r.prev) = top.seq /\ top.seq \in Nat
      /\ \A q \in rows : q.seq <= top.seq => r.prev[q.seq] = HistoryOf(q)
  <2>1. CASE Below(rows, r) = {} /\ top = [seq |-> 0, hash |-> Genesis]
    BY <2>1, <1>0, <1>6 DEF Genesis
  <2>2. CASE \E q \in Below(rows, r) : top = [seq |-> q.seq, hash |-> q.hash]
    <3>0. PICK p \in Below(rows, r) : top = [seq |-> p.seq, hash |-> p.hash]
      BY <2>2
    <3> HIDE DEF top
    <3>1. PICK q \in rows : q.seq < r.seq /\ top.seq = q.seq /\ top.hash = q.hash
      BY <3>0 DEF Below
    <3>2. Tells(q)
      BY <3>1, <1>5
    <3>3. QED BY <3>1, <3>2, <1>0, <1>6 DEF Tells
  <2>3. QED BY <2>1, <2>2, BelowType, TopCases
<1> HIDE DEF top
<1>9. Len(r.hash) = r.seq
  BY <1>0, <1>6, <1>7, <1>8, AppendProperties
<1>10. ASSUME NEW q \in rows, q.seq <= r.seq PROVE r.hash[q.seq] = HistoryOf(q)
  <2>1. CASE q.seq = r.seq
    <3>1. q = r
      BY <2>1
    <3>2. QED BY <3>1, <1>0, <1>6, <1>7, <1>8, AppendProperties
  <2>2. CASE q.seq # r.seq
    <3>1. q.seq \in 1..Len(r.prev) /\ q.seq <= top.seq
      BY <2>2, <1>0, <1>6, <1>8, <1>10
    <3>2. r.hash[q.seq] = r.prev[q.seq]
      BY <3>1, <1>0, <1>7, AppendProperties
    <3>3. QED BY <3>1, <3>2, <1>8
  <2>3. QED BY <2>1, <2>2
<1>11. Tells(r)
  BY <1>9, <1>10 DEF Tells
<1>12. QED BY <1>4, <1>11

\* No row of a chain is broken.
LEMMA LinkedUnbroken ==
  ASSUME TypeOK, KeysAreUnique, NEW n \in Nat, Linked(table, n), NEW r \in table
  PROVE  ~Broken(table, r)
<1>1. r.seq \in 1..n
  BY DEF Linked
<1>2. PICK q \in table : /\ q.seq = r.seq /\ q = Seal(q)
                         /\ q.prev = Top({p \in table : p.seq < r.seq}).hash
  BY <1>1, LinkedIsChained DEF ChainedUpTo
<1>3. q = r
  BY <1>2, TableType
<1>4. Linked(Below(table, r), r.seq - 1) /\ r.seq - 1 \in Nat
  BY <1>1, TableType, LinkedBelow DEF Below
<1>5. Top(Below(table, r)).seq = r.seq - 1
  BY <1>4, TableType, BelowType, LinkedTop
<1>6. QED BY <1>1, <1>2, <1>3, <1>5 DEF Broken, Breaks, Below

\* A transaction that ended stays so, and a hash that names it stays old.
LEMMA OldStays ==
  ASSUME NEW hash \in Seq(Link), Old(hash), \A u \in Txns : at[u] = "done" => at'[u] = "done"
  PROVE  Old(hash)'
<1>1. hash[Len(hash)] \in Link
  <2>1. Len(hash) \in 1..Len(hash)
    BY EmptySeq DEF Old, Genesis
  <2>2. QED BY <2>1, ElementOfSeq
<1>2. hash[Len(hash)][3] \in Txns
  BY <1>1 DEF Link
<1>3. QED BY <1>2 DEF Old

\* The last link of a hash names the transaction that wrote the row.
LEMMA HashOfNamesWriter ==
  ASSUME NEW prev \in Seq(Link), NEW seq \in Nat \ {0}, NEW id \in Events, NEW by \in Txns,
         NEW body \in {"written", "edited"}
  PROVE  LET hash == HashOf(prev, seq, id, by, body)
         IN  hash # Genesis /\ hash[Len(hash)][3] = by
<1> DEFINE link == <<seq, id, by, body>>
           hash == HashOf(prev, seq, id, by, body)
<1>1. link \in Link /\ link[3] = by
  BY DEF Link
<1>2. hash = Append(prev, link)
  BY DEF HashOf
<1> HIDE DEF link, hash
<1>3. hash # <<>> /\ Len(hash) = Len(prev) + 1 /\ hash[Len(prev) + 1] = link
  BY <1>1, <1>2, AppendProperties
<1>4. QED BY <1>1, <1>3 DEF Genesis, hash

\* A transaction's step leaves the verifications alone; it may add rows to the
\* table, above those that are there, by ending.
LEMMA TxnEffect ==
  ASSUME IInv, NEW t \in Txns, TxnStep(t)
  PROVE  /\ UNCHANGED <<check, anchors, alterations>>
         /\ \A u \in Txns : at[u] = "done" => at'[u] = "done"
         /\ table \subseteq table'
         /\ \A p \in table' \ table : /\ p \in ToSet(pending[t])
                                      /\ at[t] # "done" /\ at'[t] = "done"
                                      /\ \A r \in table : r.seq < p.seq
<1> USE DEF Move, txnVars
<1>1. UNCHANGED <<check, anchors, alterations>>
  BY DEF TxnStep, Begin, DomainWrite, AppendOne, AppendBrowserBatch, CallAppend, Lock,
         DropStored, NothingNew, ReadHead, Insert, Commit, Rollback, End
<1>2. \A u \in Txns : at[u] = "done" => at'[u] = "done"
  BY DEF TxnStep, Begin, DomainWrite, AppendOne, AppendBrowserBatch, CallAppend, Lock,
         DropStored, NothingNew, ReadHead, Insert, Commit, Rollback, End, IInv, TypeOK
<1>3. CASE table' = table
  BY <1>1, <1>2, <1>3
<1>4. CASE Commit(t)
  <2>1. table' = table \cup ToSet(pending[t]) /\ at[t] = "open" /\ at'[t] = "done"
    BY <1>4 DEF Commit, End, IInv, TypeOK
  <2>2. \A p \in ToSet(pending[t]), r \in table : r.seq < p.seq
    BY DEF IInv, AppendsAbove
  <2>3. QED BY <1>1, <1>2, <2>1, <2>2
<1>5. QED
  BY <1>3, <1>4 DEF TxnStep, Begin, DomainWrite, AppendOne, AppendBrowserBatch, CallAppend, Lock,
         DropStored, NothingNew, ReadHead, Insert, Rollback

\* A transaction that adds rows to the table has ended with that step.
LEMMA TxnHashes ==
  ASSUME IInv, HashesAreOld, NEW t \in Txns, TxnStep(t)
  PROVE  HashesAreOld'
<1>1. /\ UNCHANGED <<check, anchors>>
      /\ \A u \in Txns : at[u] = "done" => at'[u] = "done"
      /\ \A p \in table' \ table : p \in ToSet(pending[t]) /\ at'[t] = "done"
  BY TxnEffect
<1>2. /\ \A r \in table : r.by \in Txns /\ r.hash \in Seq(Link)
      /\ \A a \in anchors : a.hash \in Seq(Link)
      /\ \A v \in Verifiers : check[v].previous \in Seq(Link)
  BY DEF IInv, TypeOK, Row, Place, Check
<1>3. \A r \in table' : at'[r.by] = "done" /\ Old(r.hash)'
  <2>1. ASSUME NEW r \in table PROVE at'[r.by] = "done" /\ Old(r.hash)'
    <3>1. at[r.by] = "done" /\ Old(r.hash)
      BY DEF HashesAreOld
    <3>2. QED BY <3>1, <1>1, <1>2, OldStays
  <2>2. ASSUME NEW r \in table', r \notin table PROVE at'[r.by] = "done" /\ Old(r.hash)'
    <3>1. r \in ToSet(pending[t]) /\ at'[t] = "done"
      BY <2>2, <1>1
    <3>2. r.by = t /\ r.hash # Genesis /\ r.hash[Len(r.hash)][3] = t
      BY <3>1 DEF HashesAreOld
    <3>3. QED BY <3>1, <3>2 DEF Old
  <2>3. QED BY <2>1, <2>2
<1>4. \A a \in anchors : Old(a.hash)'
  BY <1>1, <1>2, OldStays DEF HashesAreOld
<1>5. \A v \in Verifiers : check[v].last # 0 => Old(check[v].previous)'
  BY <1>1, <1>2, OldStays DEF HashesAreOld
<1>6. \A u \in Txns : \A p \in ToSet(pending'[u]) :
        p.by = u /\ p.hash # Genesis /\ p.hash[Len(p.hash)][3] = u
  <2>1. CASE pending' = pending
    BY <2>1 DEF HashesAreOld
  <2>2. CASE End(t)
    <3>1. \A u \in Txns : ToSet(pending'[u]) \subseteq ToSet(pending[u])
      BY <2>2, ToSetEmpty DEF End, IInv, TypeOK
    <3>2. QED BY <3>1 DEF HashesAreOld
  <2>3. CASE Insert(t) /\ pending' # pending
    <3>1. Inserts(t) /\ TypeOK /\ OneAppender
      BY <2>3 DEF Insert, Inserts, IInv
    <3>2. \A u \in Txns : ToSet(pending'[u]) =
            IF u = t THEN ToSet(pending[t]) \cup ToSet(ChainRows(t)) ELSE ToSet(pending[u])
      BY <3>1, InsertShape
    <3>3. ASSUME NEW p \in ToSet(ChainRows(t))
          PROVE  p.by = t /\ p.hash # Genesis /\ p.hash[Len(p.hash)][3] = t
      <4>1. PICK i \in 1..Len(batch[t]) : p = ChainRows(t)[i]
        BY <3>1, ChainRowsAre
      <4>2. p = NewRow(PreviousAfter(t, i - 1), head[t].seq + i, batch[t][i], t)
        BY <4>1, <3>1 DEF ChainRows, TypeOK
      <4>3. /\ PreviousAfter(t, i - 1) \in Seq(Link) /\ head[t].seq + i \in Nat \ {0}
            /\ batch[t][i] \in Events
        <5>1. i - 1 \in 0..Len(batch[t])
          BY <3>1 DEF TypeOK
        <5>2. QED BY <3>1, <5>1, ChainShape DEF TypeOK, Place
      <4>4. p.by = t /\ p.hash = HashOf(PreviousAfter(t, i - 1), head[t].seq + i, batch[t][i], t, "written")
        BY <4>2 DEF NewRow
      <4> DEFINE h == HashOf(PreviousAfter(t, i - 1), head[t].seq + i, batch[t][i], t, "written")
      <4>5. h # Genesis /\ h[Len(h)][3] = t
        BY <4>3, HashOfNamesWriter
      <4> HIDE DEF h
      <4>6. p.hash = h
        BY <4>4 DEF h
      <4>7. QED BY <4>4, <4>5, <4>6
    <3>4. QED BY <3>2, <3>3 DEF HashesAreOld
  <2>4. QED
    BY <2>1, <2>2, <2>3 DEF TxnStep, Begin, DomainWrite, AppendOne, AppendBrowserBatch, CallAppend,
         Lock, DropStored, NothingNew, ReadHead, Commit, Rollback
<1>7. \A u \in Txns : at'[u] = "done" => pending'[u] = <<>>
  BY DEF HashesAreOld, TxnStep, Begin, DomainWrite, AppendOne, AppendBrowserBatch, CallAppend, Lock,
         DropStored, NothingNew, ReadHead, Insert, Commit, Rollback, End, Move, txnVars, IInv, TypeOK
<1>8. QED BY <1>1, <1>3, <1>4, <1>5, <1>6, <1>7 DEF HashesAreOld

\* Rows committed above the place of a verification leave all it remembers as it is: an
\* anchor it loaded names a transaction that had ended, none of the new rows.
LEMMA TxnVerified ==
  ASSUME VInv, NEW t \in Txns, TxnStep(t)
  PROVE  ChecksAreRight' /\ UnalteredPasses'
<1>1. /\ check' = check /\ anchors' = anchors /\ alterations' = alterations
      /\ table \subseteq table'
      /\ \A p \in table' \ table : /\ p \in ToSet(pending[t]) /\ at[t] # "done"
                                   /\ \A r \in table : r.seq < p.seq
  BY TxnEffect DEF VInv
<1>2. TypeOK /\ KeysAreUnique /\ \A p \in ToSet(pending[t]) : p.seq \in Nat \ {0}
  <2>1. pending[t] \in Seq(Row)
    BY DEF VInv, IInv, TypeOK
  <2>2. ToSet(pending[t]) \in SUBSET Row
    BY <2>1, ToSetFinite
  <2>3. \A p \in ToSet(pending[t]) : p.seq \in Nat \ {0}
    BY <2>2 DEF Row
  <2>4. QED BY <2>3 DEF VInv, IInv
<1>3. \A r \in table : Below(table', r) = Below(table, r)
  <2>1. \A r \in table, q \in table' : q.seq < r.seq => q \in table
    BY <1>1, <1>2, TableType
  <2>2. QED BY <1>1, <2>1 DEF Below
<1>4. \A r \in table : Broken(table', r) <=> Broken(table, r)
  BY <1>3 DEF Broken
<1>5. \A a \in anchors : Stands(a)' <=> Stands(a)
  <2>1. \A a \in anchors : Stands(a) => Stands(a)'
    BY <1>1 DEF Stands
  <2>2. ASSUME NEW a \in anchors, NEW r \in table', r \notin table, r.hash = a.hash PROVE FALSE
    <3>1. r \in ToSet(pending[t]) /\ at[t] # "done"
      BY <1>1, <2>2
    <3>2. r.hash[Len(r.hash)][3] = t
      BY <3>1 DEF VInv, HashesAreOld
    <3>3. at[a.hash[Len(a.hash)][3]] = "done"
      BY DEF VInv, HashesAreOld, Old
    <3>4. QED BY <2>2, <3>1, <3>2, <3>3
  <2>3. QED BY <2>1, <2>2 DEF Stands
<1>6. UnalteredPasses'
  BY <1>1, <1>5 DEF VInv, UnalteredPasses
<1>7. ASSUME NEW v \in Verifiers PROVE Sane(v)'
  BY <1>1 DEF VInv, ChecksAreRight, Sane
<1>8. ASSUME NEW v \in Verifiers PROVE Current(v)'
  <2>1. SUFFICES ASSUME check[v].since = alterations
                 PROVE  /\ Top(ReadBy(v)') = [seq |-> check[v].last, hash |-> check[v].previous]
                        /\ check[v].failed <=> \E r \in ReadBy(v)' : Broken(table', r)
                        /\ \A s \in check[v].stored : \E r \in ReadBy(v)' : r.seq = s.seq /\ r.hash = s.hash
                        /\ \A r \in ReadBy(v)' : [seq |-> r.seq, hash |-> r.hash] \in check[v].anchors
                              => [seq |-> r.seq, hash |-> r.hash] \in check[v].stored
    BY <1>1 DEF Current
  <2>2. Top(ReadBy(v)) = [seq |-> check[v].last, hash |-> check[v].previous]
    BY <2>1 DEF VInv, ChecksAreRight, Current
  <2>3. ReadBy(v)' = ReadBy(v)
    <3>1. check[v].last \in Nat
      BY <1>2 DEF TypeOK, Check
    <3>2. ASSUME NEW p \in table', p \notin table PROVE ~(p.seq <= check[v].last)
      <4>1. p.seq \in Nat \ {0} /\ \A r \in table : r.seq < p.seq
        BY <1>1, <1>2, <3>2
      <4>2. check[v].last = 0 \/ \E r \in table : r.seq = check[v].last
        BY <1>2, <2>2, ReadByType, TopCases
      <4>3. QED BY <3>1, <4>1, <4>2
    <3>3. QED BY <1>1, <3>2 DEF ReadBy
  <2>4. ReadBy(v) \in SUBSET table
    BY <1>2, ReadByType
  <2>5. QED BY <1>4, <2>1, <2>3, <2>4 DEF VInv, ChecksAreRight, Current
<1>9. ASSUME NEW v \in Verifiers PROVE BreakIsThere(v)'
  <2>1. check[v].anchors \subseteq anchors
    BY DEF VInv, ChecksAreRight, Sane
  <2>2. (\E r \in table : Broken(table, r)) => \E r \in table' : Broken(table', r)
    BY <1>1, <1>4
  <2>3. (\E a \in check[v].anchors : ~Stands(a)) => \E a \in check[v].anchors : ~Stands(a)'
    BY <1>5, <2>1
  <2>4. QED BY <1>1, <2>2, <2>3 DEF VInv, ChecksAreRight, BreakIsThere
<1>10. QED BY <1>6, <1>7, <1>8, <1>9 DEF ChecksAreRight

\* What a verification's step changes, and that it is right of the others.
LEMMA CheckEffect ==
  ASSUME VInv, NEW v \in Verifiers, VerifyStep(v)
  PROVE  /\ UNCHANGED <<table, at, pending, alterations>>
         /\ anchors \subseteq anchors'
         /\ \A u \in Verifiers \ {v} :
              check'[u] = check[u] /\ Sane(u)' /\ Current(u)' /\ BreakIsThere(u)'
<1>1. UNCHANGED <<table, at, pending, alterations>> /\ anchors \subseteq anchors'
  BY DEF VerifyStep, BeginVerify, ReadRows, Judge, Anchor, GiveUp, txnVars
<1>2. check[v].at # "broken" /\ \A u \in Verifiers \ {v} : check'[u] = check[u]
  BY DEF VerifyStep, BeginVerify, ReadRows, Judge, Anchor, GiveUp, VInv, IInv, TypeOK
<1>3. ASSUME NEW u \in Verifiers \ {v} PROVE Sane(u)' /\ Current(u)' /\ BreakIsThere(u)'
  <2>1. Sane(u) /\ Current(u) /\ BreakIsThere(u)
    BY DEF VInv, ChecksAreRight
  <2>2. Sane(u)'
    BY <1>1, <1>2, <2>1 DEF Sane
  <2>3. Current(u)'
    BY <1>1, <1>2, <2>1 DEF Current, ReadBy, Broken, Below
  <2>4. BreakIsThere(u)'
    BY <1>1, <1>2, <2>1 DEF BreakIsThere, Broken, Below, Stands
  <2>5. QED BY <2>2, <2>3, <2>4
<1>4. QED BY <1>1, <1>2, <1>3

\* A verification begins with nothing read.
LEMMA BeginRight ==
  ASSUME VInv, NEW v \in Verifiers, BeginVerify(v)
  PROVE  Sane(v)' /\ Current(v)' /\ BreakIsThere(v)'
<1>1. /\ check[v].at = "idle" /\ UNCHANGED <<table, anchors, alterations>>
      /\ check'[v].at = "reading" /\ check'[v].anchors = anchors /\ check'[v].since = alterations
      /\ check'[v].last = check[v].last /\ check'[v].previous = check[v].previous
      /\ check'[v].failed = check[v].failed /\ check'[v].stored = check[v].stored
      /\ check'[v].warned = \E u \in Verifiers : check[u].at = "broken" /\ check[u].since = alterations
      /\ \A u \in Verifiers \ {v} : check'[u] = check[u]
  BY DEF BeginVerify, VInv, IInv, TypeOK, Check
<1>2. /\ check[v].last = 0 /\ check[v].previous = Genesis /\ ~check[v].failed
      /\ check[v].stored = {} /\ alterations \in Nat
  BY <1>1, AuditBounds DEF VInv, ChecksAreRight, Sane, IInv, TypeOK
<1>3. Sane(v)'
  BY <1>1, <1>2 DEF Sane
<1>4. ReadBy(v)' = {}
  <2>1. \A r \in table : r.seq \in Nat \ {0}
    BY TableType DEF VInv, IInv
  <2>2. QED BY <1>1, <1>2, <2>1 DEF ReadBy
<1>5. Current(v)'
  BY <1>1, <1>2, <1>4 DEF Current, Top
<1>6. \A u \in Verifiers : check[u].anchors \subseteq anchors
  BY DEF VInv, ChecksAreRight, Sane
<1>7. BreakIsThere(v)'
  BY <1>1, <1>6 DEF BreakIsThere
<1>8. QED BY <1>3, <1>5, <1>7

\* Each statement of a verification goes on from the place it remembers.
LEMMA ReadRight ==
  ASSUME VInv, NEW v \in Verifiers, ReadRows(v)
  PROVE  /\ Sane(v)' /\ Current(v)' /\ BreakIsThere(v)'
         /\ Old(check'[v].previous)
<1> DEFINE N == NextRows(v)
           key(r) == [seq |-> r.seq, hash |-> r.hash]
           kept == {x \in N : \E a \in check[v].anchors : a.seq = x.seq}
<1>1. /\ check[v].at = "reading" /\ Unread(v) # {} /\ UNCHANGED <<table, at, anchors, alterations>>
      /\ check'[v].at = "reading" /\ check'[v].anchors = check[v].anchors
      /\ check'[v].since = check[v].since /\ check'[v].warned = check[v].warned
      /\ check'[v].last = Top(N).seq /\ check'[v].previous = Top(N).hash
      /\ check'[v].failed = (check[v].failed \/ \E r \in N : Breaks(r, Before(v, r)))
      /\ check'[v].stored = check[v].stored \cup {key(r) : r \in kept}
      /\ \A u \in Verifiers \ {v} : check'[u] = check[u]
  BY DEF ReadRows, VInv, IInv, TypeOK, Check, txnVars
<1>2. TypeOK /\ KeysAreUnique /\ Sane(v) /\ Current(v) /\ BreakIsThere(v)
  BY DEF VInv, IInv, ChecksAreRight
<1>3. /\ ReadBy(v)' = ReadBy(v) \cup N
      /\ Top(ReadBy(v)') = [seq |-> Top(N).seq, hash |-> Top(N).hash]
      /\ \E r \in table : r.hash = Top(N).hash
  BY <1>1, <1>2, ReadOn DEF ReadBy
<1>4. Sane(v)'
  BY <1>1, <1>2 DEF Sane
<1>5. Old(check'[v].previous)
  BY <1>1, <1>3 DEF VInv, HashesAreOld
<1>6. Current(v)'
  <2>1. SUFFICES ASSUME check[v].since = alterations
                 PROVE  /\ Top(ReadBy(v)') = [seq |-> check'[v].last, hash |-> check'[v].previous]
                        /\ check'[v].failed <=> \E r \in ReadBy(v)' : Broken(table, r)
                        /\ \A s \in check'[v].stored : \E r \in ReadBy(v)' : r.seq = s.seq /\ r.hash = s.hash
                        /\ \A r \in ReadBy(v)' : key(r) \in check[v].anchors => key(r) \in check'[v].stored
    BY <1>1 DEF Current
  <2>2. /\ Top(ReadBy(v)) = [seq |-> check[v].last, hash |-> check[v].previous]
        /\ check[v].failed <=> \E r \in ReadBy(v) : Broken(table, r)
        /\ \A s \in check[v].stored : \E r \in ReadBy(v) : r.seq = s.seq /\ r.hash = s.hash
        /\ \A r \in ReadBy(v) : key(r) \in check[v].anchors => key(r) \in check[v].stored
    BY <1>2, <2>1 DEF Current
  <2>3. \A r \in N : Breaks(r, Before(v, r)) <=> Broken(table, r)
    BY <1>1, <1>2, <2>2, BeforeIsBelow DEF Broken
  <2> HIDE DEF N
  <2>4. check'[v].failed <=> \E r \in ReadBy(v)' : Broken(table, r)
    BY <1>1, <1>3, <2>2, <2>3
  <2>5. \A s \in check'[v].stored : \E r \in ReadBy(v)' : r.seq = s.seq /\ r.hash = s.hash
    BY <1>1, <1>3, <2>2
  <2>6. \A r \in ReadBy(v)' : key(r) \in check[v].anchors => key(r) \in check'[v].stored
    <3>1. \A r \in N : key(r) \in check[v].anchors => r \in kept
      OBVIOUS
    <3>2. QED BY <1>1, <1>3, <2>2, <3>1
  <2>7. QED BY <1>1, <1>3, <2>4, <2>5, <2>6
<1>7. BreakIsThere(v)'
  BY <1>1, <1>2 DEF BreakIsThere
<1>8. QED BY <1>4, <1>5, <1>6, <1>7

\* A step that only ends a verification, or moves it to its anchoring.
LEMMA MoveRight ==
  ASSUME VInv, NEW v \in Verifiers, NEW pc,
         check' = [check EXCEPT ![v].at = pc], pc \notin {"idle", "broken"},
         pc \in {"anchoring", "passed"} =>
           /\ ~check[v].failed /\ check[v].anchors \subseteq check[v].stored
           /\ check[v].since = alterations => ~check[v].warned,
         pc = "anchoring" => check[v].last # 0,
         UNCHANGED <<table, alterations>>, anchors \subseteq anchors',
         check[v].at # "broken"
  PROVE  Sane(v)' /\ Current(v)' /\ BreakIsThere(v)'
<1>1. /\ check'[v] = [check[v] EXCEPT !.at = pc]
      /\ check[v] \in Check /\ \A u \in Verifiers \ {v} : check'[u] = check[u]
  BY DEF VInv, IInv, TypeOK
<1>2. Sane(v) /\ Current(v) /\ BreakIsThere(v)
  BY DEF VInv, ChecksAreRight
<1>3. /\ check'[v].at = pc /\ check'[v].anchors = check[v].anchors
      /\ check'[v].since = check[v].since /\ check'[v].warned = check[v].warned
      /\ check'[v].last = check[v].last /\ check'[v].previous = check[v].previous
      /\ check'[v].failed = check[v].failed /\ check'[v].stored = check[v].stored
  BY <1>1 DEF Check
<1>4. Sane(v)'
  BY <1>2, <1>3 DEF Sane
<1>5. Current(v)'
  BY <1>2, <1>3 DEF Current, ReadBy, Broken, Below
<1>6. BreakIsThere(v)'
  BY <1>1, <1>2, <1>3 DEF BreakIsThere
<1>7. QED BY <1>4, <1>5, <1>6

\* What a verification has found when no row is left to read.
LEMMA AllRead ==
  ASSUME VInv, NEW v \in Verifiers, Unread(v) = {}, check[v].since = alterations
  PROVE  /\ check[v].failed <=> \E r \in table : Broken(table, r)
         /\ \A a \in check[v].anchors : a \in check[v].stored <=> Stands(a)
<1>1. TypeOK /\ KeysAreUnique /\ Current(v)
  BY DEF VInv, IInv, ChecksAreRight
<1>2. ReadBy(v) = table
  <2>1. \A r \in table : r.seq \in Nat /\ check[v].last \in Nat
    BY <1>1, TableType DEF TypeOK, Check
  <2>2. QED BY <2>1 DEF ReadBy, Unread
<1>3. \A a \in check[v].anchors : a = [seq |-> a.seq, hash |-> a.hash]
  BY <1>1 DEF TypeOK, Check, Place
<1>4. QED BY <1>1, <1>2, <1>3 DEF Current, Stands

\* It reports a break if a row was broken or an anchor unmatched, and it does so whenever
\* an earlier verification did.
LEMMA JudgeRight ==
  ASSUME VInv, NEW v \in Verifiers, Judge(v)
  PROVE  Sane(v)' /\ Current(v)' /\ BreakIsThere(v)'
<1>1. /\ check[v].at = "reading" /\ Unread(v) = {}
      /\ UNCHANGED <<table, anchors, alterations>>
  BY DEF Judge
<1>2. Sane(v) /\ Current(v) /\ BreakIsThere(v) /\ check[v] \in Check
  BY DEF VInv, ChecksAreRight, IInv, TypeOK
<1>3. CASE check[v].failed \/ ~(check[v].anchors \subseteq check[v].stored)
  <2>1. check' = [check EXCEPT ![v].at = "broken"]
    BY <1>3 DEF Judge
  <2>2. /\ check'[v] = [check[v] EXCEPT !.at = "broken"]
        /\ \A u \in Verifiers \ {v} : check'[u] = check[u]
    BY <2>1 DEF VInv, IInv, TypeOK
  <2>3. /\ check'[v].at = "broken" /\ check'[v].anchors = check[v].anchors
        /\ check'[v].since = check[v].since /\ check'[v].warned = check[v].warned
        /\ check'[v].last = check[v].last /\ check'[v].previous = check[v].previous
        /\ check'[v].failed = check[v].failed /\ check'[v].stored = check[v].stored
    BY <1>2, <2>2 DEF Check
  <2>4. Sane(v)'
    BY <1>1, <1>2, <2>3 DEF Sane
  <2>5. Current(v)'
    BY <1>1, <1>2, <2>3 DEF Current, ReadBy, Broken, Below
  <2>6. BreakIsThere(v)'
    <3>1. check[v].since = alterations =>
            (\E r \in table : Broken(table, r)) \/ \E a \in check[v].anchors : ~Stands(a)
      BY <1>1, <1>3, AllRead
    <3>2. check[v].since = alterations /\ check[v].warned =>
            \E u \in Verifiers \ {v} : /\ check[u].at = "broken" /\ check[u].since = alterations
                                       /\ check[u].anchors \subseteq check[v].anchors
      BY <1>1, <1>2 DEF BreakIsThere
    <3>3. QED BY <1>1, <2>2, <2>3, <3>1, <3>2 DEF BreakIsThere, Broken, Below, Stands
  <2>7. QED BY <2>4, <2>5, <2>6
<1>4. CASE ~check[v].failed /\ check[v].anchors \subseteq check[v].stored
  <2> DEFINE pc == IF check[v].last > 0 THEN "anchoring" ELSE "passed"
  <2>1. check' = [check EXCEPT ![v].at = pc]
    BY <1>4 DEF Judge
  <2>2. check[v].since = alterations => ~check[v].warned
    <3>1. SUFFICES ASSUME check[v].since = alterations, check[v].warned PROVE FALSE
      OBVIOUS
    <3>2. PICK u \in Verifiers : /\ check[u].at = "broken" /\ check[u].since = alterations
                                 /\ check[u].anchors \subseteq check[v].anchors
      BY <1>2, <3>1 DEF BreakIsThere
    <3>3. (\E r \in table : Broken(table, r)) \/ \E a \in check[u].anchors : ~Stands(a)
      BY <3>2 DEF VInv, ChecksAreRight, BreakIsThere
    <3>4. QED BY <1>1, <1>4, <3>1, <3>2, <3>3, AllRead
  <2>3. pc = "anchoring" => check[v].last # 0
    BY <1>2 DEF Check
  <2>4. pc \in {"anchoring", "passed"}
    OBVIOUS
  <2> HIDE DEF pc
  <2>5. pc \notin {"idle", "broken"} /\ anchors \subseteq anchors' /\ check[v].at # "broken"
    BY <1>1, <2>4
  <2>6. QED BY <1>1, <1>4, <2>1, <2>2, <2>3, <2>5, MoveRight
<1>5. QED BY <1>3, <1>4

\* A verification's step keeps VInv: its own part by the lemmas above, and what it
\* anchors is a row of the table.
LEMMA VerifyVerified ==
  ASSUME VInv, NEW v \in Verifiers, VerifyStep(v)
  PROVE  ChecksAreRight' /\ UnalteredPasses' /\ HashesAreOld'
<1>1. /\ UNCHANGED <<table, at, pending, alterations>>
      /\ anchors \subseteq anchors'
      /\ \A u \in Verifiers \ {v} :
           check'[u] = check[u] /\ Sane(u)' /\ Current(u)' /\ BreakIsThere(u)'
  BY CheckEffect
<1>2. TypeOK /\ KeysAreUnique /\ Sane(v) /\ Current(v) /\ BreakIsThere(v) /\ check[v] \in Check
  BY DEF VInv, ChecksAreRight, IInv, TypeOK
<1>3. /\ Sane(v)' /\ Current(v)' /\ BreakIsThere(v)'
      /\ check'[v].last # 0 => Old(check'[v].previous)
  <2>1. ASSUME check'[v].last = check[v].last, check'[v].previous = check[v].previous
        PROVE  check'[v].last # 0 => Old(check'[v].previous)
    BY <2>1 DEF VInv, HashesAreOld
  <2>2. CASE BeginVerify(v)
    <3>1. check'[v].last = check[v].last /\ check'[v].previous = check[v].previous
      BY <2>2 DEF BeginVerify, VInv, IInv, TypeOK, Check
    <3>2. QED BY <2>1, <2>2, <3>1, BeginRight
  <2>3. CASE ReadRows(v)
    BY <2>3, ReadRight
  <2>4. CASE Judge(v)
    <3>1. check'[v].last = check[v].last /\ check'[v].previous = check[v].previous
      BY <2>4, <1>2 DEF Judge, VInv, IInv, TypeOK, Check
    <3>2. QED BY <2>1, <2>4, <3>1, JudgeRight
  <2>5. CASE Anchor(v)
    <3>1. check' = [check EXCEPT ![v].at = "passed"] /\ check[v].at = "anchoring"
      BY <2>5 DEF Anchor
    <3>2. check'[v].last = check[v].last /\ check'[v].previous = check[v].previous
      BY <3>1, <1>2 DEF VInv, IInv, TypeOK, Check
    <3>3. /\ ~check[v].failed /\ check[v].anchors \subseteq check[v].stored
          /\ check[v].since = alterations => ~check[v].warned
      BY <1>2, <3>1 DEF Sane, BreakIsThere
    <3>4. "passed" \notin {"idle", "broken"} /\ "passed" # "anchoring" /\ check[v].at # "broken"
      BY <3>1
    <3>5. Sane(v)' /\ Current(v)' /\ BreakIsThere(v)'
      BY <1>1, <3>1, <3>3, <3>4, MoveRight
    <3>6. QED BY <2>1, <3>2, <3>5
  <2>6. CASE GiveUp(v)
    <3>1. check' = [check EXCEPT ![v].at = "stopped"] /\ check[v].at # "broken"
      BY <2>6 DEF GiveUp
    <3>2. check'[v].last = check[v].last /\ check'[v].previous = check[v].previous
      BY <3>1, <1>2 DEF VInv, IInv, TypeOK, Check
    <3>3. "stopped" \notin {"idle", "broken", "anchoring", "passed"}
      OBVIOUS
    <3>4. Sane(v)' /\ Current(v)' /\ BreakIsThere(v)'
      BY <1>1, <3>1, <3>3, MoveRight
    <3>5. QED BY <2>1, <3>2, <3>4
  <2>7. QED BY <2>2, <2>3, <2>4, <2>5, <2>6 DEF VerifyStep
<1>4. ChecksAreRight'
  BY <1>1, <1>3 DEF ChecksAreRight
<1>5. CASE anchors' = anchors
  <2>1. UnalteredPasses'
    <3>1. SUFFICES ASSUME alterations = 0, check'[v].at = "broken" PROVE FALSE
      BY <1>1, <1>5 DEF VInv, UnalteredPasses, Stands
    <3>2. check'[v].since = alterations
      <4>1. check'[v].since <= alterations /\ check'[v] \in Check
        <5>1. TypeOK'
          BY <1>2, VerifyTypes
        <5>2. QED BY <1>1, <1>3, <5>1 DEF Sane, TypeOK
      <4>2. QED BY <3>1, <4>1 DEF Check
    <3>3. (\E r \in table : Broken(table, r)) \/ \E a \in anchors : ~Stands(a)
      <4>1. check'[v].anchors \subseteq anchors
        BY <1>3, <1>5 DEF Sane
      <4>2. QED
        BY <1>1, <1>3, <3>1, <3>2, <4>1 DEF BreakIsThere, Broken, Below, Stands
    <3>4. \A r \in table : ~Broken(table, r)
      <4>1. Linked(table, Top(table).seq) /\ Top(table).seq \in Nat
        BY <1>2, <3>1, TopType DEF VInv, IInv, WritersSeeAChain, TypeOK, Place
      <4>2. QED BY <1>2, <4>1, LinkedUnbroken
    <3>5. QED BY <3>1, <3>3, <3>4 DEF VInv, UnalteredPasses
  <2>2. HashesAreOld'
    BY <1>1, <1>3, <1>5 DEF VInv, HashesAreOld, Old
  <2>3. QED BY <1>4, <2>1, <2>2
<1>6. CASE Anchor(v)
  <2> DEFINE a == [seq |-> check[v].last, hash |-> check[v].previous]
  <2>1. /\ anchors' = anchors \cup {a} /\ check[v].at = "anchoring"
        /\ check'[v].at = "passed"
    BY <1>2, <1>6 DEF Anchor, VInv, IInv, TypeOK, Check
  <2>2. check[v].last # 0 /\ check[v].since <= alterations
    BY <1>2, <2>1 DEF Sane
  <2>3. alterations = 0 => Stands(a)
    <3>1. SUFFICES ASSUME alterations = 0 PROVE Stands(a)
      OBVIOUS
    <3>2. check[v].since = alterations
      BY <1>2, <2>2, <3>1 DEF Check
    <3>3. Top(ReadBy(v)) = a
      BY <1>2, <3>2 DEF Current
    <3>4. \E r \in ReadBy(v) : r.seq = a.seq /\ r.hash = a.hash
      BY <1>2, <2>2, <3>3, ReadByType, TopCases
    <3>5. QED BY <1>2, <3>4, ReadByType DEF Stands
  <2>4. UnalteredPasses'
    BY <1>1, <2>1, <2>3 DEF VInv, UnalteredPasses, Stands
  <2>5. Old(a.hash)
    BY <2>2 DEF VInv, HashesAreOld
  <2>6. HashesAreOld'
    BY <1>1, <1>3, <2>1, <2>5 DEF VInv, HashesAreOld, Old
  <2>7. QED BY <1>4, <2>4, <2>6
<1>7. QED BY <1>5, <1>6 DEF VerifyStep, BeginVerify, ReadRows, Judge, GiveUp

\* After an alteration no verification under way is current, and a row rewritten keeps
\* the name of its writer.
LEMMA AlterVerified ==
  ASSUME VInv, AlterStep
  PROVE  ChecksAreRight' /\ UnalteredPasses' /\ HashesAreOld'
<1>1. PICK row \in table : Edit(row) \/ EditAndRehash(row) \/ Relink(row) \/ Delete(row)
  BY DEF AlterStep
<1>2. /\ UNCHANGED <<at, pending, check, anchors>> /\ alterations' = alterations + 1
      /\ alterations \in Nat
  BY <1>1, AuditBounds DEF Edit, EditAndRehash, Relink, Delete, Alter, txnVars, VInv, IInv, TypeOK
<1>3. ChecksAreRight'
  <2>1. SUFFICES ASSUME NEW v \in Verifiers PROVE Sane(v)' /\ Current(v)' /\ BreakIsThere(v)'
    BY DEF ChecksAreRight
  <2>2. Sane(v) /\ check[v].since \in Nat
    BY AuditBounds DEF VInv, ChecksAreRight, IInv, TypeOK, Check
  <2>3. check'[v].since # alterations' /\ check'[v].since <= alterations'
    BY <1>2, <2>2 DEF Sane
  <2>4. QED BY <1>2, <2>2, <2>3 DEF Sane, Current, BreakIsThere
<1>4. UnalteredPasses'
  BY <1>2 DEF UnalteredPasses
<1>5. row \in Row /\ at[row.by] = "done" /\ Old(row.hash) /\ table \in SUBSET Row /\ IsFiniteSet(table)
  BY DEF VInv, IInv, TypeOK, HashesAreOld
<1>6. \A r \in table' \ table : at[r.by] = "done" /\ Old(r.hash)
  <2>1. ASSUME NEW new \in Row, new.by = row.by PROVE Seal(new).by = row.by /\ Old(Seal(new).hash)
    <3>1. Seal(new).by = row.by
          /\ Seal(new).hash = HashOf(new.prev, new.seq, new.id, row.by, new.body)
      BY <2>1 DEF Seal, Row
    <3>2. /\ new.prev \in Seq(Link) /\ new.seq \in Nat \ {0} /\ new.id \in Events /\ row.by \in Txns
          /\ new.body \in {"written", "edited"}
      BY <2>1, <1>5 DEF Row
    <3> DEFINE h == HashOf(new.prev, new.seq, new.id, row.by, new.body)
    <3>3. h # Genesis /\ h[Len(h)][3] = row.by
      BY <3>2, HashOfNamesWriter
    <3> HIDE DEF h
    <3>4. Seal(new).hash = h
      BY <3>1 DEF h
    <3>5. QED BY <1>5, <3>1, <3>3, <3>4 DEF Old
  <2>2. CASE Edit(row)
    BY <1>5, <2>2 DEF Edit, Alter, Row
  <2>3. CASE EditAndRehash(row)
    <3> DEFINE new == [row EXCEPT !.body = "edited"]
    <3>1. new \in Row /\ new.by = row.by
      BY <1>5, RowTypes DEF Row
    <3>2. QED BY <1>5, <2>1, <2>3, <3>1 DEF EditAndRehash, Alter
  <2>4. CASE Relink(row)
    <3> DEFINE below == {r \in table : r.seq < row.seq}
               new == [row EXCEPT !.prev = Top(below).hash]
    <3>1. below \in SUBSET Row /\ IsFiniteSet(below)
      BY <1>5, FS_Subset
    <3>2. Top(below).hash \in Seq(Link)
      BY <3>1, TopType DEF Place
    <3>3. new \in Row /\ new.by = row.by
      BY <1>5, <3>2, RowTypes DEF Row
    <3>4. QED BY <1>5, <2>1, <2>4, <3>3 DEF Relink, Alter
  <2>5. CASE Delete(row)
    BY <2>5 DEF Delete, Alter
  <2>6. QED BY <1>1, <2>2, <2>3, <2>4, <2>5
<1>7. HashesAreOld'
  BY <1>2, <1>6 DEF VInv, HashesAreOld, Old
<1>8. QED BY <1>3, <1>4, <1>7

\* VInv is inductive.
LEMMA VInvNext == VInv /\ [Next]_vars => VInv'
<1> SUFFICES ASSUME VInv, [Next]_vars PROVE VInv'
  OBVIOUS
<1>1. IInv'
  BY InvNext DEF VInv
<1>2. CASE UNCHANGED vars
  <2>1. /\ UNCHANGED <<table, at, pending, check, anchors, alterations>>
        /\ ChecksAreRight /\ UnalteredPasses /\ HashesAreOld
    BY <1>2 DEF vars, txnVars, VInv
  <2>2. ChecksAreRight'
    <3>1. SUFFICES ASSUME NEW v \in Verifiers PROVE Sane(v)' /\ Current(v)' /\ BreakIsThere(v)'
      BY DEF ChecksAreRight
    <3>2. Sane(v) /\ Current(v) /\ BreakIsThere(v)
      BY <2>1 DEF ChecksAreRight
    <3>3. Sane(v)'
      BY <2>1, <3>2 DEF Sane
    <3>4. Current(v)'
      BY <2>1, <3>2 DEF Current, ReadBy, Broken, Below
    <3>5. BreakIsThere(v)'
      BY <2>1, <3>2 DEF BreakIsThere, Stands, Broken, Below
    <3>6. QED BY <3>3, <3>4, <3>5
  <2>3. UnalteredPasses'
    BY <2>1 DEF UnalteredPasses, Stands
  <2>4. HashesAreOld'
    BY <2>1 DEF HashesAreOld, Old
  <2>5. QED BY <1>1, <2>2, <2>3, <2>4 DEF VInv
<1>3. ASSUME NEW t \in Txns, TxnStep(t) PROVE VInv'
  BY <1>1, <1>3, TxnHashes, TxnVerified DEF VInv
<1>4. ASSUME NEW v \in Verifiers, VerifyStep(v) PROVE VInv'
  BY <1>1, <1>4, VerifyVerified DEF VInv
<1>5. CASE AlterStep
  BY <1>1, <1>5, AlterVerified DEF VInv
<1>6. QED BY <1>2, <1>3, <1>4, <1>5 DEF Next

\* Nothing has been verified of the empty log.
LEMMA VInvInit == Init => VInv
<1> SUFFICES ASSUME Init PROVE VInv
  OBVIOUS
<1>1. /\ table = {} /\ alterations = 0 /\ anchors = {}
      /\ \A t \in Txns : at[t] = "idle" /\ pending[t] = <<>>
      /\ \A v \in Verifiers : check[v] =
           [at |-> "idle", anchors |-> {}, last |-> 0, previous |-> Genesis,
            failed |-> FALSE, stored |-> {}, since |-> 0, warned |-> FALSE]
  BY DEF Init
<1>2. \A v \in Verifiers : ReadBy(v) = {}
  BY <1>1 DEF ReadBy
<1>3. ChecksAreRight
  BY <1>1, <1>2 DEF ChecksAreRight, Sane, Current, BreakIsThere, Top
<1>4. UnalteredPasses /\ HashesAreOld
  BY <1>1, ToSetEmpty DEF UnalteredPasses, HashesAreOld
<1>5. QED BY <1>3, <1>4, InitInv DEF VInv

\* Until a row is altered once more, what each verification remembers is what the table
\* has, whatever the writers commit between its statements (verify.py reads in batches).
THEOREM VerificationInvariant == Spec => []VInv
BY VInvInit, VInvNext, PTL DEF Spec

\* What a verification reports is so: a break only where rows were altered, and
\* a pass only over a chain, with every anchor it loaded matched by the rows.
THEOREM VerdictIsRightHolds == Spec => []VerdictIsRight
<1>1. VInv => NoFalseAlarm
  <2>1. SUFFICES ASSUME VInv, NEW v \in Verifiers, check[v].at = "broken" PROVE alterations > 0
    BY DEF NoFalseAlarm
  <2>2. alterations \in Nat /\ alterations # 0
    BY <2>1, AuditBounds DEF VInv, IInv, TypeOK, UnalteredPasses
  <2>3. QED BY <2>2
<1>2. VInv => PassedMeansIntact
  <2>1. SUFFICES ASSUME VInv, NEW v \in Verifiers,
                        check[v].at = "passed", check[v].since = alterations
                 PROVE  /\ ChainedUpTo(check[v].last)
                        /\ \A a \in check[v].anchors : Matches(a)
    BY DEF PassedMeansIntact
  <2> DEFINE rows == ReadBy(v)
             n == check[v].last
  <2>2. TypeOK /\ KeysAreUnique /\ Sane(v) /\ Current(v)
    BY <2>1 DEF VInv, IInv, ChecksAreRight
  <2>3. /\ Top(rows) = [seq |-> n, hash |-> check[v].previous]
        /\ \A r \in rows : ~Broken(table, r)
        /\ check[v].anchors \subseteq check[v].stored
        /\ \A s \in check[v].stored : \E r \in rows : r.seq = s.seq /\ r.hash = s.hash
    BY <2>1, <2>2 DEF Sane, Current
  <2>4. rows \in SUBSET table /\ rows \in SUBSET Row /\ IsFiniteSet(rows)
        /\ \A q, r \in rows : q.seq = r.seq => q = r
    BY <2>2, ReadByType, TableType
  <2>5. \A r \in rows : Below(rows, r) = Below(table, r)
    <3>1. n \in Nat /\ \A q \in table : q.seq \in Nat
      BY <2>2, TableType DEF TypeOK, Check
    <3>2. QED BY <3>1 DEF Below, ReadBy
  <2>6. \A r \in rows : ~Broken(rows, r)
    BY <2>3, <2>5 DEF Broken
  <2> HIDE DEF rows
  <2>7. \A i \in 1..n : \E r \in rows : r.seq = i
    BY <2>3, <2>4, <2>6, UnbrokenIsGapless
  <2>8. ChainedUpTo(n)
    <3>1. SUFFICES ASSUME NEW i \in 1..n
                   PROVE  \E r \in table : /\ r.seq = i /\ r = Seal(r)
                                           /\ r.prev = Top({q \in table : q.seq < i}).hash
      BY DEF ChainedUpTo
    <3>2. PICK r \in rows : r.seq = i
      BY <2>7
    <3>3. r = Seal(r) /\ r.prev = Top(Below(table, r)).hash
      BY <2>3 DEF Broken, Breaks
    <3>4. QED BY <2>4, <3>2, <3>3 DEF Below
  <2>9. ASSUME NEW a \in check[v].anchors PROVE Matches(a)
    <3>1. PICK r \in rows : r.seq = a.seq /\ r.hash = a.hash
      BY <2>3
    <3>2. r.seq \in 1..n
      <4>1. r.seq <= Top(rows).seq /\ r.seq \in Nat \ {0} /\ n \in Nat
        BY <2>2, <2>4, TopType DEF Row, TypeOK, Check
      <4>2. QED BY <2>3, <4>1
    <3>3. SUFFICES ASSUME NEW i \in 1..a.seq
                   PROVE  \E q \in table : q.seq = i /\ <<q.seq, q.id, q.by, q.body>> = a.hash[i]
      BY DEF Matches
    <3>4. i \in 1..n /\ i <= r.seq
      <4>1. i \in 1..r.seq /\ n \in Nat
        BY <2>2, <3>1 DEF TypeOK, Check
      <4> HIDE DEF n
      <4>2. QED BY <3>2, <4>1
    <3>5. PICK q \in rows : q.seq = i
      BY <2>7, <3>4
    <3>6. r.hash[i] = HistoryOf(q)
      BY <2>4, <2>6, <3>4, <3>5, HashTells
    <3>7. QED BY <2>4, <3>1, <3>5, <3>6 DEF HistoryOf
  <2>10. QED BY <2>8, <2>9
<1>3. QED BY <1>1, <1>2, VerificationInvariant, PTL DEF VerdictIsRight

\* A break that was reported is reported by every later verification, whatever
\* is appended in between.
THEOREM BreakStaysHolds == Spec => []BreakStays
<1>1. VInv => BreakStays
  BY DEF VInv, ChecksAreRight, BreakIsThere, BreakStays
<1>2. QED BY <1>1, VerificationInvariant, PTL
=============================================================================
