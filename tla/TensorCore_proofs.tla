--------------------------- MODULE TensorCore_proofs ---------------------------
(***************************************************************************)
(* Proofs about the tensor core and its parts.                             *)
(*                                                                         *)
(* The DMA: for operands of any size, any address range and any            *)
(* descriptors, responses fit, no word is lost, and the MMA presented has  *)
(* the operands of the next step.                                          *)
(*                                                                         *)
(* The tile: for any accumulators, values and arithmetic, and any commands *)
(* on them, the pipeline implements the atomic memory.                     *)
(*                                                                         *)
(* The core, which joins the two, leaves in its accumulator the sum over a *)
(* descriptor's steps, whatever the host does meanwhile.                   *)
(***************************************************************************)
EXTENDS TensorCore, SequenceTheorems, WellFoundedInduction, TLAPS

-----------------------------------------------------------------------------
(* The DMA: pointers, buffers and counters *)

Bit(b) == IF b THEN 1 ELSE 0

LEMMA SizesType ==
  /\ Rows \in Nat /\ Rows > 0
  /\ Words \in Nat /\ Words > 1 /\ Words = 2 * Rows
  /\ Credit \in Nat /\ Credit = 2 * Words
BY SizeAssumption DEF Words, Credit

LEMMA AddressType ==
  /\ 0 \in Address
  /\ \A a, b \in Address : Plus(a, b) \in Address
  /\ \A d \in Descriptors :
       /\ d.steps \in Nat /\ d.aBase \in Address /\ d.aRow \in Address /\ d.aStep \in Address
       /\ d.bBase \in Address /\ d.bCol \in Address /\ d.bStep \in Address
<1>1. \A n \in Nat : n % AddrRange \in Address
  BY SizeAssumption DEF Address
<1>2. \A a, b \in Address : a + b \in Nat
  BY SizeAssumption DEF Address
<1>3. \A a, b \in Address : Plus(a, b) \in Address
  BY <1>1, <1>2 DEF Plus
<1>4. 0 \in Address
  BY SizeAssumption DEF Address
<1>5. ASSUME NEW e \in Descriptors
      PROVE  /\ e.steps \in Nat /\ e.aBase \in Address /\ e.aRow \in Address /\ e.aStep \in Address
             /\ e.bBase \in Address /\ e.bCol \in Address /\ e.bStep \in Address
  BY DescriptorAssumption
<1>6. QED
  BY <1>3, <1>4, <1>5

\* How many words each buffer, the memory and the issue buffer hold next.
LEMMA EdgeCounts ==
  ASSUME IInv,
         NEW d, NEW memReady \in BOOLEAN, NEW rspFire \in BOOLEAN, NEW mmaReady \in BOOLEAN,
         Edge(d, memReady, rspFire, mmaReady)
  PROVE  LET taken == FillComplete(mmaReady) IN
         /\ \A b \in Buffers :
              Len(fill'[b]) = IF taken /\ b = rdBuf THEN 0
                              ELSE Len(fill[b]) + Bit(rspFire /\ b = wrBuf)
         /\ Len(memory') = Len(memory) + Bit(ReqValid /\ memReady) - Bit(rspFire)
         /\ rspFire => Len(memory) > 0
         /\ Len(ready') = IF taken THEN Words ELSE IF Mma(mmaReady) THEN 0 ELSE Len(ready)
<1> DEFINE taken == FillComplete(mmaReady)
<1> USE DEF IInv, TypeOK
<1>1. rspFire => memory # <<>> /\ Len(memory) > 0 /\ Head(memory) \in Address
  BY DEF Edge
<1>2. ASSUME NEW b \in Buffers
      PROVE  Len(fill'[b]) = IF taken /\ b = rdBuf THEN 0
                             ELSE Len(fill[b]) + Bit(rspFire /\ b = wrBuf)
  <2>1. fill'[b] = IF taken /\ b = rdBuf THEN <<>>
                   ELSE IF rspFire /\ b = wrBuf THEN Append(fill[b], Head(memory))
                   ELSE fill[b]
    BY DEF Edge, Response
  <2>2. fill[b] \in Seq(Address)
    OBVIOUS
  <2>3. QED
    BY <1>1, <2>1, <2>2 DEF Bit
<1>3. Len(memory') = Len(memory) + Bit(ReqValid /\ memReady) - Bit(rspFire)
  <2>1. memory' = (IF rspFire THEN Tail(memory) ELSE memory)
                    \o (IF ReqValid /\ memReady THEN <<ReqAddr>> ELSE <<>>)
    BY DEF Edge
  <2>2. ReqAddr \in Address
    BY AddressType DEF ReqAddr
  <2> DEFINE rest == IF rspFire THEN Tail(memory) ELSE memory
             new == IF ReqValid /\ memReady THEN <<ReqAddr>> ELSE <<>>
             p == Bit(rspFire)
             q == Bit(ReqValid /\ memReady)
  <2>3. rest \in Seq(Address) /\ Len(rest) = Len(memory) - p
    BY <1>1 DEF Bit
  <2>4. new \in Seq(Address) /\ Len(new) = q
    BY <2>2 DEF Bit
  <2>5. p \in Int /\ q \in Int /\ Len(memory) \in Int
    BY DEF Bit
  <2>6. memory' = rest \o new
    BY <2>1
  <2> HIDE DEF rest, new, p, q
  <2>7. Len(rest \o new) = Len(rest) + Len(new)
    BY <2>3, <2>4, ConcatProperties
  <2>9. Len(memory') = Len(memory) + q - p
    BY <2>3, <2>4, <2>5, <2>6, <2>7
  <2>8. QED
    BY <2>9, <2>5 DEF p, q
<1>4. Len(ready') = IF taken THEN Words ELSE IF Mma(mmaReady) THEN 0 ELSE Len(ready)
  BY DEF Edge, Issue, FillComplete, RdFull, Count
<1>5. QED
  BY <1>1, <1>2, <1>3, <1>4

\* Registers keep their types.
LEMMA TypeNext ==
  ASSUME IInv,
         NEW d \in Inputs, NEW memReady \in BOOLEAN, NEW rspFire \in BOOLEAN, NEW mmaReady \in BOOLEAN,
         Edge(d, memReady, rspFire, mmaReady)
  PROVE  TypeOK'
<1> USE DEF IInv, TypeOK
<1>1. active' \in BOOLEAN /\ done' \in BOOLEAN /\ desc' \in Descriptors /\ issued' \in Nat
  BY DEF Edge, Descriptor, Starts, Accepts, LastIssue, Mma, MmaValid, Inputs
<1>2. /\ reqStep' \in Nat /\ reqWord' \in 0..(Words - 1)
      /\ aBase' \in Address /\ bBase' \in Address /\ offset' \in Address
  <2>1. CASE Starts(d)
    BY <2>1, AddressType, SizesType DEF Edge, Request, Starts, Accepts, Inputs
  <2>2. CASE ~Starts(d) /\ Walk
    BY <2>2, AddressType, SizesType DEF Walk
  <2>3. CASE ~Starts(d) /\ UNCHANGED requestVars
    BY <2>3 DEF requestVars
  <2>4. QED
    BY <2>1, <2>2, <2>3 DEF Edge, Request
<1>3. rspFire => memory # <<>> /\ Len(memory) > 0 /\ Head(memory) \in Address
  BY DEF Edge
<1>4. fill' \in [Buffers -> Seq(Address)]
  <2>1. ASSUME NEW b \in Buffers
        PROVE  (IF FillComplete(mmaReady) /\ b = rdBuf THEN <<>>
                ELSE IF rspFire /\ b = wrBuf THEN Append(fill[b], Head(memory))
                ELSE fill[b]) \in Seq(Address)
    BY <1>3
  <2>2. QED
    BY <2>1 DEF Edge, Response
<1>5. wrBuf' \in Buffers /\ rdBuf' \in Buffers
  BY DEF Edge, Response, Issue, Buffers, Other
<1>6. ready' \in Seq(Address)
  <2>1. fill[rdBuf] \in Seq(Address) /\ <<>> \in Seq(Address)
    OBVIOUS
  <2>2. ready' \in {fill[rdBuf], <<>>, ready}
    BY DEF Edge, Issue
  <2>3. QED
    BY <2>1, <2>2
<1>7. inflight' \in Nat
  BY <1>3 DEF Edge, NoWordLost
<1>8. memory' \in Seq(Address)
  <2>1. ReqAddr \in Address
    BY AddressType DEF ReqAddr
  <2>2. (IF rspFire THEN Tail(memory) ELSE memory) \in Seq(Address)
    BY <1>3
  <2>3. (IF ReqValid /\ memReady THEN <<ReqAddr>> ELSE <<>>) \in Seq(Address)
    BY <2>1
  <2>4. QED
    BY <2>2, <2>3 DEF Edge
<1>9. QED
  BY <1>1, <1>2, <1>4, <1>5, <1>6, <1>7, <1>8

\* How the counters of requests and issues move.
LEMMA EdgeSteps ==
  ASSUME IInv,
         NEW d \in Inputs, NEW memReady \in BOOLEAN, NEW rspFire \in BOOLEAN, NEW mmaReady \in BOOLEAN,
         Edge(d, memReady, rspFire, mmaReady)
  PROVE  /\ Starts(d) =>
              ~active /\ active' /\ d \in Descriptors /\ desc' = d /\ d.steps # 0
              /\ reqStep' = 0 /\ reqWord' = 0 /\ issued' = 0
         /\ ~Starts(d) =>
              /\ active' = (active /\ ~LastIssue(mmaReady))
              /\ desc' = desc
              /\ issued' = issued + Bit(Mma(mmaReady))
              /\ IF ReqValid /\ memReady
                 THEN IF reqWord = Words - 1 THEN reqWord' = 0 /\ reqStep' = reqStep + 1
                      ELSE reqWord' = reqWord + 1 /\ reqStep' = reqStep
                 ELSE reqWord' = reqWord /\ reqStep' = reqStep
<1> USE DEF IInv, TypeOK
<1>1. CASE Starts(d)
  BY <1>1 DEF Edge, Descriptor, Request, Starts, Accepts, Inputs, LastIssue, Mma, NoWordLost, requestVars
<1>2. CASE ~Starts(d)
  <2>1. active' = (active /\ ~LastIssue(mmaReady)) /\ desc' = desc
    BY <1>2 DEF Edge, Descriptor
  <2>2. issued' = issued + Bit(Mma(mmaReady))
    BY <1>2 DEF Edge, Descriptor, Bit
  <2>3. CASE ReqValid /\ memReady
    <3>1. Walk
      BY <1>2, <2>3 DEF Edge, Request
    <3>2. QED
      BY <1>2, <2>1, <2>2, <2>3, <3>1 DEF Walk
  <2>4. CASE ~(ReqValid /\ memReady)
    <3>1. UNCHANGED requestVars
      BY <1>2, <2>4 DEF Edge, Request
    <3>2. QED
      BY <1>2, <2>1, <2>2, <2>4, <3>1 DEF requestVars
  <2>5. QED
    BY <2>3, <2>4
<1>3. QED
  BY <1>1, <1>2

\* The buffer that receives and the buffer that is read still fit together.
LEMMA BuffersNext ==
  ASSUME IInv,
         NEW d \in Inputs, NEW memReady \in BOOLEAN, NEW rspFire \in BOOLEAN, NEW mmaReady \in BOOLEAN,
         Edge(d, memReady, rspFire, mmaReady)
  PROVE  /\ ready' = <<>> \/ Len(ready') = Words
         /\ rdBuf' # wrBuf' => Len(fill'[rdBuf']) = Words /\ Len(fill'[wrBuf']) < Words
         /\ rdBuf' = wrBuf' =>
              \/ Len(fill'[rdBuf']) < Words /\ Len(fill'[Other(rdBuf')]) = 0
              \/ Len(fill'[rdBuf']) = Words /\ Len(fill'[Other(rdBuf')]) = Words
         /\ \A b \in Buffers : Len(fill'[b]) <= Words
<1> USE DEF IInv, TypeOK
<1> DEFINE taken == FillComplete(mmaReady)
           c(b) == Len(fill[b])
           n(b) == Len(fill'[b])
<1>1. \A b \in Buffers : c(b) \in Nat
  OBVIOUS
<1>2. \A b \in Buffers :
        n(b) = IF taken /\ b = rdBuf THEN 0 ELSE c(b) + Bit(rspFire /\ b = wrBuf)
  BY EdgeCounts
<1>3. rspFire => c(wrBuf) < Words
  BY EdgeCounts DEF CreditSuffices, NoWordLost, Count
<1>4. taken => c(rdBuf) = Words
  BY DEF FillComplete, RdFull, Count
<1>5. wrBuf' = IF rspFire /\ c(wrBuf) = Words - 1 THEN Other(wrBuf) ELSE wrBuf
  BY DEF Edge, Response, Count
<1>6. rdBuf' = IF taken THEN Other(rdBuf) ELSE rdBuf
  BY DEF Edge, Issue
<1>7. /\ rdBuf # wrBuf => c(rdBuf) = Words /\ c(wrBuf) < Words
      /\ rdBuf = wrBuf => \/ c(rdBuf) < Words /\ c(Other(rdBuf)) = 0
                          \/ c(rdBuf) = Words /\ c(Other(rdBuf)) = Words
  BY DEF BuffersFit, Count
<1>8. ready' = <<>> \/ Len(ready') = Words
  BY <1>4 DEF Edge, Issue, BuffersFit
<1>9. rdBuf \in Buffers /\ wrBuf \in Buffers /\ \A b \in Buffers : Other(b) \in Buffers /\ Other(Other(b)) = b
  BY DEF Buffers, Other
<1>10. \A b, e \in Buffers : b = e \/ b = Other(e)
  BY DEF Buffers, Other
<1> HIDE DEF c, n, taken
<1>11. CASE rdBuf # wrBuf
  <2>1. c(rdBuf) = Words /\ c(wrBuf) < Words /\ Other(rdBuf) = wrBuf /\ Other(wrBuf) = rdBuf
    BY <1>7, <1>9, <1>10, <1>11
  <2>2. n(wrBuf) = c(wrBuf) + Bit(rspFire)
    BY <1>2, <1>9, <1>11 DEF Bit
  <2>3. n(rdBuf) = IF taken THEN 0 ELSE Words
    BY <1>2, <1>9, <1>11, <2>1, SizesType DEF Bit
  <2>4. c(wrBuf) \in Nat
    BY <1>1, <1>9
  <2>5. \A b \in Buffers : n(b) <= Words
    BY <1>10, <1>9, <2>1, <2>2, <2>3, <2>4, SizesType DEF Bit
  <2>6. CASE taken
    <3>1. rdBuf' = wrBuf /\ n(rdBuf) = 0
      BY <1>6, <2>1, <2>3, <2>6
    <3>2. CASE rspFire /\ c(wrBuf) = Words - 1
      <4>1. wrBuf' = rdBuf /\ n(wrBuf) = Words
        BY <1>5, <2>1, <2>2, <3>2, SizesType DEF Bit
      <4>2. QED
        BY <1>8, <1>11, <2>5, <3>1, <4>1, SizesType DEF n
    <3>3. CASE ~(rspFire /\ c(wrBuf) = Words - 1)
      <4>1. wrBuf' = wrBuf /\ n(wrBuf) < Words
        BY <1>5, <2>1, <2>2, <2>4, <3>3, SizesType DEF Bit
      <4>2. QED
        BY <1>8, <2>1, <2>5, <3>1, <4>1, SizesType DEF n
    <3>4. QED
      BY <3>2, <3>3
  <2>7. CASE ~taken
    <3>1. rdBuf' = rdBuf /\ n(rdBuf) = Words
      BY <1>6, <2>3, <2>7
    <3>2. CASE rspFire /\ c(wrBuf) = Words - 1
      <4>1. wrBuf' = rdBuf /\ n(wrBuf) = Words
        BY <1>5, <2>1, <2>2, <3>2, SizesType DEF Bit
      <4>2. QED
        BY <1>8, <2>1, <2>5, <3>1, <4>1 DEF n
    <3>3. CASE ~(rspFire /\ c(wrBuf) = Words - 1)
      <4>1. wrBuf' = wrBuf /\ n(wrBuf) < Words
        BY <1>5, <2>1, <2>2, <2>4, <3>3, SizesType DEF Bit
      <4>2. QED
        BY <1>8, <1>11, <2>5, <3>1, <4>1 DEF n
    <3>4. QED
      BY <3>2, <3>3
  <2>8. QED
    BY <2>6, <2>7
<1>12. CASE rdBuf = wrBuf
  <2>1. Other(rdBuf) \in Buffers /\ Other(rdBuf) # rdBuf /\ Other(Other(rdBuf)) = rdBuf
    BY <1>9 DEF Buffers, Other
  <2>2. c(rdBuf) \in Nat /\ c(Other(rdBuf)) \in Nat
    BY <1>1, <1>9
  <2>3. n(Other(rdBuf)) = c(Other(rdBuf))
    BY <1>2, <1>12, <2>1, <2>2 DEF Bit
  <2>4. n(rdBuf) = IF taken THEN 0 ELSE c(rdBuf) + Bit(rspFire)
    BY <1>2, <1>9, <1>12
  <2>5. \A b \in Buffers : n(b) <= Words
    BY <1>3, <1>7, <1>10, <1>9, <1>12, <2>2, <2>3, <2>4, SizesType DEF Bit
  <2>6. CASE taken
    <3>1. c(rdBuf) = Words /\ ~rspFire /\ c(Other(rdBuf)) = Words
      BY <1>3, <1>4, <1>7, <1>12, <2>6, SizesType
    <3>2. rdBuf' = Other(rdBuf) /\ wrBuf' = rdBuf
      BY <1>5, <1>6, <1>12, <2>6, <3>1
    <3>3. n(rdBuf) = 0 /\ n(Other(rdBuf)) = Words
      BY <2>3, <2>4, <2>6, <3>1
    <3>4. QED
      BY <1>8, <2>1, <2>5, <3>2, <3>3, SizesType DEF n
  <2>7. CASE ~taken
    <3>1. rdBuf' = rdBuf /\ n(rdBuf) = c(rdBuf) + Bit(rspFire)
      BY <1>6, <2>4, <2>7
    <3>2. CASE c(rdBuf) = Words
      <4>1. ~rspFire /\ c(Other(rdBuf)) = Words
        BY <1>3, <1>7, <1>12, <3>2, SizesType
      <4>2. wrBuf' = rdBuf /\ n(rdBuf) = Words /\ n(Other(rdBuf)) = Words
        BY <1>5, <1>12, <2>3, <3>1, <3>2, <4>1, SizesType DEF Bit
      <4>3. QED
        BY <1>8, <2>5, <3>1, <4>2 DEF n
    <3>3. CASE c(rdBuf) # Words /\ rspFire /\ c(rdBuf) = Words - 1
      <4>1. wrBuf' = Other(rdBuf) /\ n(rdBuf) = Words /\ n(Other(rdBuf)) < Words
        BY <1>5, <1>7, <1>12, <2>3, <3>1, <3>3, SizesType DEF Bit
      <4>2. QED
        BY <1>8, <2>1, <2>5, <3>1, <4>1 DEF n
    <3>4. CASE c(rdBuf) # Words /\ ~(rspFire /\ c(rdBuf) = Words - 1)
      <4>1. c(rdBuf) < Words /\ n(Other(rdBuf)) = 0
        BY <1>7, <1>12, <2>3, <3>4
      <4>2. n(rdBuf) < Words
        BY <2>2, <3>1, <3>4, <4>1, SizesType DEF Bit
      <4>3. wrBuf' = rdBuf
        BY <1>5, <1>12, <3>4
      <4>4. QED
        BY <1>8, <2>5, <3>1, <4>1, <4>2, <4>3 DEF n
    <3>5. QED
      BY <3>2, <3>3, <3>4
  <2>8. QED
    BY <2>6, <2>7
<1>13. QED
  BY <1>11, <1>12

\* What is held against the credit.
LEMMA HeldNext ==
  ASSUME IInv,
         NEW d \in Inputs, NEW memReady \in BOOLEAN, NEW rspFire \in BOOLEAN, NEW mmaReady \in BOOLEAN,
         Edge(d, memReady, rspFire, mmaReady)
  PROVE  /\ inflight' = Len(memory')
         /\ Held \in Nat /\ \A b \in Buffers : Count(b) \in Nat /\ Count(b) <= Held
         /\ Held' = Held + Bit(ReqValid /\ memReady) - (IF FillComplete(mmaReady) THEN Words ELSE 0)
<1> USE DEF IInv, TypeOK
<1> DEFINE taken == FillComplete(mmaReady)
           q == Bit(ReqValid /\ memReady)
           p == Bit(rspFire)
           n(b) == Len(fill'[b])
<1>1. inflight' = inflight + q - p /\ inflight = Len(memory)
  BY DEF Edge, Bit, NoWordLost
<1>2. inflight' = Len(memory')
  <2>1. Len(memory') = Len(memory) + q - p
    BY EdgeCounts
  <2>2. QED
    BY <1>1, <2>1
<1>3. Count(0) \in Nat /\ Count(1) \in Nat
  BY DEF Count, Buffers
<1>4. Held \in Nat /\ \A b \in Buffers : Count(b) \in Nat /\ Count(b) <= Held
  BY <1>3 DEF Held, Buffers
<1>5. \A b \in Buffers : n(b) = IF taken /\ b = rdBuf THEN 0 ELSE Count(b) + Bit(rspFire /\ b = wrBuf)
  BY EdgeCounts DEF Count
<1>6. taken => Count(rdBuf) = Words
  BY DEF FillComplete, RdFull
<1>7. rspFire => Count(wrBuf) < Words
  BY EdgeCounts DEF CreditSuffices, NoWordLost
<1>8. p \in {0, 1} /\ q \in {0, 1} /\ (rspFire => p = 1) /\ (~rspFire => p = 0)
  BY DEF Bit
<1>9. n(0) + n(1) = Count(0) + Count(1) + p - (IF taken THEN Words ELSE 0)
  <2> HIDE DEF n, p, q, taken
  <2>1. CASE taken
    <3>1. rspFire => wrBuf # rdBuf
      BY <1>6, <1>7, <2>1, SizesType
    <3>2. CASE rdBuf = 0
      BY <1>3, <1>5, <1>6, <1>8, <2>1, <3>1, <3>2, SizesType DEF Buffers, Bit
    <3>3. CASE rdBuf = 1
      BY <1>3, <1>5, <1>6, <1>8, <2>1, <3>1, <3>3, SizesType DEF Buffers, Bit
    <3>4. QED
      BY <3>2, <3>3 DEF Buffers
  <2>2. CASE ~taken
    BY <1>3, <1>5, <1>8, <2>2, SizesType DEF Buffers, Bit
  <2>3. QED
    BY <2>1, <2>2
<1>10. Held' = n(0) + n(1) + inflight'
  BY DEF Held, Count
<1>11. n(0) \in Int /\ n(1) \in Int
  <2>1. \A b \in Buffers : Count(b) + Bit(rspFire /\ b = wrBuf) \in Int
    BY <1>4 DEF Bit
  <2>2. QED
    BY <1>5, <2>1 DEF Buffers
<1>12. Held = Count(0) + Count(1) + inflight /\ inflight \in Nat
  BY DEF Held
<1>13. Held' = Held + q - (IF taken THEN Words ELSE 0)
  <2> DEFINE h1 == Held
             h2 == Held'
             i1 == inflight
             i2 == inflight'
             c == Count(0) + Count(1)
             k == n(0) + n(1)
             t == IF taken THEN Words ELSE 0
  <2>1. h1 = c + i1 /\ i1 \in Int /\ c \in Int
    BY <1>3, <1>12
  <2>2. k \in Int
    BY <1>11
  <2>3. t \in Int
    BY SizesType
  <2>4. h2 = k + i2
    BY <1>10
  <2>5. k = c + p - t
    BY <1>9
  <2>6. i2 = i1 + q - p
    BY <1>1
  <2>7. p \in Int /\ q \in Int
    BY <1>8
  <2>8. h2 = h1 + q - t
    <3> HIDE DEF n, p, q, taken, h1, h2, i1, i2, c, k, t
    <3>1. QED
      BY <2>1, <2>2, <2>3, <2>4, <2>5, <2>6, <2>7
  <2>9. QED
    BY <2>8, Zenon
<1>14. QED
  BY <1>2, <1>4, <1>13

\* A request needs room, and responses and MMAs only free it.
LEMMA CreditNext ==
  ASSUME IInv,
         NEW d \in Inputs, NEW memReady \in BOOLEAN, NEW rspFire \in BOOLEAN, NEW mmaReady \in BOOLEAN,
         Edge(d, memReady, rspFire, mmaReady)
  PROVE  CreditSuffices'
<1> USE DEF IInv, TypeOK
<1>1. Held' <= Credit
  <2> DEFINE q == Bit(ReqValid /\ memReady)
             r == IF FillComplete(mmaReady) THEN Words ELSE 0
  <2>1. Held \in Nat /\ Held <= Credit /\ Held' = Held + q - r
    BY HeldNext DEF CreditSuffices
  <2>2. q \in {0, 1} /\ (q = 1 => Held < Credit)
    BY DEF Bit, ReqValid
  <2>3. r \in Nat
    BY SizesType
  <2> HIDE DEF q, r
  <2>4. QED
    BY <2>1, <2>2, <2>3, SizesType
<1>2. \A b \in Buffers : Count(b)' <= Words
  BY BuffersNext DEF Count
<1>3. TypeOK'
  BY TypeNext
<1>4. ASSUME inflight' > 0
      PROVE  Count(wrBuf)' < Words
  <2> DEFINE n(b) == Len(fill'[b])
  <2>1. /\ n(0) \in Nat /\ n(1) \in Nat /\ inflight' \in Nat
        /\ wrBuf' \in {0, 1} /\ rdBuf' \in {0, 1}
    BY <1>3 DEF Buffers
  <2>2. /\ n(0) <= Words /\ n(1) <= Words
        /\ rdBuf' # wrBuf' => n(wrBuf') < Words
        /\ rdBuf' = wrBuf' => n(rdBuf') < Words \/ (n(rdBuf') = Words /\ n(1 - rdBuf') = Words)
    BY BuffersNext DEF Buffers, Other
  <2>3. Held' = n(0) + n(1) + inflight'
    BY DEF Held, Count
  <2>4. Count(wrBuf)' = n(wrBuf')
    BY DEF Count
  <2> HIDE DEF n
  <2>5. n(0) + n(1) < 2 * Words
    BY <1>1, <1>4, <2>1, <2>3, SizesType
  <2>6. CASE wrBuf' = 0
    BY <2>1, <2>2, <2>4, <2>5, <2>6, SizesType
  <2>7. CASE wrBuf' = 1
    BY <2>1, <2>2, <2>4, <2>5, <2>7, SizesType
  <2>8. QED
    BY <2>1, <2>6, <2>7
<1>5. QED
  BY <1>1, <1>2, <1>4 DEF CreditSuffices

\* With the last MMA everything fetched has been issued.
LEMMA LastIssueEmpties ==
  ASSUME IInv, active, NEW mmaReady \in BOOLEAN, LastIssue(mmaReady)
  PROVE  Held = 0 /\ reqStep = desc.steps /\ ~FillComplete(mmaReady)
<1> USE DEF IInv, TypeOK
<1>1. Held \in Nat /\ \A b \in Buffers : Count(b) \in Nat /\ Count(b) <= Held
  BY DEF Held, Count, Buffers
<1>2. Len(ready) = Words /\ issued + 1 = desc.steps
  BY DEF LastIssue, Mma, MmaValid, BuffersFit
<1>3. /\ (reqStep - issued) * Words + reqWord = Held + Words
      /\ reqStep <= issued + 1 /\ (reqStep = issued + 1 => reqWord = 0)
  BY <1>2 DEF NoWordLost, BuffersFit
<1>4. reqStep - issued = 1
  <2>1. SUFFICES ASSUME reqStep - issued # 1 PROVE FALSE
    OBVIOUS
  <2>2. issued - reqStep \in Nat
    BY <1>3, <2>1
  <2>3. (issued - reqStep) * Words \in Nat
    BY <2>2, SizesType
  <2>4. (reqStep - issued) * Words = -((issued - reqStep) * Words)
    BY SizesType
  <2> DEFINE P == (reqStep - issued) * Words
             Q == (issued - reqStep) * Words
  <2>5. P = -Q /\ Q \in Nat /\ P + reqWord = Held + Words
    BY <1>3, <2>3, <2>4
  <2> HIDE DEF P, Q
  <2>6. QED
    BY <1>1, <2>5, SizesType
<1>5. Held = 0
  BY <1>1, <1>3, <1>4, SizesType
<1>6. QED
  BY <1>1, <1>2, <1>4, <1>5, SizesType DEF FillComplete, RdFull

\* What is requested, held and issued adds up.
LEMMA AccountNext ==
  ASSUME IInv, active,
         NEW d \in Inputs, NEW memReady \in BOOLEAN, NEW rspFire \in BOOLEAN, NEW mmaReady \in BOOLEAN,
         Edge(d, memReady, rspFire, mmaReady)
  PROVE  (reqStep' - issued') * Words + reqWord' = Held' + Len(ready')
<1> USE DEF IInv, TypeOK
<1> DEFINE taken == FillComplete(mmaReady)
           q == Bit(ReqValid /\ memReady)
           m == Bit(Mma(mmaReady))
           t == IF taken THEN Words ELSE 0
           times(x) == x * Words
<1>1. ~Starts(d)
  BY DEF Starts, Accepts
<1>2. issued' = issued + m /\ m \in {0, 1} /\ q \in {0, 1}
  BY <1>1, EdgeSteps DEF Bit
<1>3. /\ times(0) = 0 /\ times(1) = Words
      /\ \A x \in Nat : times(x + 1) = times(x) + Words /\ times(x) \in Nat
  BY SizesType
<1> HIDE DEF times
<1>4. times(reqStep') + reqWord' = times(reqStep) + reqWord + q
  <2>1. CASE ReqValid /\ memReady /\ reqWord = Words - 1
    <3>1. reqWord' = 0 /\ reqStep' = reqStep + 1 /\ q = 1
      BY <1>1, <2>1, EdgeSteps DEF Bit
    <3>2. times(reqStep') = times(reqStep) + Words /\ times(reqStep) \in Nat
      BY <1>3, <3>1
    <3>3. QED
      BY <2>1, <3>1, <3>2, SizesType
  <2>2. CASE ~(ReqValid /\ memReady /\ reqWord = Words - 1)
    <3>1. reqWord' = reqWord + q /\ reqStep' = reqStep
      BY <1>1, <2>2, EdgeSteps DEF Bit
    <3>2. times(reqStep) \in Nat
      BY <1>3
    <3>3. QED
      BY <1>2, <3>1, <3>2, SizesType
  <2>3. QED
    BY <2>1, <2>2
<1>5. times(issued') = times(issued) + times(m)
  <2>1. CASE m = 1
    BY <1>2, <1>3, <2>1
  <2>2. CASE m = 0
    BY <1>2, <1>3, <2>2
  <2>3. QED
    BY <1>2, <2>1, <2>2
<1>6. Held' = Held + q - t /\ Held \in Nat
  BY HeldNext
<1>7. Len(ready') = Len(ready) + t - times(m)
  <2>1. Len(ready') = IF taken THEN Words ELSE IF Mma(mmaReady) THEN 0 ELSE Len(ready)
    BY EdgeCounts
  <2>2. ready = <<>> \/ Len(ready) = Words
    BY DEF BuffersFit
  <2>3. CASE Mma(mmaReady)
    <3>1. Len(ready) = Words /\ times(m) = Words
      BY <1>3, <2>2, <2>3 DEF Mma, MmaValid, Bit
    <3>2. Len(ready') = t
      BY <2>1, <2>3
    <3>3. QED
      BY <3>1, <3>2, SizesType
  <2>4. CASE ~Mma(mmaReady)
    <3>1. times(m) = 0
      BY <1>3, <2>4 DEF Bit
    <3>2. taken => Len(ready) = 0
      BY <2>4 DEF FillComplete, Mma, MmaValid
    <3>3. CASE taken
      BY <2>1, <3>1, <3>2, <3>3, SizesType
    <3>4. CASE ~taken
      BY <2>1, <2>4, <3>1, <3>4
    <3>5. QED
      BY <3>3, <3>4
  <2>5. QED
    BY <2>3, <2>4
<1>8. times(reqStep - issued) + reqWord = Held + Len(ready)
  BY DEF NoWordLost, times
<1>9. reqStep' \in Nat /\ issued' \in Nat /\ reqWord' \in Int
  BY TypeNext
<1>10. times(reqStep - issued) = times(reqStep) - times(issued)
  BY SizesType DEF times
<1>11. times(reqStep' - issued') = times(reqStep') - times(issued')
  BY <1>9, SizesType DEF times
<1> HIDE DEF taken, q, m
<1>12. Len(ready) \in Nat /\ t \in Nat /\ times(m) \in Nat
  <2>1. times(m) \in {times(0), times(1)}
    BY <1>2
  <2>2. Len(ready) \in Nat /\ t \in Nat
    BY SizesType
  <2>3. QED
    BY <1>3, <2>1, <2>2, SizesType
<1>13. times(reqStep) \in Nat /\ times(issued) \in Nat
  BY <1>3
<1>14. times(reqStep') \in Nat /\ times(issued') \in Nat
  BY <1>3, <1>9
<1> DEFINE r1 == times(reqStep)
           r2 == times(reqStep')
           i1 == times(issued)
           i2 == times(issued')
           w1 == reqWord
           w2 == reqWord'
           h1 == Held
           h2 == Held'
           l1 == Len(ready)
           l2 == Len(ready')
           mw == times(m)
<1>15. /\ r1 \in Int /\ r2 \in Int /\ i1 \in Int /\ i2 \in Int /\ w1 \in Int /\ w2 \in Int
       /\ h1 \in Int /\ l1 \in Int /\ mw \in Int /\ q \in Int /\ t \in Int
  BY <1>2, <1>6, <1>9, <1>12, <1>13, <1>14, SizesType
<1>16. r2 + w2 = r1 + w1 + q /\ i2 = i1 + mw /\ r1 - i1 + w1 = h1 + l1
  BY <1>4, <1>5, <1>8, <1>10
<1>17. l2 = l1 + t - mw /\ h2 = h1 + q - t
  BY <1>6, <1>7
<1> HIDE DEF t, r1, r2, i1, i2, w1, w2, h1, h2, l1, l2, mw, IInv
<1>18. r2 - i2 + w2 = h2 + l2
  BY <1>15, <1>16, <1>17
<1>19. times(reqStep' - issued') + reqWord' = Held' + Len(ready')
  <2>1. times(reqStep' - issued') = r2 - i2
    BY <1>11, Zenon DEF r2, i2
  <2>2. times(reqStep' - issued') + w2 = h2 + l2
    BY <1>18, <2>1, Zenon
  <2>3. QED
    BY <2>2, Zenon DEF w2, h2, l2
<1>20. QED
  BY <1>19 DEF times

\* Pointers, buffers and counters keep fitting together, and the accounts balance.
LEMMA FitNext ==
  ASSUME IInv,
         NEW d \in Inputs, NEW memReady \in BOOLEAN, NEW rspFire \in BOOLEAN, NEW mmaReady \in BOOLEAN,
         Edge(d, memReady, rspFire, mmaReady)
  PROVE  BuffersFit' /\ NoWordLost'
<1> USE DEF IInv, TypeOK
<1> DEFINE idle == ~FillComplete(mmaReady) /\ ~rspFire /\ ~(ReqValid /\ memReady) /\ Held = 0
<1>1. Held \in Nat /\ \A b \in Buffers : Count(b) \in Nat /\ Count(b) <= Held
  BY HeldNext
<1>2. Held = 0 => ~FillComplete(mmaReady) /\ ~rspFire
  <2>1. Held = 0 => Len(memory) = 0 /\ Count(rdBuf) = 0
    BY <1>1 DEF Held, Count, Buffers, NoWordLost
  <2>2. QED
    BY <2>1, EdgeCounts, SizesType DEF FillComplete, RdFull
<1>3. ~active \/ ~active' => idle /\ rdBuf = wrBuf /\ ready' = <<>>
  <2>1. CASE ~active
    BY <1>2, <2>1 DEF NoWordLost, BuffersFit, ReqValid, Edge, Issue, MmaValid
  <2>2. CASE active /\ ~active'
    <3>1. LastIssue(mmaReady)
      BY <2>2, EdgeSteps
    <3>2. Held = 0 /\ reqStep = desc.steps /\ ~FillComplete(mmaReady)
      BY <2>2, <3>1, LastIssueEmpties
    <3>3. rdBuf = wrBuf
      BY <1>1, <3>2, SizesType DEF BuffersFit
    <3>4. ready' = <<>>
      BY <3>1, <3>2 DEF Edge, Issue, LastIssue
    <3>5. QED
      BY <1>2, <3>2, <3>3, <3>4 DEF ReqValid
  <2>3. QED
    BY <2>1, <2>2
<1>4. ASSUME idle
      PROVE  Held' = 0 /\ rdBuf' = rdBuf /\ wrBuf' = wrBuf
  <2>1. Held' = Held + 0 - 0
    BY <1>4, HeldNext DEF Bit
  <2>2. rdBuf' = rdBuf /\ wrBuf' = wrBuf
    BY <1>4 DEF Edge, Issue, Response
  <2>3. QED
    BY <1>4, <2>1, <2>2
<1>5. inflight' = Len(memory')
  BY HeldNext
<1>6. ~active' => rdBuf' = wrBuf' /\ ~MmaValid' /\ Held' = 0
  BY <1>3, <1>4 DEF MmaValid
<1>7. ASSUME active'
      PROVE  (reqStep' - issued') * Words + reqWord' = Held' + Len(ready')
  <2>1. CASE active
    BY <1>7, <2>1, AccountNext
  <2>2. CASE ~active
    <3>1. reqStep' = 0 /\ issued' = 0 /\ reqWord' = 0
      BY <1>7, <2>2, EdgeSteps
    <3>2. Held' = 0 /\ Len(ready') = 0
      BY <1>3, <1>4, <2>2
    <3>3. QED
      BY <3>1, <3>2, SizesType
  <2>3. QED
    BY <2>1, <2>2
<1>8. ASSUME active'
      PROVE  /\ issued' < (desc').steps /\ reqStep' <= (desc').steps
             /\ reqStep' = (desc').steps => reqWord' = 0
  <2>1. CASE Starts(d)
    <3>1. d.steps \in Nat /\ d.steps # 0
      BY <2>1, EdgeSteps, AddressType
    <3>2. QED
      BY <2>1, <3>1, EdgeSteps
  <2>2. CASE ~Starts(d)
    <3>1. active /\ ~LastIssue(mmaReady) /\ desc' = desc /\ desc.steps \in Nat
      BY <1>8, <2>2, EdgeSteps, AddressType
    <3>2. issued < desc.steps /\ reqStep <= desc.steps /\ (reqStep = desc.steps => reqWord = 0)
      BY <3>1 DEF BuffersFit
    <3>3. issued' < desc.steps
      BY <2>2, <3>1, <3>2, EdgeSteps DEF LastIssue, Bit
    <3>4. CASE ReqValid /\ memReady
      <4>1. reqStep < desc.steps
        BY <3>1, <3>2, <3>4 DEF ReqValid
      <4>2. \/ reqStep' = reqStep + 1 /\ reqWord' = 0
            \/ reqStep' = reqStep
        BY <2>2, <3>4, EdgeSteps
      <4>3. reqStep' <= desc.steps /\ (reqStep' = desc.steps => reqWord' = 0)
        BY <3>1, <4>1, <4>2
      <4>4. QED
        BY <3>1, <3>3, <4>3
    <3>5. CASE ~(ReqValid /\ memReady)
      BY <2>2, <3>1, <3>2, <3>3, <3>5, EdgeSteps
    <3>6. QED
      BY <3>4, <3>5
  <2>3. QED
    BY <2>1, <2>2
<1>9. BuffersFit'
  BY <1>6, <1>8, BuffersNext DEF BuffersFit, Count
<1>10. NoWordLost'
  BY <1>5, <1>6, <1>7 DEF NoWordLost
<1>11. QED
  BY <1>9, <1>10

-----------------------------------------------------------------------------

LEMMA InvariantInit == Init => IInv
<1> SUFFICES ASSUME Init PROVE IInv
  OBVIOUS
<1>1. \A b \in Buffers : fill[b] = <<>>
  BY DEF Init
<1>2. TypeOK
  BY AddressType, SizesType DEF Init, TypeOK, Buffers
<1>3. Count(0) = 0 /\ Count(1) = 0 /\ Held = 0
  BY <1>1 DEF Init, Count, Held, Buffers
<1>4. BuffersFit /\ CreditSuffices /\ NoWordLost
  BY <1>3, SizesType DEF Init, BuffersFit, CreditSuffices, NoWordLost, Buffers, Other, MmaValid
<1>5. QED
  BY <1>2, <1>4 DEF IInv

LEMMA InvariantNext == IInv /\ [Next]_dmaVars => IInv'
<1> SUFFICES ASSUME IInv, [Next]_dmaVars PROVE IInv'
  OBVIOUS
<1>1. ASSUME NEW d \in Inputs, NEW memReady \in BOOLEAN, NEW rspFire \in BOOLEAN,
             NEW mmaReady \in BOOLEAN, Edge(d, memReady, rspFire, mmaReady)
      PROVE  IInv'
  BY <1>1, TypeNext, CreditNext, FitNext DEF IInv
<1>2. CASE UNCHANGED dmaVars
  BY <1>2 DEF dmaVars, requestVars, fillVars, IInv, TypeOK, BuffersFit, CreditSuffices, NoWordLost,
              Held, Count, MmaValid, Other
<1>3. QED
  BY <1>1, <1>2 DEF Next

\* The inductive invariant: registers have their types, the pointers fit the
\* buffers, the credit suffices and no word is lost.
THEOREM InvariantHolds == Spec => []IInv
BY InvariantInit, InvariantNext, PTL DEF Spec

\* Registers keep their types; addresses stay in range and the word counter in
\* its step.
THEOREM TypeCorrect == Spec => []TypeOK
BY InvariantHolds, PTL DEF IInv

\* A response always finds room, whatever the memory and the tile do: requests
\* are only made while both buffers hold less than their words together.
THEOREM ResponsesFit == Spec => []CreditSuffices
BY InvariantHolds, PTL DEF IInv

\* Every word requested for a step that is not issued is in flight, buffered or
\* presented, and the last MMA leaves nothing behind.
THEOREM WordsAccounted == Spec => []NoWordLost
BY InvariantHolds, PTL DEF IInv

-----------------------------------------------------------------------------
(* Numbers in steps *)

\* A number is so many whole steps and one place in a step.
LEMMA StepAndPlace ==
  ASSUME NEW m \in Nat, m > 0, NEW p \in Int, NEW q \in Int,
         NEW r \in 0..(m - 1), NEW s \in 0..(m - 1), p * m + r = q * m + s
  PROVE  p = q /\ r = s
<1>1. ASSUME NEW x \in Int, x >= 1 PROVE x * m >= m
  BY <1>1
<1>2. (p - q) * m = s - r /\ (q - p) * m = r - s
  OBVIOUS
<1>3. ~(p - q >= 1)
  BY <1>1, <1>2
<1>4. ~(q - p >= 1)
  BY <1>1, <1>2
<1>5. p = q
  BY <1>3, <1>4
<1>6. QED BY <1>5

\* Dividing gives them back.
LEMMA DivideAndRest ==
  ASSUME NEW m \in Nat, m > 0, NEW q \in Int, NEW r \in 0..(m - 1)
  PROVE  (q * m + r) % m = r /\ (q * m + r) \div m = q
<1> DEFINE n == q * m + r
<1>1. n \in Int
  OBVIOUS
<1>2. n = (n \div m) * m + (n % m) /\ n % m \in 0..(m - 1) /\ n \div m \in Int
  BY <1>1
<1>3. QED BY <1>2, StepAndPlace

\* A remainder may be taken before or after an addition.
LEMMA RestOfSum ==
  ASSUME NEW m \in Nat, m > 0, NEW x \in Int, NEW y \in Int
  PROVE  ((x % m) + y) % m = (x + y) % m
<1> DEFINE z == (x % m) + y
           k == (x \div m) + (z \div m)
           r == z % m
<1>1. x = (x \div m) * m + (x % m) /\ x % m \in 0..(m - 1) /\ x \div m \in Int
  OBVIOUS
<1>2. z \in Int /\ z = (z \div m) * m + r /\ r \in 0..(m - 1) /\ z \div m \in Int
  BY <1>1
<1>3. x + y = k * m + r /\ k \in Int
  BY <1>1, <1>2
<1> HIDE DEF k, r
<1>4. (k * m + r) % m = r
  BY <1>2, <1>3, DivideAndRest
<1>5. QED BY <1>3, <1>4 DEF r

\* The remainders of both summands may be taken first.
LEMMA RestOfSums ==
  ASSUME NEW m \in Nat, m > 0, NEW x \in Nat, NEW y \in Nat
  PROVE  ((x % m) + (y % m)) % m = (x + y) % m
<1>1. x \in Int /\ y \in Int /\ x % m \in Int /\ y % m \in Int
  OBVIOUS
<1>2. ((x % m) + (y % m)) % m = (x + (y % m)) % m
  BY <1>1, RestOfSum, Zenon
<1>3. ((y % m) + x) % m = (y + x) % m
  BY <1>1, RestOfSum, Zenon
<1>4. (y % m) + x = x + (y % m) /\ y + x = x + y
  BY <1>1
<1>5. QED BY <1>2, <1>3, <1>4

\* One more step from a base, and what is taken modulo m so far.
LEMMA RestOfWalk ==
  ASSUME NEW m \in Nat, m > 0, NEW b \in Nat, NEW n \in Nat, NEW e \in Nat
  PROVE  (((b + n * e) % m) + e) % m = (b + (n + 1) * e) % m
<1> DEFINE x == b + n * e
<1>1. x \in Int /\ e \in Int /\ x + e = b + (n + 1) * e
  OBVIOUS
<1> HIDE DEF x
<1>2. ((x % m) + e) % m = (x + e) % m
  BY <1>1, RestOfSum, Zenon
<1>3. QED BY <1>1, <1>2 DEF x

\* The same from nothing.
LEMMA RestOfProduct ==
  ASSUME NEW m \in Nat, m > 0, NEW n \in Nat, NEW e \in Nat
  PROVE  (((n * e) % m) + e) % m = ((n + 1) * e) % m
<1>1. 0 \in Nat /\ 0 + n * e = n * e /\ 0 + (n + 1) * e = (n + 1) * e
  OBVIOUS
<1>2. (((0 + n * e) % m) + e) % m = (0 + (n + 1) * e) % m
  BY <1>1, RestOfWalk, Zenon
<1>3. QED BY <1>1, <1>2

\* Products of numbers are numbers.
LEMMA ProductType == ASSUME NEW x \in Nat, NEW y \in Nat PROVE x * y \in Nat
OBVIOUS

-----------------------------------------------------------------------------
(* The words of a descriptor, in the order in which they are fetched *)

\* The n-th word, counted over all steps.
Word(d, n) == Operands(d, n \div Words)[(n % Words) + 1]

\* It is a word of the operands of its step.
LEMMA WordOfStep ==
  ASSUME NEW d, NEW s \in Nat, NEW k \in 0..(Words - 1)
  PROVE  Word(d, s * Words + k) = Operands(d, s)[k + 1]
BY DivideAndRest, SizesType DEF Word

\* Where the next word is requested.
RequestsNext ==
  active =>
    /\ aBase = (desc.aBase + reqStep * desc.aStep) % AddrRange
    /\ bBase = (desc.bBase + reqStep * desc.bStep) % AddrRange
    /\ offset = (IF reqWord < Rows THEN reqWord * desc.aRow ELSE (reqWord - Rows) * desc.bCol) % AddrRange

\* The word after those presented.
Behind == issued * Words + Len(ready)

\* What is presented, buffered and in flight follows one upon the other.
InOrder ==
  /\ \A k \in 1..Len(ready) : ready[k] = Word(desc, issued * Words + k - 1)
  /\ \A k \in 1..Count(rdBuf) : fill[rdBuf][k] = Word(desc, Behind + k - 1)
  /\ \A k \in 1..Count(Other(rdBuf)) : fill[Other(rdBuf)][k] = Word(desc, Behind + Words + k - 1)
  /\ \A k \in 1..Len(memory) : memory[k] = Word(desc, Behind + (Count(0) + Count(1)) + k - 1)

\* The strengthening: what has been fetched, and what is requested next.
OrderInv == RequestsNext /\ InOrder

\* An engine that has not started holds nothing.
LEMMA OrderInit == Init => OrderInv
<1> SUFFICES ASSUME Init PROVE OrderInv
  OBVIOUS
<1>1. Other(rdBuf) \in Buffers /\ rdBuf \in Buffers
  BY DEF Init, Other, Buffers
<1>2. Count(rdBuf) = 0 /\ Count(Other(rdBuf)) = 0 /\ Len(ready) = 0 /\ Len(memory) = 0
  BY <1>1 DEF Init, Count
<1>3. QED
  BY <1>2 DEF Init, OrderInv, RequestsNext, InOrder


\* A descriptor's addresses are in range as they stand.
LEMMA DescriptorType ==
  ASSUME NEW d \in Descriptors
  PROVE  /\ d.steps \in Nat
         /\ d.aBase \in Nat /\ d.aRow \in Nat /\ d.aStep \in Nat /\ d.aBase % AddrRange = d.aBase
         /\ d.bBase \in Nat /\ d.bCol \in Nat /\ d.bStep \in Nat /\ d.bBase % AddrRange = d.bBase
<1>1. \A a \in Address : a \in Nat /\ a % AddrRange = a
  BY SizeAssumption DEF Address
<1>2. QED BY <1>1, AddressType

\* The words of a step, one by one.
LEMMA OperandsAt ==
  ASSUME NEW d, NEW s, NEW k \in 1..Words
  PROVE  Operands(d, s)[k] =
           IF k <= Rows THEN (d.aBase + s * d.aStep + (k - 1) * d.aRow) % AddrRange
           ELSE (d.bBase + s * d.bStep + (k - 1 - Rows) * d.bCol) % AddrRange
BY Zenon DEF Operands

\* The address requested is that of the next word.
LEMMA RequestIsNextWord ==
  ASSUME TypeOK, RequestsNext, active
  PROVE  ReqAddr = Word(desc, reqStep * Words + reqWord)
<1>1. /\ desc \in Descriptors /\ reqStep \in Nat /\ reqWord \in 0..(Words - 1)
      /\ AddrRange \in Nat /\ AddrRange > 0
  BY SizeAssumption DEF TypeOK
<1>3. Word(desc, reqStep * Words + reqWord) = Operands(desc, reqStep)[reqWord + 1]
  BY <1>1, WordOfStep
<1>5. CASE reqWord < Rows
  <2> DEFINE x == desc.aBase + reqStep * desc.aStep
             y == reqWord * desc.aRow
             k == reqWord + 1
  <2>1. x \in Nat /\ y \in Nat
    BY <1>1, SizesType, DescriptorType, ProductType
  <2>2. ReqAddr = ((x % AddrRange) + (y % AddrRange)) % AddrRange
    BY <1>5 DEF ReqAddr, Plus, RequestsNext
  <2>4. k \in 1..Words /\ k <= Rows /\ k - 1 = reqWord
    BY <1>1, <1>5, SizesType
  <2>3. Operands(desc, reqStep)[k] = (x + (k - 1) * desc.aRow) % AddrRange
    <3> HIDE DEF k
    <3>1. QED BY <2>4, OperandsAt, Zenon
  <2>6. (k - 1) * desc.aRow = y
    BY <2>4
  <2> HIDE DEF x, y
  <2>5. QED BY <1>1, <1>3, <2>1, <2>2, <2>3, <2>6, RestOfSums
<1>6. CASE ~(reqWord < Rows)
  <2> DEFINE x == desc.bBase + reqStep * desc.bStep
             y == (reqWord - Rows) * desc.bCol
             k == reqWord + 1
  <2>4. /\ k \in 1..Words /\ ~(k <= Rows)
        /\ k - 1 - Rows = reqWord - Rows
    BY <1>1, <1>6, SizesType
  <2>1. x \in Nat /\ y \in Nat
    <3>1. reqWord - Rows \in Nat
      BY <1>1, <1>6, SizesType
    <3>2. QED BY <1>1, <3>1, DescriptorType, ProductType
  <2>2. ReqAddr = ((x % AddrRange) + (y % AddrRange)) % AddrRange
    BY <1>6 DEF ReqAddr, Plus, RequestsNext
  <2>3. Operands(desc, reqStep)[k] = (x + (k - 1 - Rows) * desc.bCol) % AddrRange
    <3> HIDE DEF k
    <3>1. QED BY <2>4, OperandsAt, Zenon
  <2>6. (k - 1 - Rows) * desc.bCol = y
    BY <2>4
  <2> HIDE DEF x, y
  <2>5. QED BY <1>1, <1>3, <2>1, <2>2, <2>3, <2>6, RestOfSums
<1>7. QED BY <1>5, <1>6

\* Walking on, bases and offset stay those of the next word.
LEMMA RequestsNextKept ==
  ASSUME IInv, RequestsNext,
         NEW d \in Inputs, NEW memReady \in BOOLEAN, NEW rspFire \in BOOLEAN, NEW mmaReady \in BOOLEAN,
         Edge(d, memReady, rspFire, mmaReady)
  PROVE  RequestsNext'
<1>0. /\ desc \in Descriptors /\ reqStep \in Nat /\ reqWord \in 0..(Words - 1)
      /\ AddrRange \in Nat /\ AddrRange > 0 /\ 0 % AddrRange = 0
  BY SizeAssumption DEF IInv, TypeOK
<1>1. CASE Starts(d)
  <2>1. /\ d \in Descriptors /\ desc' = d /\ reqStep' = 0 /\ reqWord' = 0
        /\ offset' = 0 /\ aBase' = d.aBase /\ bBase' = d.bBase
    BY <1>1, EdgeSteps DEF Edge, Request
  <2>2. d.aBase + 0 * d.aStep = d.aBase /\ d.bBase + 0 * d.bStep = d.bBase /\ 0 * d.aRow = 0
    BY <2>1, DescriptorType
  <2>3. 0 < Rows
    BY SizesType
  <2>4. QED BY <1>0, <2>1, <2>2, <2>3, DescriptorType DEF RequestsNext
<1>2. CASE ~Starts(d) /\ active' /\ ~(ReqValid /\ memReady)
  BY <1>2, EdgeSteps DEF Edge, Request, requestVars, RequestsNext
<1>3. CASE ~Starts(d) /\ active' /\ ReqValid /\ memReady
  <2>1. active /\ desc' = desc /\ Walk
    BY <1>3, EdgeSteps DEF Edge, Request
  <2>6. /\ aBase = (desc.aBase + reqStep * desc.aStep) % AddrRange
        /\ bBase = (desc.bBase + reqStep * desc.bStep) % AddrRange
        /\ offset = (IF reqWord < Rows THEN reqWord * desc.aRow ELSE (reqWord - Rows) * desc.bCol) % AddrRange
    BY <2>1 DEF RequestsNext
  <2>7. 0 * desc.aRow = 0 /\ 0 * desc.bCol = 0
    BY <1>0, DescriptorType
  <2>4. ASSUME NEW b \in Nat, NEW e \in Nat
        PROVE  (((b + reqStep * e) % AddrRange) + e) % AddrRange = (b + (reqStep + 1) * e) % AddrRange
    BY <1>0, RestOfWalk, Zenon
  <2>5. ASSUME NEW w \in Nat, NEW e \in Nat
        PROVE  (((w * e) % AddrRange) + e) % AddrRange = ((w + 1) * e) % AddrRange
    BY <1>0, RestOfProduct, Zenon
  <2>8. /\ aBase' = (desc.aBase + reqStep' * desc.aStep) % AddrRange
        /\ bBase' = (desc.bBase + reqStep' * desc.bStep) % AddrRange
    <3>1. CASE reqWord = Words - 1
      <4>1. reqStep' = reqStep + 1 /\ aBase' = Plus(aBase, desc.aStep) /\ bBase' = Plus(bBase, desc.bStep)
        BY <2>1, <3>1 DEF Walk
      <4>2. /\ Plus(aBase, desc.aStep) = (desc.aBase + (reqStep + 1) * desc.aStep) % AddrRange
            /\ Plus(bBase, desc.bStep) = (desc.bBase + (reqStep + 1) * desc.bStep) % AddrRange
        <5>1. /\ desc.aBase \in Nat /\ desc.aStep \in Nat /\ desc.bBase \in Nat /\ desc.bStep \in Nat
          BY <1>0, DescriptorType
        <5>2. /\ (aBase + desc.aStep) % AddrRange = (desc.aBase + (reqStep + 1) * desc.aStep) % AddrRange
              /\ (bBase + desc.bStep) % AddrRange = (desc.bBase + (reqStep + 1) * desc.bStep) % AddrRange
          BY <2>4, <2>6, <5>1, Zenon
        <5>3. QED BY <5>2 DEF Plus
      <4>3. QED BY <4>1, <4>2
    <3>2. CASE reqWord # Words - 1
      BY <2>1, <2>6, <3>2 DEF Walk
    <3>3. QED BY <3>1, <3>2
  <2>9. offset' = (IF reqWord' < Rows THEN reqWord' * desc.aRow ELSE (reqWord' - Rows) * desc.bCol) % AddrRange
    <3>1. CASE reqWord = Rows - 1
      <4>1. offset' = 0 /\ reqWord' = Rows
        BY <2>1, <3>1, SizesType DEF Walk
      <4>2. ~(Rows < Rows) /\ Rows - Rows = 0
        BY SizesType
      <4>3. QED BY <1>0, <2>7, <4>1, <4>2
    <3>2. CASE reqWord = Words - 1
      <4>1. offset' = 0 /\ reqWord' = 0 /\ 0 < Rows
        BY <2>1, <3>2, SizesType DEF Walk
      <4>2. QED BY <1>0, <2>7, <4>1
    <3>3. CASE reqWord < Rows - 1
      <4>1. /\ reqWord < Rows /\ reqWord + 1 < Rows /\ reqWord \in Nat
            /\ reqWord # Rows - 1 /\ reqWord # Words - 1
        BY <1>0, <3>3, SizesType
      <4>3. offset' = Plus(offset, desc.aRow) /\ reqWord' = reqWord + 1
        BY <2>1, <4>1 DEF Walk
      <4>4. Plus(offset, desc.aRow) = ((reqWord + 1) * desc.aRow) % AddrRange
        BY <1>0, <2>5, <2>6, <4>1, DescriptorType DEF Plus
      <4>2. QED BY <4>1, <4>3, <4>4
    <3>4. CASE reqWord >= Rows /\ reqWord # Words - 1
      <4>1. /\ ~(reqWord < Rows) /\ ~(reqWord + 1 < Rows) /\ reqWord - Rows \in Nat
            /\ (reqWord - Rows) + 1 = (reqWord + 1) - Rows
            /\ reqWord # Rows - 1
        BY <1>0, <3>4, SizesType
      <4>3. offset' = Plus(offset, desc.bCol) /\ reqWord' = reqWord + 1
        BY <2>1, <3>4, <4>1 DEF Walk
      <4>4. Plus(offset, desc.bCol) = (((reqWord - Rows) + 1) * desc.bCol) % AddrRange
        BY <1>0, <2>5, <2>6, <4>1, DescriptorType DEF Plus
      <4>2. QED BY <4>1, <4>3, <4>4
    <3>5. QED BY <1>0, <3>1, <3>2, <3>3, <3>4, SizesType
  <2>10. QED BY <2>1, <2>8, <2>9 DEF RequestsNext
<1>4. CASE ~Starts(d) /\ ~active'
  BY <1>4 DEF RequestsNext
<1>5. QED BY <1>1, <1>2, <1>3, <1>4

\* Where what follows the words presented begins.
LEMMA PositionsMove ==
  ASSUME IInv, active,
         NEW d \in Inputs, NEW memReady \in BOOLEAN, NEW rspFire \in BOOLEAN, NEW mmaReady \in BOOLEAN,
         Edge(d, memReady, rspFire, mmaReady)
  PROVE  /\ Behind \in Nat /\ issued * Words \in Nat
         /\ FillComplete(mmaReady) => (issued * Words)' = Behind /\ Behind' = Behind + Words
         /\ ~FillComplete(mmaReady) =>
              /\ Behind' = Behind
              /\ ready' = <<>> \/ (ready' = ready /\ (issued * Words)' = issued * Words)
         /\ Behind + (Count(0) + Count(1)) + Len(memory) = reqStep * Words + reqWord
<1> DEFINE base == issued * Words
<1>1. issued \in Nat /\ reqStep \in Nat /\ reqWord \in Int /\ ready \in Seq(Address)
      /\ Count(0) \in Nat /\ Count(1) \in Nat /\ inflight \in Nat
  BY SizesType DEF IInv, TypeOK, Count, Buffers
<1>2. base \in Nat /\ Len(ready) \in Nat
  BY <1>1, SizesType, ProductType
<1>3. issued' = issued + Bit(Mma(mmaReady))
  BY EdgeSteps DEF Starts, Accepts
<1>4. (issued + 1) * Words = base + Words /\ (issued + 0) * Words = base
  BY <1>1, SizesType
<1>5. (issued * Words)' = IF Mma(mmaReady) THEN base + Words ELSE base
  BY <1>3, <1>4 DEF Bit
<1>6. /\ MmaValid => Len(ready) = Words
      /\ ~MmaValid => Len(ready) = 0
  BY SizesType DEF IInv, BuffersFit, MmaValid
<1>7. Len(ready') = IF FillComplete(mmaReady) THEN Words ELSE IF Mma(mmaReady) THEN 0 ELSE Len(ready)
  BY EdgeCounts
<1>8. Behind = base + Len(ready) /\ Behind' = (issued * Words)' + Len(ready')
  BY DEF Behind
<1>9. ~FillComplete(mmaReady) => ready' = IF Mma(mmaReady) THEN <<>> ELSE ready
  BY DEF Edge, Issue
<1>10. Behind + (Count(0) + Count(1)) + Len(memory) = reqStep * Words + reqWord
  <2>1. (reqStep - issued) * Words + reqWord = Count(0) + Count(1) + inflight + Len(ready)
        /\ inflight = Len(memory)
    BY DEF IInv, NoWordLost, Held
  <2>2. (reqStep - issued) * Words = reqStep * Words - base /\ reqStep * Words \in Nat
    BY <1>1, SizesType, ProductType
  <2> DEFINE gap == (reqStep - issued) * Words
             next == reqStep * Words
  <2>3. gap + reqWord = Count(0) + Count(1) + inflight + Len(ready) /\ inflight = Len(memory)
    BY <2>1
  <2>4. gap = next - base /\ next \in Nat
    BY <2>2
  <2> HIDE DEF base, gap, next
  <2>5. Behind + (Count(0) + Count(1)) + Len(memory) = next + reqWord
    BY <1>1, <1>2, <1>8, <2>3, <2>4
  <2>6. QED BY <2>5 DEF next
<1> HIDE DEF base
<1>11. FillComplete(mmaReady) => (issued * Words)' = Behind /\ Behind' = Behind + Words
  BY <1>2, <1>5, <1>6, <1>7, <1>8, SizesType DEF FillComplete, Mma
<1>12. ~FillComplete(mmaReady) =>
         /\ Behind' = Behind
         /\ ready' = <<>> \/ (ready' = ready /\ (issued * Words)' = base)
  <2>1. CASE Mma(mmaReady)
    BY <1>2, <1>5, <1>6, <1>7, <1>8, <1>9, <2>1, SizesType DEF Mma
  <2>2. CASE ~Mma(mmaReady)
    BY <1>2, <1>5, <1>7, <1>8, <1>9, <2>2
  <2>3. QED BY <2>1, <2>2
<1>13. QED BY <1>2, <1>8, <1>10, <1>11, <1>12 DEF base

\* A busy engine keeps its words in order.
LEMMA InOrderWhileActive ==
  ASSUME IInv, OrderInv, active,
         NEW d \in Inputs, NEW memReady \in BOOLEAN, NEW rspFire \in BOOLEAN, NEW mmaReady \in BOOLEAN,
         Edge(d, memReady, rspFire, mmaReady)
  PROVE  InOrder'
<1> DEFINE W(n) == Word(desc, n)
           taken == FillComplete(mmaReady)
           other == Other(rdBuf)
           p == Bit(rspFire)
           sum == Count(0) + Count(1)
<1>1. /\ desc' = desc
      /\ memory \in Seq(Address) /\ ready \in Seq(Address) /\ Len(memory) \in Nat
      /\ fill[rdBuf] \in Seq(Address) /\ fill[other] \in Seq(Address)
      /\ Words \in Nat
  BY EdgeSteps, SizesType DEF Starts, Accepts, IInv, TypeOK, Buffers, Other
<1>2. /\ rdBuf \in Buffers /\ other \in Buffers /\ other # rdBuf /\ Other(other) = rdBuf
      /\ wrBuf \in Buffers /\ (wrBuf = rdBuf \/ wrBuf = other)
      /\ sum = Count(rdBuf) + Count(other) /\ Count(rdBuf) \in Nat /\ Count(other) \in Nat
  <2>1. rdBuf \in Buffers /\ wrBuf \in Buffers /\ fill \in [Buffers -> Seq(Address)]
    BY DEF IInv, TypeOK
  <2>2. /\ other \in Buffers /\ other # rdBuf /\ Other(other) = rdBuf
        /\ wrBuf = rdBuf \/ wrBuf = other
        /\ (rdBuf = 0 /\ other = 1) \/ (rdBuf = 1 /\ other = 0)
    BY <2>1 DEF Buffers, Other
  <2>3. \A b \in Buffers : Count(b) \in Nat
    BY <2>1 DEF Count
  <2> HIDE DEF other
  <2>4. sum = Count(rdBuf) + Count(other)
    BY <2>2, <2>3 DEF Buffers
  <2>5. QED BY <2>1, <2>2, <2>3, <2>4
<1>3. /\ \A k \in 1..Len(ready) : ready[k] = W(issued * Words + k - 1)
      /\ \A k \in 1..Count(rdBuf) : fill[rdBuf][k] = W(Behind + k - 1)
      /\ \A k \in 1..Count(other) : fill[other][k] = W(Behind + Words + k - 1)
      /\ \A k \in 1..Len(memory) : memory[k] = W(Behind + sum + k - 1)
  BY DEF OrderInv, InOrder
<1>4. /\ Behind \in Nat
      /\ taken => (issued * Words)' = Behind /\ Behind' = Behind + Words
      /\ ~taken => /\ Behind' = Behind
                   /\ ready' = <<>> \/ (ready' = ready /\ (issued * Words)' = issued * Words)
      /\ Behind + sum + Len(memory) = reqStep * Words + reqWord
  BY PositionsMove
<1>5. /\ taken => Count(rdBuf) = Words
      /\ rdBuf' = IF taken THEN other ELSE rdBuf
      /\ taken => ready' = fill[rdBuf]
  BY DEF FillComplete, RdFull, Edge, Issue
<1>6. rspFire => Len(memory) > 0 /\ memory # <<>> /\ Head(memory) = memory[1]
                 /\ Count(wrBuf) < Words
  <2>1. rspFire => Len(memory) > 0
    BY EdgeCounts
  <2>2. rspFire => Count(wrBuf) < Words
    BY <2>1 DEF IInv, CreditSuffices, NoWordLost
  <2>3. Len(memory) > 0 => memory # <<>> /\ Head(memory) = memory[1]
    BY <1>1
  <2>4. QED BY <2>1, <2>2, <2>3
<1>7. /\ wrBuf = other => Count(rdBuf) = Words \/ ~rspFire
      /\ wrBuf = rdBuf => Count(other) = 0 \/ ~rspFire
  BY <1>2, <1>6 DEF IInv, BuffersFit
<1>8. \A b \in Buffers : fill'[b] = IF taken /\ b = rdBuf THEN <<>>
                                    ELSE IF rspFire /\ b = wrBuf THEN Append(fill[b], Head(memory))
                                    ELSE fill[b]
  BY DEF Edge, Response
<1>9. rspFire => memory[1] = W(Behind + sum)
  <2>1. rspFire => memory[1] = W(Behind + sum + 1 - 1)
    BY <1>1, <1>3, <1>6
  <2>2. Behind + sum + 1 - 1 = Behind + sum
    BY <1>2, <1>4
  <2>3. QED BY <2>1, <2>2
<1> HIDE DEF W, taken, other, p, sum
<1>10. \A k \in 1..Len(ready') : ready'[k] = W((issued * Words)' + k - 1)
  <2>1. CASE taken
    BY <1>3, <1>4, <1>5, <2>1 DEF Count
  <2>2. CASE ~taken
    BY <1>3, <1>4, <2>2
  <2>3. QED BY <2>1, <2>2
<1>11. \A k \in 1..Len(fill'[other]) : fill'[other][k] = W(Behind + Words + k - 1)
  <2>1. CASE rspFire /\ wrBuf = other
    <3>1. fill'[other] = Append(fill[other], memory[1])
      BY <1>2, <1>6, <1>8, <2>1
    <3>2. memory[1] = W(Behind + Words + Count(other))
      <4>1. Behind + sum = Behind + Words + Count(other)
        BY <1>1, <1>2, <1>4, <1>7, <2>1
      <4>2. QED BY <1>9, <2>1, <4>1
    <3>3. ASSUME NEW k \in 1..Len(fill'[other])
          PROVE  fill'[other][k] = W(Behind + Words + k - 1)
      <4>1. CASE k \in 1..Len(fill[other])
        BY <1>1, <1>3, <3>1, <4>1 DEF Count
      <4>2. CASE k = Len(fill[other]) + 1
        <5>1. fill'[other][k] = memory[1]
          BY <1>1, <3>1, <4>2
        <5>2. Behind + Words + k - 1 = Behind + Words + Count(other)
          BY <1>1, <1>2, <1>4, <4>2 DEF Count
        <5>3. QED BY <3>2, <5>1, <5>2
      <4>3. QED BY <1>1, <3>1, <4>1, <4>2
    <3>4. QED BY <3>3
  <2>2. CASE ~(rspFire /\ wrBuf = other)
    <3>1. fill'[other] = fill[other]
      BY <1>2, <1>8, <2>2
    <3>2. QED BY <1>3, <3>1 DEF Count
  <2>3. QED BY <2>1, <2>2
<1>12. ASSUME ~taken
       PROVE  \A k \in 1..Len(fill'[rdBuf]) : fill'[rdBuf][k] = W(Behind + k - 1)
  <2>1. CASE rspFire /\ wrBuf = rdBuf
    <3>1. fill'[rdBuf] = Append(fill[rdBuf], memory[1])
      BY <1>2, <1>6, <1>8, <1>12, <2>1
    <3>2. memory[1] = W(Behind + Count(rdBuf))
      <4>1. Behind + sum = Behind + Count(rdBuf)
        BY <1>2, <1>4, <1>7, <2>1
      <4>2. QED BY <1>9, <2>1, <4>1
    <3>3. ASSUME NEW k \in 1..Len(fill'[rdBuf])
          PROVE  fill'[rdBuf][k] = W(Behind + k - 1)
      <4>1. CASE k \in 1..Len(fill[rdBuf])
        BY <1>1, <1>3, <3>1, <4>1 DEF Count
      <4>2. CASE k = Len(fill[rdBuf]) + 1
        <5>1. fill'[rdBuf][k] = memory[1]
          BY <1>1, <3>1, <4>2
        <5>2. Behind + k - 1 = Behind + Count(rdBuf)
          BY <1>1, <1>2, <1>4, <4>2 DEF Count
        <5>3. QED BY <3>2, <5>1, <5>2
      <4>3. QED BY <1>1, <3>1, <4>1, <4>2
    <3>4. QED BY <3>3
  <2>2. CASE ~(rspFire /\ wrBuf = rdBuf)
    <3>1. fill'[rdBuf] = fill[rdBuf]
      BY <1>2, <1>8, <1>12, <2>2
    <3>2. QED BY <1>3, <3>1 DEF Count
  <2>3. QED BY <2>1, <2>2
<1>13. Behind' + (Len(fill'[0]) + Len(fill'[1])) = Behind + sum + p
  <2> DEFINE n(b) == Len(fill'[b])
             toOther == Bit(rspFire /\ wrBuf = other)
             toRead == Bit(rspFire /\ wrBuf = rdBuf)
  <2>1. n(other) = Count(other) + toOther /\ n(rdBuf) = IF taken THEN 0 ELSE Count(rdBuf) + toRead
    BY <1>2, EdgeCounts DEF Count, taken
  <2>2. n(0) \in Nat /\ n(1) \in Nat
    BY TypeNext DEF TypeOK, Buffers
  <2>3. (rdBuf = 0 /\ other = 1) \/ (rdBuf = 1 /\ other = 0)
    BY <1>2 DEF Buffers, Other, other
  <2>4. taken /\ rspFire => wrBuf = other
    BY <1>1, <1>2, <1>5, <1>6
  <2>5. /\ toOther \in {0, 1} /\ toRead \in {0, 1} /\ p = toOther + toRead
        /\ taken => toRead = 0
    BY <1>2, <2>4 DEF Bit, p
  <2> HIDE DEF n, toOther, toRead
  <2>6. n(0) + n(1) = n(rdBuf) + n(other)
    BY <2>2, <2>3
  <2>7. sum = Count(rdBuf) + Count(other) /\ Count(rdBuf) \in Nat /\ Count(other) \in Nat
        /\ Behind \in Nat /\ Words \in Nat
    BY <1>1, <1>2, <1>4
  <2>8. Behind' = (IF taken THEN Behind + Words ELSE Behind) /\ (taken => Count(rdBuf) = Words)
    BY <1>4, <1>5
  <2>9. Behind' + (n(0) + n(1)) = Behind + sum + p
    BY <2>1, <2>5, <2>6, <2>7, <2>8
  <2>10. QED BY <2>9 DEF n
<1>14. Len(memory') = Len(memory) + Bit(ReqValid /\ memReady) - p
  BY EdgeCounts DEF p
<1>15. ASSUME NEW k \in 1..Len(memory')
       PROVE  memory'[k] = W(Behind + sum + p + k - 1)
  <2> DEFINE rest == IF rspFire THEN Tail(memory) ELSE memory
  <2>1. rest \in Seq(Address) /\ Len(rest) = Len(memory) - p /\ p \in {0, 1} /\ Len(rest) \in Nat
    BY <1>1, <1>6 DEF p, Bit
  <2>2. \A i \in 1..Len(rest) : rest[i] = W(Behind + sum + p + i - 1)
    <3>1. ASSUME NEW i \in 1..Len(rest) PROVE rest[i] = memory[i + p] /\ i + p \in 1..Len(memory)
      BY <1>1, <1>6, <2>1 DEF p, Bit
    <3>2. ASSUME NEW i \in 1..Len(rest) PROVE Behind + sum + (i + p) - 1 = Behind + sum + p + i - 1
      BY <1>2, <1>4, <2>1
    <3> HIDE DEF rest
    <3>3. QED BY <1>3, <3>1, <3>2
  <2>3. CASE ReqValid /\ memReady
    <3>1. memory' = rest \o <<ReqAddr>>
      BY <2>3 DEF Edge
    <3>2. ReqAddr = W(Behind + sum + Len(memory))
      <4>1. ReqAddr = W(reqStep * Words + reqWord)
        BY RequestIsNextWord DEF IInv, OrderInv, W
      <4>2. QED BY <1>4, <4>1
    <3> HIDE DEF rest
    <3>3. CASE k \in 1..Len(rest)
      BY <2>1, <2>2, <3>1, <3>3
    <3>4. CASE k = Len(rest) + 1
      <4>1. memory'[k] = ReqAddr
        BY <2>1, <3>1, <3>4
      <4>2. Behind + sum + p + k - 1 = Behind + sum + Len(memory)
        BY <1>1, <1>2, <1>4, <2>1, <3>4
      <4>3. QED BY <3>2, <4>1, <4>2
    <3>5. Len(memory') = Len(rest) + 1
      BY <2>1, <3>1
    <3>6. QED BY <2>1, <3>3, <3>4, <3>5
  <2>4. CASE ~(ReqValid /\ memReady)
    <3>1. memory' = rest
      <4>1. memory' = rest \o <<>>
        BY <2>4 DEF Edge
      <4>2. QED BY <2>1, <4>1
    <3>2. QED BY <2>2, <3>1
  <2>5. QED BY <2>3, <2>4
<1>16. CASE taken
  <2>1. /\ rdBuf' = other /\ Other(rdBuf') = rdBuf /\ Behind' = Behind + Words
        /\ fill'[rdBuf] = <<>>
    BY <1>2, <1>4, <1>5, <1>8, <1>16
  <2>2. /\ \A k \in 1..Len(fill'[rdBuf']) : fill'[rdBuf'][k] = W(Behind' + k - 1)
        /\ \A k \in 1..Len(fill'[Other(rdBuf')]) : fill'[Other(rdBuf')][k] = W(Behind' + Words + k - 1)
    BY <1>11, <2>1
  <2>3. \A k \in 1..Len(memory') : memory'[k] = W(Behind' + (Len(fill'[0]) + Len(fill'[1])) + k - 1)
    BY <1>13, <1>15
  <2>4. QED BY <1>1, <1>10, <2>2, <2>3 DEF InOrder, Count, W
<1>17. CASE ~taken
  <2>1. rdBuf' = rdBuf /\ Other(rdBuf') = other /\ Behind' = Behind
    BY <1>4, <1>5, <1>17 DEF other
  <2>2. /\ \A k \in 1..Len(fill'[rdBuf']) : fill'[rdBuf'][k] = W(Behind' + k - 1)
        /\ \A k \in 1..Len(fill'[Other(rdBuf')]) : fill'[Other(rdBuf')][k] = W(Behind' + Words + k - 1)
    BY <1>11, <1>12, <1>17, <2>1
  <2>3. \A k \in 1..Len(memory') : memory'[k] = W(Behind' + (Len(fill'[0]) + Len(fill'[1])) + k - 1)
    BY <1>13, <1>15
  <2>4. QED BY <1>1, <1>10, <2>2, <2>3 DEF InOrder, Count, W
<1>18. QED BY <1>16, <1>17

\* An idle engine holds no word, and gets none when it starts.
LEMMA InOrderWhileIdle ==
  ASSUME IInv, ~active,
         NEW d \in Inputs, NEW memReady \in BOOLEAN, NEW rspFire \in BOOLEAN, NEW mmaReady \in BOOLEAN,
         Edge(d, memReady, rspFire, mmaReady)
  PROVE  InOrder'
<1>1. \A b \in Buffers : Len(fill[b]) \in Nat
  BY DEF IInv, TypeOK
<1>2. Len(fill[0]) = 0 /\ Len(fill[1]) = 0 /\ Len(memory) = 0 /\ Len(ready) = 0
  BY <1>1 DEF IInv, TypeOK, NoWordLost, Held, Count, Buffers, MmaValid
<1>3. ~rspFire /\ ~ReqValid /\ ~Mma(mmaReady)
  <2>1. ~rspFire
    <3>1. rspFire => Len(memory) > 0
      BY EdgeCounts
    <3>2. QED BY <1>2, <3>1
  <2>2. ~ReqValid /\ ~Mma(mmaReady)
    BY DEF ReqValid, Mma, IInv, NoWordLost
  <2>3. QED BY <2>1, <2>2
<1>4. \A b \in Buffers : Len(fill[b]) = 0
  BY <1>2 DEF Buffers
<1>5. ~FillComplete(mmaReady)
  BY <1>4, SizesType DEF FillComplete, RdFull, Count, IInv, TypeOK
<1>6. \A b \in Buffers : Len(fill'[b]) = 0
  <2>1. \A b \in Buffers : Len(fill'[b]) = Len(fill[b]) + Bit(rspFire /\ b = wrBuf)
    BY <1>5, EdgeCounts
  <2>2. \A b \in Buffers : Bit(rspFire /\ b = wrBuf) = 0
    BY <1>3 DEF Bit
  <2>3. QED BY <1>4, <2>1, <2>2
<1>7. Len(memory') = 0 /\ Len(ready') = 0
  <2>1. Len(ready') = 0
    BY <1>2, <1>3, <1>5, EdgeCounts
  <2>2. Len(memory') = Len(memory) + Bit(ReqValid /\ memReady) - Bit(rspFire)
    BY EdgeCounts
  <2>3. Bit(ReqValid /\ memReady) = 0 /\ Bit(rspFire) = 0
    BY <1>3 DEF Bit
  <2>4. QED BY <1>2, <2>1, <2>2, <2>3
<1>8. rdBuf' \in Buffers /\ Other(rdBuf') \in Buffers
  BY TypeNext DEF TypeOK, Buffers, Other
<1>9. QED BY <1>6, <1>7, <1>8 DEF InOrder, Count

\* Every clock keeps the order.
LEMMA OrderNext == IInv /\ OrderInv /\ [Next]_dmaVars => OrderInv'
<1>1. ASSUME IInv, OrderInv,
             NEW d \in Inputs, NEW memReady \in BOOLEAN, NEW rspFire \in BOOLEAN,
             NEW mmaReady \in BOOLEAN, Edge(d, memReady, rspFire, mmaReady)
      PROVE  OrderInv'
  BY <1>1, RequestsNextKept, InOrderWhileActive, InOrderWhileIdle DEF OrderInv
<1>2. ASSUME OrderInv, UNCHANGED dmaVars PROVE OrderInv'
  BY <1>2 DEF dmaVars, requestVars, fillVars, OrderInv, RequestsNext, InOrder, Behind, Count, Other
<1>3. QED BY <1>1, <1>2 DEF Next

\* Requests walk the descriptor's addresses, and what is presented, buffered and
\* in flight are its words one after the other.
THEOREM OrderHolds == Spec => []OrderInv
BY InvariantHolds, OrderInit, OrderNext, PTL DEF Spec

\* Words in order are the operands of the step to be issued.
LEMMA InOrderIsOperands == IInv /\ OrderInv => OperandsInOrder
<1> SUFFICES ASSUME IInv, OrderInv, MmaValid PROVE ready = Operands(desc, issued)
  BY DEF OperandsInOrder
<1>1. ready \in Seq(Address) /\ Len(ready) = Words /\ issued \in Nat
  BY DEF IInv, TypeOK, BuffersFit, MmaValid
<1>2. ASSUME NEW k \in 1..Words PROVE ready[k] = Operands(desc, issued)[k]
  <2>1. k - 1 \in 0..(Words - 1) /\ (k - 1) + 1 = k /\ k \in 1..Len(ready)
    BY <1>1, SizesType
  <2>2. ready[k] = Word(desc, issued * Words + k - 1)
    BY <2>1 DEF OrderInv, InOrder
  <2>3. issued * Words + k - 1 = issued * Words + (k - 1)
    BY <1>1, SizesType, ProductType
  <2>4. Word(desc, issued * Words + (k - 1)) = Operands(desc, issued)[(k - 1) + 1]
    BY <1>1, <2>1, WordOfStep
  <2>5. QED BY <2>1, <2>2, <2>3, <2>4
<1>3. DOMAIN Operands(desc, issued) = 1..Words /\ DOMAIN ready = 1..Words
  BY <1>1 DEF Operands
<1>4. QED BY <1>1, <1>2, <1>3 DEF Operands

\* The MMA presented is the next step's: the rows of A and the columns of B that
\* the descriptor describes, each word from its address and in its place,
\* however requests, answers and backpressure interleave.
THEOREM OperandsOrdered == Spec => []OperandsInOrder
BY InvariantHolds, OrderHolds, InOrderIsOperands, PTL

-----------------------------------------------------------------------------
(* The tile.  TileInv says of each MMA in the pipeline that nothing ahead   *)
(* of it writes its accumulator, and that what it was multiplied onto is    *)
(* what the accumulator holds.  A clock that does not stall then moves      *)
(* every stage on without changing what the pipeline amounts to, and a      *)
(* command accepted takes effect behind all the others.                     *)

Stage == Commands \cup {Empty}

\* s may commit after ahead and leave its accumulator to it.
Clear(s, ahead) == s # Empty /\ s.op = "MMA" => ~(Writes(ahead) /\ ahead.idx = s.idx)

TileTypeOK ==
  /\ acc \in [Accumulators -> Values]
  /\ s1 \in Stage /\ s2 \in Stage /\ s3 \in Stage
  /\ base2 \in Values /\ base3 \in Values
  /\ rsp = <<>> \/ \E v \in Values : rsp = <<v>>

TileInv ==
  /\ TileTypeOK
  /\ Clear(s1, s2) /\ Clear(s1, s3) /\ Clear(s2, s3)
  /\ s2 # Empty /\ s2.op = "MMA" => base2 = acc[s2.idx]
  /\ s3 # Empty /\ s3.op = "MMA" => base3 = acc[s3.idx]

-----------------------------------------------------------------------------
(* Commands on the accumulators *)

\* A command keeps the accumulators' type.
LEMMA AppliedType ==
  ASSUME CommandsAssumption, NEW v \in [Accumulators -> Values], NEW s \in Stage
  PROVE  Applied(v, s) \in [Accumulators -> Values]
<1>1. CASE ~Writes(s)
  BY <1>1 DEF Applied
<1>2. CASE Writes(s)
  <2>1. /\ s \in Commands /\ s.idx \in Accumulators
        /\ s.op = "ZERO" \/ s.op = "LOAD" \/ s.op = "MMA"
    BY <1>2 DEF Writes, Stage, CommandsAssumption
  <2>2. CASE s.op = "ZERO" BY <1>2, <2>1, <2>2 DEF Applied, CommandsAssumption
  <2>3. CASE s.op = "LOAD" BY <1>2, <2>1, <2>3 DEF Applied, CommandsAssumption
  <2>4. CASE s.op = "MMA"
    <3>1. Mac(v[s.idx], s.data) \in Values
      BY <2>1, <2>4 DEF CommandsAssumption
    <3>2. Applied(v, s) = [v EXCEPT ![s.idx] = Mac(v[s.idx], s.data)]
      BY <1>2, <2>1, <2>4 DEF Applied
    <3>3. QED BY <3>1, <3>2, <2>1
  <2>5. QED BY <2>1, <2>2, <2>3, <2>4
<1>3. QED BY <1>1, <1>2

\* The commands that a stage may hold, as the abstract memory applies them.
LEMMA AppliedIsAtomic ==
  ASSUME CommandsAssumption, NEW v \in [Accumulators -> Values], NEW c \in Commands
  PROVE  Applied(v, c) = Memory!Applied(v, c)
<1>1. /\ c # Empty
      /\ c.op = "ZERO" \/ c.op = "LOAD" \/ c.op = "MMA" \/ c.op = "READ"
  BY DEF CommandsAssumption
<1>2. CASE c.op = "ZERO" BY <1>1, <1>2 DEF Applied, Writes, Memory!Applied
<1>3. CASE c.op = "LOAD" BY <1>1, <1>3 DEF Applied, Writes, Memory!Applied
<1>4. CASE c.op = "MMA" BY <1>1, <1>4 DEF Applied, Writes, Memory!Applied
<1>5. CASE c.op = "READ" BY <1>1, <1>5 DEF Applied, Writes, Memory!Applied
<1>6. QED BY <1>1, <1>2, <1>3, <1>4, <1>5

\* What S3 commits is its command, applied to the memory as it stands.
LEMMA CommitIsApplied ==
  ASSUME TileInv, Commit
  PROVE  acc' = After3
BY DEF TileInv, Commit, After3, Applied

\* An accumulator that a command does not write stays as it is.
LEMMA AppliedElsewhere ==
  ASSUME CommandsAssumption, NEW v \in [Accumulators -> Values], NEW s \in Stage,
         NEW i \in Accumulators, ~(Writes(s) /\ s.idx = i)
  PROVE  Applied(v, s)[i] = v[i]
<1>1. CASE ~Writes(s)
  BY <1>1 DEF Applied
<1>2. CASE Writes(s)
  BY <1>2, s.idx # i DEF Applied
<1>3. QED BY <1>1, <1>2
-----------------------------------------------------------------------------
(* One clock edge *)

\* A clock that stalls changes nothing.
LEMMA StallKeeps ==
  ASSUME NEW c, NEW rspReady \in BOOLEAN, TileEdge(c, rspReady), Stall(rspReady)
  PROVE  UNCHANGED tileVars
BY DEF TileEdge, Stall, Respond, tileVars

\* Otherwise the pipeline moves on, and may take in a command.
LEMMA EdgeMoves ==
  ASSUME NEW c \in Commands \cup {NoCommand}, NEW rspReady \in BOOLEAN,
         TileEdge(c, rspReady), ~Stall(rspReady)
  PROVE  /\ Commit /\ Respond(rspReady)
         /\ s3' = s2 /\ s2' = s1 /\ base3' = base2
         /\ base2' = (IF s1 # Empty /\ s1.op = "MMA" THEN acc[s1.idx] ELSE Zero)
         /\ s1' = Empty \/ (s1' \in Commands /\ Clear(s1', s1) /\ Clear(s1', s2))
BY DEF TileEdge, Advance, Takes, Hazard, Clear

\* The type of the registers, and of what S3 leaves.
LEMMA TypeMoves ==
  ASSUME CommandsAssumption, TileInv, NEW c \in Commands \cup {NoCommand},
         NEW rspReady \in BOOLEAN, TileEdge(c, rspReady), ~Stall(rspReady)
  PROVE  TileTypeOK'
<1>1. acc' \in [Accumulators -> Values]
  BY CommitIsApplied, EdgeMoves, AppliedType DEF TileInv, TileTypeOK, After3
<1>2. s1' \in Stage /\ s2' \in Stage /\ s3' \in Stage
  BY EdgeMoves DEF TileInv, TileTypeOK, Stage
<1>3. base2' \in Values /\ base3' \in Values
  <2>1. ASSUME s1 # Empty PROVE s1.idx \in Accumulators
    BY <2>1 DEF TileInv, TileTypeOK, Stage, CommandsAssumption
  <2>2. QED BY <2>1, EdgeMoves DEF TileInv, TileTypeOK, CommandsAssumption
<1>4. rsp' = <<>> \/ \E v \in Values : rsp' = <<v>>
  <2>1. ASSUME s3 # Empty PROVE s3.idx \in Accumulators
    BY <2>1 DEF TileInv, TileTypeOK, Stage, CommandsAssumption
  <2>2. QED BY <2>1, EdgeMoves DEF TileInv, TileTypeOK, Respond
<1>5. QED BY <1>1, <1>2, <1>3, <1>4 DEF TileTypeOK

\* The invariant holds at first.
LEMMA TileInvInit == CommandsAssumption /\ TileInit => TileInv
BY DEF CommandsAssumption, TileInit, TileInv, TileTypeOK, Stage, Clear

\* Every clock keeps it: an MMA enters behind commands that leave its
\* accumulator alone, and takes its base past the one that is committing.
LEMMA TileInvNext ==
  ASSUME CommandsAssumption, TileInv, [TileNext]_tileVars
  PROVE  TileInv'
<1>1. CASE UNCHANGED tileVars
  BY <1>1 DEF TileInv, TileTypeOK, tileVars, Clear, Writes
<1>2. ASSUME NEW c \in Commands \cup {NoCommand}, NEW rspReady \in BOOLEAN,
             TileEdge(c, rspReady), ~Stall(rspReady)
      PROVE  TileInv'
  <2>1. TileTypeOK'
    BY <1>2, TypeMoves
  <2>2. Clear(s1', s2') /\ Clear(s1', s3') /\ Clear(s2', s3')
    BY <1>2, EdgeMoves DEF TileInv, Clear, Writes
  <2>3. acc' = After3
    BY <1>2, EdgeMoves, CommitIsApplied
  <2>4. ASSUME s1 # Empty, s1.op = "MMA" PROVE acc'[s1.idx] = acc[s1.idx]
    BY <2>3, <2>4, AppliedElsewhere DEF TileInv, TileTypeOK, Clear, After3, Stage, CommandsAssumption
  <2>5. ASSUME s2 # Empty, s2.op = "MMA" PROVE acc'[s2.idx] = acc[s2.idx]
    BY <2>3, <2>5, AppliedElsewhere DEF TileInv, TileTypeOK, Clear, After3, Stage, CommandsAssumption
  <2>6. s2' # Empty /\ s2'.op = "MMA" => base2' = acc'[s2'.idx]
    BY <1>2, <2>4, EdgeMoves
  <2>7. s3' # Empty /\ s3'.op = "MMA" => base3' = acc'[s3'.idx]
    BY <1>2, <2>5, EdgeMoves DEF TileInv
  <2>8. QED
    BY <2>1, <2>2, <2>6, <2>7 DEF TileInv, Clear, Writes
<1>3. QED
  BY <1>1, <1>2, StallKeeps DEF TileNext

\* The invariant is one of the tile, whoever drives its command port.
THEOREM TileInvariantHolds == ASSUME CommandsAssumption PROVE TileSpec => []TileInv
BY TileInvInit, TileInvNext, PTL DEF TileSpec

-----------------------------------------------------------------------------
(* The pipeline as a memory of atomic accumulators *)

\* A clock moves on what the pipeline amounts to: the accumulators behind S3
\* become those behind nothing, and the new S1 acts behind the old one.
LEMMA ContentsMove ==
  ASSUME CommandsAssumption, TileInv, NEW c \in Commands \cup {NoCommand},
         NEW rspReady \in BOOLEAN, TileEdge(c, rspReady), ~Stall(rspReady)
  PROVE  /\ acc' = After3 /\ After3' = After2 /\ After2' = Contents
         /\ Contents' = Applied(Contents, s1')
<1>1. acc' = After3
  BY EdgeMoves, CommitIsApplied
<1>2. s3' = s2 /\ s2' = s1
  BY EdgeMoves
<1>3. After3' = After2
  BY <1>1, <1>2 DEF After3, After2, Applied, Writes
<1>4. After2' = Contents
  BY <1>2, <1>3 DEF After2, Contents, Applied, Writes
<1>5. Contents' = Applied(Contents, s1')
  BY <1>4 DEF Contents, Applied, Writes
<1>6. QED BY <1>1, <1>3, <1>4, <1>5

\* An answer is one value or none.
LEMMA AnswerType ==
  ASSUME CommandsAssumption, NEW v \in [Accumulators -> Values], NEW s \in Stage
  PROVE  Answer(v, s) = <<>> \/ \E x \in Values : Answer(v, s) = <<x>>
<1>1. CASE s = Empty BY <1>1 DEF Answer
<1>2. CASE s # Empty
  <2>1. s.idx \in Accumulators
    BY <1>2 DEF Stage, CommandsAssumption
  <2>2. QED BY <2>1 DEF Answer
<1>3. QED BY <1>1, <1>2
\* Answers are queued one behind the other.
LEMMA QueueOfAnswers ==
  ASSUME NEW A \in Seq(Values), NEW B \in Seq(Values), NEW C \in Seq(Values), NEW v \in Values
  PROVE  /\ ((<<>> \o A) \o B) \o C = (A \o B) \o C
         /\ ((A \o <<>>) \o B) \o C = (A \o B) \o C
         /\ ((<<v>> \o A) \o B) \o C # <<>>
         /\ Tail(((<<v>> \o A) \o B) \o C) = (A \o B) \o C
<1>1. <<>> \o A = A /\ A \o <<>> = A
  BY ConcatEmptySeq
<1>2. ((<<v>> \o A) \o B) \o C = <<v>> \o ((A \o B) \o C)
  BY ConcatAssociative, ConcatProperties
<1>3. (A \o B) \o C \in Seq(Values)
  BY ConcatProperties
<1>4. <<v>> \o ((A \o B) \o C) # <<>> /\ Tail(<<v>> \o ((A \o B) \o C)) = (A \o B) \o C
  <2> DEFINE D == (A \o B) \o C
  <2>1. ASSUME NEW E \in Seq(Values) PROVE <<v>> \o E # <<>> /\ Tail(<<v>> \o E) = E
    BY <2>1
  <2>2. D \in Seq(Values)
    BY <1>3
  <2>3. QED BY <2>1, <2>2
<1>5. QED BY <1>1, <1>2, <1>4

\* What the host takes leaves the response register first, and what S3 answers
\* takes its place: the queue loses its head if that was taken, and gains the
\* answer of the new command.
LEMMA AnswersMove ==
  ASSUME CommandsAssumption, TileInv, NEW c \in Commands \cup {NoCommand},
         NEW rspReady \in BOOLEAN, TileEdge(c, rspReady), ~Stall(rspReady),
         NEW taken, taken = (rspReady /\ rsp # <<>>)
  PROVE  /\ taken => Answers # <<>>
         /\ Answers' = (IF taken THEN Tail(Answers) ELSE Answers) \o Answer(Contents, s1')
         /\ Answers' \in Seq(Values) /\ Len(Answers') <= 4
         /\ (IF taken THEN Tail(Answers) ELSE Answers) \in Seq(Values)
<1> DEFINE A3 == Answer(acc, s3)
           A2 == Answer(After3, s2)
           A1 == Answer(After2, s1)
           A0 == Answer(Contents, s1')
           Short(a) == a = <<>> \/ \E x \in Values : a = <<x>>
<1>1. /\ acc \in [Accumulators -> Values] /\ After3 \in [Accumulators -> Values]
      /\ After2 \in [Accumulators -> Values] /\ Contents \in [Accumulators -> Values]
  BY AppliedType DEF TileInv, TileTypeOK, After3, After2, Contents
<1>2. s1 \in Stage /\ s2 \in Stage /\ s3 \in Stage /\ s1' \in Stage
  BY TypeMoves DEF TileInv, TileTypeOK
<1>3. Short(A3) /\ Short(A2) /\ Short(A1) /\ Short(A0) /\ Short(rsp) /\ Short(rsp')
  BY <1>1, <1>2, AnswerType, TypeMoves DEF TileInv, TileTypeOK
<1>4. \A a : Short(a) => a \in Seq(Values) /\ Len(a) <= 1
  <2>1. SUFFICES ASSUME NEW a, Short(a) PROVE a \in Seq(Values) /\ Len(a) <= 1
    OBVIOUS
  <2>2. CASE a = <<>>
    BY <2>2
  <2>3. ASSUME NEW x \in Values, a = <<x>> PROVE a \in Seq(Values) /\ Len(a) <= 1
    BY <2>3
  <2>4. QED BY <2>1, <2>2, <2>3
<1>5. Answers = ((rsp \o A3) \o A2) \o A1
  BY DEF Answers
<1>6. Answers' = ((rsp' \o A2) \o A1) \o A0
  <2>1. Answer(acc, s3)' = A2 /\ Answer(After3, s2)' = A1
    BY ContentsMove, EdgeMoves DEF Answer
  <2>2. Answer(After2, s1)' = A0
    BY ContentsMove DEF Answer
  <2>3. QED BY <2>1, <2>2 DEF Answers
<1>7. /\ A3 # <<>> => rsp' = A3 /\ (rspReady \/ rsp = <<>>)
      /\ A3 = <<>> => rsp' = IF rspReady THEN <<>> ELSE rsp
  BY EdgeMoves DEF Answer, Respond, Stall
<1> HIDE DEF A3, A2, A1, A0
<1>8. /\ taken => Answers # <<>>
      /\ (IF taken THEN Tail(Answers) ELSE Answers) = (rsp' \o A2) \o A1
  <2>1. CASE rsp = <<>>
    <3>1. ~taken
      BY <2>1
    <3>2. Answers = (A3 \o A2) \o A1
      BY <1>3, <1>4, <1>5, <2>1, QueueOfAnswers
    <3>3. rsp' = A3
      BY <1>7, <2>1
    <3>4. QED BY <3>1, <3>2, <3>3
  <2>2. ASSUME NEW v \in Values, rsp = <<v>>
        PROVE  /\ taken => Answers # <<>>
               /\ (IF taken THEN Tail(Answers) ELSE Answers) = (rsp' \o A2) \o A1
    <3>1. A3 \in Seq(Values) /\ A2 \in Seq(Values) /\ A1 \in Seq(Values) /\ rsp \in Seq(Values)
      BY <1>3, <1>4
    <3>2. taken = rspReady
      BY <2>2
    <3>3. CASE rspReady
      <4>1. rsp' = A3
        BY <1>7, <3>3
      <4>2. Answers # <<>> /\ Tail(Answers) = (A3 \o A2) \o A1
        BY <1>5, <2>2, <3>1, QueueOfAnswers
      <4>3. QED BY <3>2, <3>3, <4>1, <4>2
    <3>4. CASE ~rspReady
      <4>1. rsp' = rsp /\ A3 = <<>>
        BY <1>7, <2>2, <3>4
      <4>2. Answers = (rsp \o A2) \o A1
        BY <1>5, <3>1, <4>1, QueueOfAnswers
      <4>3. QED BY <3>2, <3>4, <4>1, <4>2
    <3>5. QED BY <3>3, <3>4
  <2>3. QED BY <1>3, <2>1, <2>2
<1>9. (rsp' \o A2) \o A1 \in Seq(Values)
  BY <1>3, <1>4, ConcatProperties
<1>10. Answers' \in Seq(Values) /\ Len(Answers') <= 4
  <2>1. /\ rsp' \o A2 \in Seq(Values) /\ Len(rsp' \o A2) <= 2
    BY <1>3, <1>4, ConcatProperties
  <2>2. /\ (rsp' \o A2) \o A1 \in Seq(Values) /\ Len((rsp' \o A2) \o A1) <= 3
    BY <1>3, <1>4, <2>1, ConcatProperties
  <2>3. QED BY <1>3, <1>4, <1>6, <2>2, ConcatProperties
<1>11. QED BY <1>6, <1>8, <1>9, <1>10 DEF A0

\* An edge of the tile is a clock of the atomic memory: an answer taken, a
\* command accepted, both, or none.
LEMMA EdgeIsClock ==
  ASSUME CommandsAssumption, TileInv, NEW c \in Commands \cup {NoCommand},
         NEW rspReady \in BOOLEAN, TileEdge(c, rspReady), ~Stall(rspReady)
  PROVE  Memory!Next
<1> DEFINE taken == rspReady /\ rsp # <<>>
           rest == IF taken THEN Tail(Answers) ELSE Answers
<1>1. /\ taken \in BOOLEAN /\ taken => Answers # <<>>
      /\ Answers' = rest \o Answer(Contents, s1')
      /\ Len(Answers') <= 4 /\ rest \in Seq(Values)
  BY AnswersMove
<1>2. Contents' = Applied(Contents, s1')
  BY ContentsMove
<1>3. Contents \in [Accumulators -> Values]
  BY AppliedType DEF TileInv, TileTypeOK, After3, After2, Contents
<1> HIDE DEF taken
<1>4. CASE s1' = Empty
  <2>1. Answer(Contents, s1') = <<>> /\ Contents' = Contents
    BY <1>2, <1>4 DEF Answer, Applied, Writes
  <2>2. Answers' = rest
    BY <1>1, <2>1, ConcatEmptySeq
  <2>3. QED
    BY <1>1, <2>1, <2>2 DEF Memory!Clock, Memory!Next
<1>5. CASE s1' \in Commands
  <2>1. Contents' = Memory!Applied(Contents, s1')
    BY <1>2, <1>3, <1>5, AppliedIsAtomic
  <2>2. s1' # Empty /\ s1'.idx \in Accumulators
    BY <1>5 DEF CommandsAssumption
  <2>3. Answers' = IF s1'.op = "READ" THEN Append(rest, Contents[s1'.idx]) ELSE rest
    <3>1. CASE s1'.op = "READ"
      <4>1. Answer(Contents, s1') = <<Contents[s1'.idx]>> /\ Contents[s1'.idx] \in Values
        BY <1>3, <2>2, <3>1 DEF Answer
      <4>2. QED BY <1>1, <3>1, <4>1, AppendIsConcat
    <3>2. CASE s1'.op # "READ"
      <4>1. Answer(Contents, s1') = <<>>
        BY <3>2 DEF Answer
      <4>2. QED BY <1>1, <3>2, <4>1, ConcatEmptySeq
    <3>3. QED BY <3>1, <3>2
  <2>4. QED
    BY <1>1, <1>5, <2>1, <2>3 DEF Memory!Clock, Memory!Next
<1>6. QED BY <1>4, <1>5, EdgeMoves

-----------------------------------------------------------------------------
(* The refinement *)

\* The pipelined tile is a memory of accumulators on which commands are
\* atomic: no command sees a stale accumulator, and every READ is answered
\* once, in order, with what the commands before it left.
THEOREM TileIsAtomic == ASSUME CommandsAssumption PROVE TileSpec => ImplementsMemory
<1>1. TileInit => Memory!Init
  BY DEF TileInit, Memory!Init, Contents, After2, After3, Answers, Applied, Answer, Writes
<1>2. TileInv /\ [TileNext]_tileVars => [Memory!Next]_<<Contents, Answers>>
  <2>1. ASSUME UNCHANGED tileVars PROVE UNCHANGED <<Contents, Answers>>
    BY <2>1 DEF tileVars, Contents, After2, After3, Answers, Applied, Answer, Writes
  <2>2. ASSUME TileInv, TileNext PROVE Memory!Next \/ UNCHANGED tileVars
    BY <2>2, StallKeeps, EdgeIsClock DEF TileNext
  <2>3. QED BY <2>1, <2>2
<1>3. QED BY <1>1, <1>2, TileInvariantHolds, PTL DEF TileSpec, ImplementsMemory, Memory!Spec

-----------------------------------------------------------------------------
(* The core *)

\* The words an MMA of the DMA carries are its step's, so it is a command of
\* the tile, and so is whatever else is presented.
LEMMA PresentedIsCommand ==
  ASSUME CoreAssumption, IInv, OrderInv, NEW cmd \in HostCommands \cup {NoCommand}
  PROVE  /\ Presented(cmd) \in Commands \cup {NoCommand}
         /\ UseDma => /\ active /\ desc \in Descriptors
                      /\ Presented(cmd) = MmaCommand(desc, Operands(desc, issued))
                      /\ Presented(cmd) \in Commands
<1>1. CASE ~UseDma
  BY <1>1 DEF Presented, CoreAssumption
<1>2. CASE UseDma
  <2>1. active /\ desc \in Descriptors /\ issued \in Nat /\ issued < desc.steps
    BY <1>2 DEF UseDma, IInv, NoWordLost, BuffersFit, TypeOK
  <2>2. ready = Operands(desc, issued)
    BY <1>2, InOrderIsOperands DEF UseDma, OperandsInOrder
  <2>3. issued \in 0 .. (desc.steps - 1)
    BY <2>1, AddressType
  <2>4. MmaCommand(desc, Operands(desc, issued)) \in DmaCommands
    BY <2>1, <2>3 DEF DmaCommands
  <2>5. QED
    BY <1>2, <2>1, <2>2, <2>4 DEF Presented, CoreAssumption
<1>3. QED BY <1>1, <1>2

\* A clock of the core is one of the DMA and one of the tile.
LEMMA CoreStepsBoth ==
  ASSUME CoreAssumption, IInv, OrderInv, [CoreNext]_vars
  PROVE  [Next]_dmaVars /\ [TileNext]_tileVars
<1>1. CASE UNCHANGED vars
  BY <1>1 DEF vars
<1>2. ASSUME NEW d \in Descriptors \cup {NoDesc}, NEW memReady \in BOOLEAN,
             NEW rspFire \in BOOLEAN, NEW rspReady \in BOOLEAN,
             NEW cmd \in HostCommands \cup {NoCommand},
             CoreEdge(d, memReady, rspFire, cmd, rspReady)
      PROVE  Next /\ TileNext
  <2>1. (UseDma /\ TileReady(cmd, rspReady)) \in BOOLEAN
    OBVIOUS
  <2>2. Next
    BY <1>2, <2>1 DEF CoreEdge, Next, Inputs
  <2>3. TileNext
    BY <1>2, PresentedIsCommand DEF CoreEdge, TileNext
  <2>4. QED BY <2>2, <2>3
<1>3. QED BY <1>1, <1>2 DEF CoreNext

\* What the accumulators amount to has their type.
LEMMA ContentsType ==
  ASSUME CommandsAssumption, TileInv
  PROVE  Contents \in [Accumulators -> Values]
BY AppliedType DEF TileInv, TileTypeOK, After3, After2, Contents

\* A descriptor with steps names an accumulator.
LEMMA DescriptorsAccumulate ==
  ASSUME CoreAssumption, NEW d \in Descriptors, d.steps # 0
  PROVE  /\ d.acc \in Accumulators
         /\ \A k \in 0 .. (d.steps - 1), v \in Values : Mac(v, Operands(d, k)) \in Values
<1>1. ASSUME NEW k \in 0 .. (d.steps - 1)
      PROVE  d.acc \in Accumulators /\ \A v \in Values : Mac(v, Operands(d, k)) \in Values
  <2> DEFINE c == MmaCommand(d, Operands(d, k))
  <2>1. c \in Commands
    BY DEF DmaCommands, CoreAssumption
  <2>2. c.op = "MMA" /\ c.idx = d.acc /\ c.data = Operands(d, k)
    BY DEF MmaCommand
  <2> HIDE DEF c
  <2>3. QED BY <2>1, <2>2 DEF CoreAssumption, CommandsAssumption
<1>2. d.steps \in Nat /\ 0 \in 0 .. (d.steps - 1)
  BY AddressType
<1>3. QED BY <1>1, <1>2

\* What is presented takes effect on the accumulators, at once, if it is taken.
LEMMA TakenIsApplied ==
  ASSUME CommandsAssumption, TileInv, NEW c \in Commands \cup {NoCommand},
         NEW rspReady \in BOOLEAN, TileEdge(c, rspReady)
  PROVE  Contents' = IF Takes(c, rspReady) THEN Applied(Contents, c) ELSE Contents
<1>1. CASE Stall(rspReady)
  <2>1. UNCHANGED tileVars
    BY <1>1, StallKeeps
  <2>2. Contents' = Contents
    BY <2>1 DEF tileVars, Contents, After2, After3, Applied, Writes
  <2>3. QED BY <1>1, <2>2 DEF Takes
<1>2. CASE ~Stall(rspReady)
  <2>1. Contents' = Applied(Contents, s1')
    BY <1>2, ContentsMove
  <2>2. s1' = IF Takes(c, rspReady) THEN c ELSE Empty
    BY <1>2 DEF TileEdge, Advance
  <2>3. Applied(Contents, Empty) = Contents
    BY DEF Applied, Writes
  <2>4. QED BY <2>1, <2>2, <2>3
<1>3. QED BY <1>1, <1>2

-----------------------------------------------------------------------------
(* Sums over the steps of a descriptor *)

\* f[k] is the accumulator v after the first k steps of descriptor d.
Sums(f, v, d, n) ==
  /\ f \in [0 .. n -> Values] /\ f[0] = v
  /\ \A k \in 0 .. (n - 1) : f[k + 1] = Mac(f[k], Operands(d, k))

\* s is a solution of the recursion in DoneMeansSummed.
Solves(s, v, d, n) ==
  s = [k \in 0 .. n |-> IF k = 0 THEN v ELSE Mac(s[k - 1], Operands(d, k - 1))]

\* One more step adds one more sum.
LEMMA SumsExtend ==
  ASSUME NEW v, NEW d, NEW n \in Nat, NEW f, Sums(f, v, d, n),
         Mac(f[n], Operands(d, n)) \in Values
  PROVE  \E g : Sums(g, v, d, n + 1) /\ g[n + 1] = Mac(f[n], Operands(d, n))
<1> DEFINE m == n + 1
           w == Mac(f[n], Operands(d, n))
           g == [k \in 0 .. m |-> IF k = m THEN w ELSE f[k]]
<1>1. m \in Nat /\ m = n + 1 /\ n \in 0 .. n
  OBVIOUS
<1>2. f \in [0 .. n -> Values] /\ f[0] = v /\ w \in Values
  BY DEF Sums
<1>3. g \in [0 .. m -> Values] /\ g[m] = w /\ g[0] = v
  BY <1>1, <1>2
<1>4. ASSUME NEW k \in 0 .. (m - 1) PROVE g[k + 1] = Mac(g[k], Operands(d, k))
  <2>1. g[k] = f[k]
    BY <1>1
  <2>2. CASE k = n
    BY <1>1, <1>3, <2>1, <2>2
  <2>3. CASE k # n
    <3>1. k \in 0 .. (n - 1) /\ k + 1 \in 0 .. n /\ k + 1 # m
      BY <1>1, <2>3
    <3>2. g[k + 1] = f[k + 1]
      BY <1>1, <3>1
    <3>3. QED BY <2>1, <3>1, <3>2 DEF Sums
  <2>4. QED BY <2>2, <2>3
<1>5. Sums(g, v, d, m)
  BY <1>3, <1>4 DEF Sums
<1>6. QED BY <1>3, <1>5

\* A set of numbers that is not empty has a least one.
LEMMA LeastNumber ==
  ASSUME NEW T \in SUBSET Nat, T # {}
  PROVE  \E x \in T : \A y \in T : x <= y
<1> DEFINE R == OpToRel(<, Nat)
<1>1. IsWellFoundedOn(R, Nat)
  BY NatLessThanWellFounded
<1>2. PICK x \in T : \A y \in T : ~(<<y, x>> \in R)
  BY <1>1, WFMin
<1>3. \A y \in T : ~(y < x)
  BY <1>2 DEF OpToRel
<1>4. QED BY <1>3

\* The sums satisfy the recursion, and nothing else does: if another solution
\* differed, it would differ first at some step.
LEMMA SumsAreUnique ==
  ASSUME NEW v, NEW d, NEW n \in Nat, NEW f, Sums(f, v, d, n)
  PROVE  Solves(f, v, d, n) /\ \A s : Solves(s, v, d, n) => s[n] = f[n]
<1>1. ASSUME NEW k \in 0 .. n
      PROVE  f[k] = IF k = 0 THEN v ELSE Mac(f[k - 1], Operands(d, k - 1))
  <2>1. CASE k = 0
    BY <2>1 DEF Sums
  <2>2. CASE k # 0
    <3>1. k - 1 \in 0 .. (n - 1) /\ (k - 1) + 1 = k
      BY <2>2
    <3>2. f[(k - 1) + 1] = Mac(f[k - 1], Operands(d, k - 1))
      BY <3>1 DEF Sums
    <3>3. QED BY <2>2, <3>1, <3>2
  <2>3. QED BY <2>1, <2>2
<1>2. Solves(f, v, d, n)
  BY <1>1 DEF Sums, Solves
<1>3. ASSUME NEW s, Solves(s, v, d, n) PROVE s[n] = f[n]
  <2> DEFINE T == {k \in 0 .. n : s[k] # f[k]}
  <2>1. SUFFICES ASSUME T # {} PROVE FALSE
    OBVIOUS
  <2>2. T \in SUBSET Nat
    OBVIOUS
  <2>3. PICK x \in T : \A y \in T : x <= y
    BY <2>1, <2>2, LeastNumber
  <2>4. \A k \in 0 .. n : s[k] = IF k = 0 THEN v ELSE Mac(s[k - 1], Operands(d, k - 1))
    BY <1>3 DEF Solves
  <2>5. CASE x = 0
    BY <1>1, <2>4, <2>5
  <2>6. CASE x # 0
    <3>1. x - 1 \in 0 .. n /\ ~(x <= x - 1)
      BY <2>6
    <3>2. s[x - 1] = f[x - 1]
      BY <2>3, <3>1
    <3>3. s[x] = Mac(s[x - 1], Operands(d, x - 1)) /\ f[x] = Mac(f[x - 1], Operands(d, x - 1))
      BY <1>1, <2>4, <2>6
    <3>4. QED BY <3>2, <3>3
  <2>7. QED BY <2>5, <2>6
<1>4. QED BY <1>2, <1>3

-----------------------------------------------------------------------------
(* What the accumulator holds while a descriptor runs *)

\* Unless the host has written it, the accumulator of the descriptor holds the
\* sum over the steps issued, and all have been when the engine is idle.
Summed ==
  expected # <<>> =>
    /\ desc.acc \in Accumulators
    /\ \E v, f :
         v \in Values /\ expected = <<v>> /\ Sums(f, v, desc, issued) /\ f[issued] = Contents[desc.acc]
    /\ ~active => issued = desc.steps

CoreInv ==
  /\ IInv /\ OrderInv /\ TileInv
  /\ done => ~active
  /\ Summed

LEMMA CoreInvInit == CoreAssumption /\ CoreInit => CoreInv
BY InvariantInit, OrderInit, TileInvInit DEF CoreInit, CoreInv, Summed, CoreAssumption, Init

\* Contents after a command that is not an MMA of the DMA: the accumulator of
\* the descriptor changes only when the host writes it.
LEMMA HostLeavesOrWrites ==
  ASSUME CoreAssumption, CoreInv, NEW cmd \in HostCommands \cup {NoCommand},
         NEW rspReady \in BOOLEAN, TileEdge(Presented(cmd), rspReady),
         ~(UseDma /\ TileReady(cmd, rspReady)), ~HostWrites(cmd, rspReady),
         desc.acc \in Accumulators
  PROVE  Contents'[desc.acc] = Contents[desc.acc]
<1>1. Presented(cmd) \in Commands \cup {NoCommand}
  BY PresentedIsCommand DEF CoreInv
<1>2. Contents' = IF TileReady(cmd, rspReady) THEN Applied(Contents, Presented(cmd)) ELSE Contents
  BY <1>1, TakenIsApplied DEF CoreInv, CoreAssumption, TileReady
<1>3. CASE ~TileReady(cmd, rspReady)
  BY <1>2, <1>3
<1>4. CASE TileReady(cmd, rspReady)
  <2>1. ~UseDma /\ Presented(cmd) = cmd
    BY <1>4 DEF Presented
  <2>2. cmd \in Commands
    BY <1>1, <1>4, <2>1 DEF TileReady, Takes
  <2>3. cmd.op = "READ" \/ cmd.idx # desc.acc
    BY <1>4, <2>1 DEF HostWrites
  <2>4. ~(Writes(cmd) /\ cmd.idx = desc.acc)
    BY <2>3 DEF Writes
  <2>5. Contents \in [Accumulators -> Values]
    BY ContentsType DEF CoreInv, CoreAssumption
  <2>6. Applied(Contents, cmd)[desc.acc] = Contents[desc.acc]
    BY <2>2, <2>4, <2>5, AppliedElsewhere DEF CoreAssumption, Stage
  <2>7. QED BY <1>2, <1>4, <2>1, <2>6
<1>5. QED BY <1>3, <1>4

\* An MMA of the DMA that is taken adds its step to the accumulator.
LEMMA DmaAddsItsStep ==
  ASSUME CoreAssumption, CoreInv, NEW cmd \in HostCommands \cup {NoCommand},
         NEW rspReady \in BOOLEAN, TileEdge(Presented(cmd), rspReady),
         UseDma, TileReady(cmd, rspReady), desc.acc \in Accumulators
  PROVE  Contents'[desc.acc] = Mac(Contents[desc.acc], Operands(desc, issued))
<1> DEFINE c == MmaCommand(desc, Operands(desc, issued))
<1>1. Presented(cmd) = c /\ c \in Commands
  BY PresentedIsCommand DEF CoreInv
<1>2. Contents' = Applied(Contents, c)
  BY <1>1, TakenIsApplied DEF CoreInv, CoreAssumption, TileReady
<1>3. c.op = "MMA" /\ c.idx = desc.acc /\ c.data = Operands(desc, issued)
  BY DEF MmaCommand
<1>4. c # Empty
  BY <1>1 DEF CoreAssumption, CommandsAssumption
<1>5. Contents \in [Accumulators -> Values]
  BY ContentsType DEF CoreInv, CoreAssumption
<1> HIDE DEF c
<1>6. Applied(Contents, c) = [Contents EXCEPT ![desc.acc] = Mac(@, Operands(desc, issued))]
  BY <1>3, <1>4 DEF Applied, Writes
<1>7. QED BY <1>2, <1>5, <1>6

\* A clock of the core keeps the sum: a descriptor starts with the sum over no
\* step, an MMA taken adds the next step, and anything else leaves both alone,
\* unless the host writes the accumulator.
LEMMA SummedNext ==
  ASSUME CoreAssumption, CoreInv,
         NEW d \in Descriptors \cup {NoDesc}, NEW memReady \in BOOLEAN,
         NEW rspFire \in BOOLEAN, NEW rspReady \in BOOLEAN,
         NEW cmd \in HostCommands \cup {NoCommand},
         CoreEdge(d, memReady, rspFire, cmd, rspReady)
  PROVE  Summed' /\ (done' => ~active')
<1> DEFINE taken == UseDma /\ TileReady(cmd, rspReady)
<1>1. /\ taken \in BOOLEAN /\ Edge(d, memReady, rspFire, taken)
      /\ TileEdge(Presented(cmd), rspReady) /\ d \in Inputs
  BY DEF CoreEdge, Inputs
<1>2. /\ expected' = IF Starts(d) THEN <<Contents'[d.acc]>>
                     ELSE IF HostWrites(cmd, rspReady) THEN <<>> ELSE expected
  BY DEF CoreEdge
<1>3. Mma(taken) <=> taken
  BY DEF Mma, UseDma
<1>4. Contents' \in [Accumulators -> Values]
  <2>1. Contents \in [Accumulators -> Values]
    BY ContentsType DEF CoreInv, CoreAssumption
  <2>2. Presented(cmd) \in Commands \cup {NoCommand}
    BY PresentedIsCommand DEF CoreInv
  <2>3. Contents' = IF TileReady(cmd, rspReady) THEN Applied(Contents, Presented(cmd)) ELSE Contents
    BY <1>1, <2>2, TakenIsApplied DEF CoreInv, CoreAssumption, TileReady
  <2>4. TileReady(cmd, rspReady) => Presented(cmd) \in Stage
    BY <2>2 DEF TileReady, Takes, Stage
  <2>5. QED BY <2>1, <2>3, <2>4, AppliedType DEF CoreAssumption
<1>5. /\ active \in BOOLEAN /\ desc \in Descriptors /\ issued \in Nat /\ desc.steps \in Nat
      /\ active => issued < desc.steps
      /\ UseDma => active
  BY AddressType DEF CoreInv, IInv, TypeOK, BuffersFit, NoWordLost, UseDma
<1> HIDE DEF taken
<1>6. done' => ~active'
  <2>1. done' = (LastIssue(taken) \/ (Accepts(d) /\ d.steps = 0))
    BY <1>1 DEF Edge, Descriptor
  <2>2. active' = (Starts(d) \/ (active /\ ~LastIssue(taken)))
    BY <1>1 DEF Edge, Descriptor
  <2>3. LastIssue(taken) => active
    BY <1>3, <1>5 DEF LastIssue, taken
  <2>4. QED BY <2>1, <2>2, <2>3 DEF Starts, Accepts
<1>7. CASE Starts(d)
  <2>1. active' /\ d \in Descriptors /\ desc' = d /\ d.steps # 0 /\ issued' = 0
    BY <1>1, <1>7, EdgeSteps DEF CoreInv
  <2>2. d.acc \in Accumulators
    BY <2>1, DescriptorsAccumulate
  <2> DEFINE v == Contents'[d.acc]
             f == [k \in 0 .. 0 |-> v]
  <2>3. v \in Values /\ expected' = <<v>>
    BY <1>2, <1>4, <1>7, <2>2
  <2>4. Sums(f, v, d, 0) /\ f[0] = v
    BY <2>3 DEF Sums
  <2>5. QED BY <1>6, <2>1, <2>2, <2>3, <2>4 DEF Summed
<1>8. CASE ~Starts(d)
  <2>1. desc' = desc /\ active' = (active /\ ~LastIssue(taken)) /\ issued' = issued + Bit(Mma(taken))
    BY <1>1, <1>8, EdgeSteps DEF CoreInv
  <2>2. SUFFICES ASSUME expected' # <<>>
                 PROVE  /\ desc.acc \in Accumulators
                        /\ \E v, f :
                             /\ v \in Values /\ expected' = <<v>> /\ Sums(f, v, desc, issued')
                             /\ f[issued'] = Contents'[desc.acc]
                        /\ ~active' => issued' = desc.steps
    BY <1>6, <2>1 DEF Summed
  <2>3. expected' = expected /\ ~HostWrites(cmd, rspReady)
    BY <1>2, <1>8, <2>2
  <2>4. PICK v, f :
          v \in Values /\ expected = <<v>> /\ Sums(f, v, desc, issued) /\ f[issued] = Contents[desc.acc]
    BY <2>2, <2>3 DEF CoreInv, Summed
  <2>5. desc.acc \in Accumulators /\ (~active => issued = desc.steps)
    BY <2>2, <2>3 DEF CoreInv, Summed
  <2>6. CASE taken
    <3>1. issued' = issued + 1 /\ active /\ issued \in 0 .. (desc.steps - 1) /\ desc.steps # 0
      BY <1>3, <1>5, <2>1, <2>6 DEF Bit, taken
    <3>2. Contents'[desc.acc] = Mac(Contents[desc.acc], Operands(desc, issued))
      BY <1>1, <2>5, <2>6, DmaAddsItsStep DEF taken
    <3>3. Mac(f[issued], Operands(desc, issued)) \in Values
      <4>1. f[issued] \in Values
        BY <1>5, <2>4 DEF Sums
      <4>2. QED BY <1>5, <3>1, <4>1, DescriptorsAccumulate
    <3>4. PICK g : /\ Sums(g, v, desc, issued + 1)
                   /\ g[issued + 1] = Mac(f[issued], Operands(desc, issued))
      BY <1>5, <2>4, <3>3, SumsExtend
    <3>5. ~active' => issued' = desc.steps
      BY <1>3, <2>1, <2>6, <3>1 DEF LastIssue
    <3>6. QED BY <2>3, <2>4, <2>5, <3>1, <3>2, <3>4, <3>5
  <2>7. CASE ~taken
    <3>1. issued' = issued /\ active' = active
      BY <1>3, <1>5, <2>1, <2>7 DEF Bit, LastIssue
    <3>2. Contents'[desc.acc] = Contents[desc.acc]
      BY <1>1, <2>3, <2>5, <2>7, HostLeavesOrWrites DEF taken
    <3>3. QED BY <2>3, <2>4, <2>5, <3>1, <3>2
  <2>8. QED BY <2>6, <2>7
<1>9. QED BY <1>7, <1>8

\* The invariant of the core: that of the DMA, that of the tile, and the sum.
LEMMA CoreInvNext == CoreAssumption /\ CoreInv /\ [CoreNext]_vars => CoreInv'
<1> SUFFICES ASSUME CoreAssumption, CoreInv, [CoreNext]_vars PROVE CoreInv'
  OBVIOUS
<1>1. [Next]_dmaVars /\ [TileNext]_tileVars
  BY CoreStepsBoth DEF CoreInv
<1>2. IInv' /\ OrderInv' /\ TileInv'
  BY <1>1, InvariantNext, OrderNext, TileInvNext DEF CoreInv, CoreAssumption
<1>3. Summed' /\ (done' => ~active')
  <2>1. CASE UNCHANGED vars
    <3>1. /\ UNCHANGED <<active, done, desc, issued, expected>>
          /\ UNCHANGED tileVars
      BY <2>1 DEF vars, dmaVars
    <3>2. Contents' = Contents
      BY <3>1 DEF tileVars, Contents, After2, After3, Applied, Writes
    <3>3. QED BY <3>1, <3>2 DEF CoreInv, Summed
  <2>2. CASE CoreNext
    BY <2>2, SummedNext DEF CoreNext
  <2>3. QED BY <2>1, <2>2
<1>4. QED BY <1>2, <1>3 DEF CoreInv

\* The inductive invariant of the core holds: DMA and tile keep theirs, and the
\* accumulator of a descriptor holds the sum over the steps issued.
THEOREM CoreInvariantHolds == ASSUME CoreAssumption PROVE CoreSpec => []CoreInv
BY CoreInvInit, CoreInvNext, PTL DEF CoreSpec

\* A descriptor that is done has had all its sum taken.
LEMMA SumsAreWhole == CoreInv => DoneMeansSummed
<1> DEFINE sum == CHOOSE s : Solves(s, expected[1], desc, desc.steps)
<1> SUFFICES ASSUME CoreInv, done, expected # <<>>
             PROVE  Contents[desc.acc] = sum[desc.steps]
  BY DEF DoneMeansSummed, Solves
<1>1. PICK v, f :
        v \in Values /\ expected = <<v>> /\ Sums(f, v, desc, issued) /\ f[issued] = Contents[desc.acc]
  BY DEF CoreInv, Summed
<1>2. issued = desc.steps /\ issued \in Nat /\ expected[1] = v
  BY <1>1 DEF CoreInv, Summed, IInv, TypeOK
<1>3. /\ desc.steps \in Nat /\ Sums(f, expected[1], desc, desc.steps)
      /\ f[desc.steps] = Contents[desc.acc]
  BY <1>1, <1>2
<1>4. /\ Solves(f, expected[1], desc, desc.steps)
      /\ \A s : Solves(s, expected[1], desc, desc.steps) => s[desc.steps] = f[desc.steps]
  BY <1>3, SumsAreUnique
<1>5. Solves(sum, expected[1], desc, desc.steps)
  BY <1>4
<1>6. QED BY <1>3, <1>4, <1>5

\* The core sums what a descriptor describes, for operands of any size, any
\* descriptors, accumulators, arithmetic and commands of the host: the DMA
\* presents every step's operands in order, and once done is seen the
\* accumulator holds the sum over all of them, unless the host wrote it.
THEOREM CoreSums == ASSUME CoreAssumption PROVE CoreSpec => []TileIsSummed
<1>1. CoreInv => TileIsSummed
  BY SumsAreWhole, InOrderIsOperands DEF CoreInv, TileIsSummed
<1>2. QED BY <1>1, CoreInvariantHolds, PTL

\* In the core the tile is an atomic memory too: what the DMA presents to it
\* are well-formed commands.
THEOREM CoreIsAtomic == ASSUME CoreAssumption PROVE CoreSpec => ImplementsMemory
<1>1. CoreInit => TileInit
  BY DEF CoreInit
<1>2. CoreInv /\ [CoreNext]_vars => [TileNext]_tileVars
  BY CoreStepsBoth DEF CoreInv
<1>3. CoreSpec => TileSpec
  BY <1>1, <1>2, CoreInvariantHolds, PTL DEF CoreSpec, TileSpec
<1>4. QED BY <1>3, TileIsAtomic DEF CoreAssumption

\* And the core keeps what the DMA promises: responses fit, no word is lost.
THEOREM CoreFeeds == ASSUME CoreAssumption PROVE CoreSpec => []WordsAreSafe
<1>1. CoreInv => WordsAreSafe
  BY DEF CoreInv, IInv, WordsAreSafe
<1>2. QED BY <1>1, CoreInvariantHolds, PTL
=============================================================================
