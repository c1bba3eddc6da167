------------------------------- MODULE TileDma --------------------------------
(***************************************************************************)
(* The A1 tile DMA (rtl/a1/a1_tile_dma.sv): a descriptor runs a K-loop.    *)
(* For each step it requests the words of A's rows and of B's columns,     *)
(* collects them in two ping-pong fill buffers, and presents one MMA.      *)
(*                                                                         *)
(* Every step of the specification is one clock edge: the inputs of the    *)
(* cycle are the parameters of Edge, wires are state functions, and each   *)
(* register gets its next value.  Memory is external; the word stored at   *)
(* an address is the address itself, so operands show where they come from.*)
(* Counters need no width: steps fit 16 bits and CreditSuffices bounds the *)
(* others below theirs.                                                    *)
(***************************************************************************)
EXTENDS Integers, Sequences, Functions

CONSTANTS
  Rows,          \* words per operand: 4
  AddrRange,     \* addresses are taken modulo this: 2^32
  Descriptors,   \* the descriptors a host may present
  NoDesc         \* desc_valid is low

Words == 2 * Rows        \* words of a step, and of a fill buffer
Credit == 2 * Words
Address == 0..(AddrRange - 1)

ASSUME SizeAssumption == Rows \in Nat \ {0} /\ AddrRange \in Nat \ {0}
ASSUME DescriptorAssumption ==
  /\ \A d \in Descriptors :
       /\ d.steps \in Nat
       /\ d.aBase \in Address /\ d.aRow \in Address /\ d.aStep \in Address
       /\ d.bBase \in Address /\ d.bCol \in Address /\ d.bStep \in Address
  /\ NoDesc \notin Descriptors

VARIABLES
  active, done,
  desc,          \* the registered descriptor (its bases serve only the properties)
  reqStep, reqWord,        \* the next request: its step, and its word in the step
  aBase, bBase, offset,    \* a_step_base, b_step_base, word_offset
  issued,        \* MMAs taken
  fill,          \* words received into each fill buffer
  wrBuf, rdBuf,  \* buffer receiving responses, next buffer to issue
  inflight,      \* requested, not yet received
  ready,         \* the issue buffer; empty when no MMA is presented
  memory         \* external: addresses to be answered, in request order

requestVars == <<reqStep, reqWord, aBase, bBase, offset>>
fillVars == <<fill, wrBuf, rdBuf, inflight, ready>>
dmaVars == <<active, done, desc, requestVars, issued, fillVars, memory>>

Plus(a, b) == (a + b) % AddrRange

-----------------------------------------------------------------------------
(* Wires *)

Buffers == {0, 1}
Other(b) == 1 - b
Count(b) == Len(fill[b])
Held == Count(0) + Count(1) + inflight

MmaValid == ready # <<>>

\* Mistake: the words in flight are not held against the credit.
ReqValidBuffered == active /\ reqStep # desc.steps /\ Count(0) + Count(1) < Credit

ReqValid == active /\ reqStep # desc.steps /\ Held < Credit

RdFull == Count(rdBuf) = Words

\* Mistake: a full buffer moves on whether or not its MMA was taken.
FillCompleteEager(mmaReady) == RdFull

FillComplete(mmaReady) == RdFull /\ (~MmaValid \/ mmaReady)
Mma(mmaReady) == MmaValid /\ mmaReady

LastIssue(mmaReady) == Mma(mmaReady) /\ issued + 1 = desc.steps

ReqAddr == Plus(IF reqWord < Rows THEN aBase ELSE bBase, offset)

-----------------------------------------------------------------------------
(* One clock edge *)

Init ==
  /\ active = FALSE /\ done = FALSE
  /\ desc \in Descriptors
  /\ reqStep = 0 /\ reqWord = 0 /\ issued = 0
  /\ aBase = 0 /\ bBase = 0 /\ offset = 0
  /\ fill = [b \in Buffers |-> <<>>]
  /\ wrBuf = 0 /\ rdBuf = 0
  /\ inflight = 0
  /\ ready = <<>>
  /\ memory = <<>>

Accepts(d) == d # NoDesc /\ ~active

\* A descriptor without steps is done at once.
Starts(d) == Accepts(d) /\ d.steps # 0

Descriptor(d, mmaReady) ==
  /\ done' = (LastIssue(mmaReady) \/ (Accepts(d) /\ d.steps = 0))
  /\ active' = (Starts(d) \/ (active /\ ~LastIssue(mmaReady)))
  /\ desc' = IF Starts(d) THEN d ELSE desc
  /\ issued' = IF Starts(d) THEN 0 ELSE IF Mma(mmaReady) THEN issued + 1 ELSE issued

\* Mistake: the column offset goes on from the row offset.
WalkOffsetKept ==
  /\ reqWord' = IF reqWord = Words - 1 THEN 0 ELSE reqWord + 1
  /\ offset' = IF reqWord = Words - 1 THEN 0
               ELSE Plus(offset, IF reqWord < Rows THEN desc.aRow ELSE desc.bCol)
  /\ IF reqWord = Words - 1
     THEN /\ reqStep' = reqStep + 1
          /\ aBase' = Plus(aBase, desc.aStep)
          /\ bBase' = Plus(bBase, desc.bStep)
     ELSE UNCHANGED <<reqStep, aBase, bBase>>

\* Walk the rows of A, then the columns of B, then the next step.
Walk ==
  /\ reqWord' = IF reqWord = Words - 1 THEN 0 ELSE reqWord + 1
  /\ offset' = IF reqWord \in {Rows - 1, Words - 1} THEN 0
               ELSE Plus(offset, IF reqWord < Rows THEN desc.aRow ELSE desc.bCol)
  /\ IF reqWord = Words - 1
     THEN /\ reqStep' = reqStep + 1
          /\ aBase' = Plus(aBase, desc.aStep)
          /\ bBase' = Plus(bBase, desc.bStep)
     ELSE UNCHANGED <<reqStep, aBase, bBase>>

Request(d, reqFire) ==
  \/ /\ Starts(d)
     /\ reqStep' = 0 /\ reqWord' = 0 /\ offset' = 0
     /\ aBase' = d.aBase /\ bBase' = d.bBase
  \/ /\ ~Starts(d)
     /\ IF reqFire THEN Walk ELSE UNCHANGED requestVars

\* Responses go to wrBuf, which hands over when it reaches Words.
Response(rspFire, taken) ==
  /\ fill' = [b \in Buffers |->
       IF taken /\ b = rdBuf THEN <<>>
       ELSE IF rspFire /\ b = wrBuf THEN Append(fill[b], Head(memory))
       ELSE fill[b]]
  /\ wrBuf' = IF rspFire /\ Count(wrBuf) = Words - 1 THEN Other(wrBuf) ELSE wrBuf

\* Mistake: the read pointer stays.
IssueOneBuffer(taken, mmaReady) ==
  \/ taken /\ ready' = fill[rdBuf] /\ UNCHANGED rdBuf
  \/ ~taken /\ ready' = (IF Mma(mmaReady) THEN <<>> ELSE ready) /\ UNCHANGED rdBuf

\* A full buffer moves to the issue buffer when that is empty or being taken.
Issue(taken, mmaReady) ==
  \/ taken /\ ready' = fill[rdBuf] /\ rdBuf' = Other(rdBuf)
  \/ ~taken /\ ready' = (IF Mma(mmaReady) THEN <<>> ELSE ready) /\ UNCHANGED rdBuf

Edge(d, memReady, rspFire, mmaReady) ==
  LET reqFire == ReqValid /\ memReady
      taken == FillComplete(mmaReady)
  IN  /\ rspFire => memory # <<>>
      /\ Descriptor(d, mmaReady)
      /\ Request(d, reqFire)
      /\ inflight' = inflight + (IF reqFire THEN 1 ELSE 0) - (IF rspFire THEN 1 ELSE 0)
      /\ Response(rspFire, taken)
      /\ Issue(taken, mmaReady)
      /\ memory' = (IF rspFire THEN Tail(memory) ELSE memory)
                     \o (IF reqFire THEN <<ReqAddr>> ELSE <<>>)

Inputs == Descriptors \cup {NoDesc}

Next ==
  \E d \in Inputs, memReady, rspFire, mmaReady \in BOOLEAN : Edge(d, memReady, rspFire, mmaReady)

Spec == Init /\ [][Next]_dmaVars

MemoryAccepts ==
  ReqValid /\ \E d \in Inputs, rspFire, mmaReady \in BOOLEAN : Edge(d, TRUE, rspFire, mmaReady)
MemoryAnswers ==
  \E d \in Inputs, memReady, mmaReady \in BOOLEAN : Edge(d, memReady, TRUE, mmaReady)
TileAccepts ==
  MmaValid /\ \E d \in Inputs, memReady, rspFire \in BOOLEAN : Edge(d, memReady, rspFire, TRUE)

\* The clock runs, memory takes and answers requests, and the tile takes MMAs.
Fairness ==
  /\ WF_dmaVars(Next)
  /\ WF_dmaVars(MemoryAccepts) /\ WF_dmaVars(MemoryAnswers) /\ WF_dmaVars(TileAccepts)

LiveSpec == Spec /\ Fairness

-----------------------------------------------------------------------------
(* Properties *)

TypeOK ==
  /\ active \in BOOLEAN /\ done \in BOOLEAN
  /\ desc \in Descriptors
  /\ reqStep \in Nat /\ reqWord \in 0..(Words - 1) /\ issued \in Nat
  /\ aBase \in Address /\ bBase \in Address /\ offset \in Address
  /\ fill \in [Buffers -> Seq(Address)]
  /\ wrBuf \in Buffers /\ rdBuf \in Buffers
  /\ inflight \in Nat
  /\ ready \in Seq(Address)
  /\ memory \in Seq(Address)

\* Responses never stall and never land in a full buffer: what is in flight
\* fits behind what the write buffer and the one after it hold.
CreditSuffices ==
  /\ Held <= Credit
  /\ \A b \in Buffers : Count(b) <= Words
  /\ inflight > 0 => Count(wrBuf) < Words

\* Every word fetched for a step not yet issued is in flight, in a fill buffer
\* or in the issue buffer, and an idle engine holds nothing.
NoWordLost ==
  /\ inflight = Len(memory)
  /\ ~active => ~MmaValid /\ Held = 0
  /\ active => (reqStep - issued) * Words + reqWord = Held + Len(ready)

\* Responses always fit, and every word requested is accounted for.
WordsAreSafe == CreditSuffices /\ NoWordLost

\* Pointers, buffers and counters fit together.  Read and write pointer differ:
\* one buffer is full and the other fills.  They agree: the other buffer is
\* empty, or both are full.
BuffersFit ==
  /\ ready = <<>> \/ Len(ready) = Words
  /\ rdBuf # wrBuf => Count(rdBuf) = Words /\ Count(wrBuf) < Words
  /\ rdBuf = wrBuf =>
       \/ Count(rdBuf) < Words /\ Count(Other(rdBuf)) = 0
       \/ Count(rdBuf) = Words /\ Count(Other(rdBuf)) = Words
  /\ ~active => rdBuf = wrBuf
  /\ active => /\ issued < desc.steps /\ reqStep <= desc.steps
               /\ reqStep = desc.steps => reqWord = 0

IInv == TypeOK /\ BuffersFit /\ CreditSuffices /\ NoWordLost

\* The words of step s, from the descriptor's addresses.
Operands(d, s) ==
  [k \in 1..Words |->
     IF k <= Rows THEN (d.aBase + s * d.aStep + (k - 1) * d.aRow) % AddrRange
     ELSE (d.bBase + s * d.bStep + (k - 1 - Rows) * d.bCol) % AddrRange]

\* The MMA presented is the next step's, with that step's rows and columns in
\* order, however requests, answers and backpressure interleave.
OperandsInOrder == MmaValid => ready = Operands(desc, issued)

\* Every descriptor is completed.
DescriptorFinishes == active ~> done
=============================================================================
