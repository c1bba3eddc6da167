----------------------------- MODULE MCTensorCore -----------------------------
(***************************************************************************)
(* The tensor core, which feeds the tensor tile from its DMA, with one     *)
(* word per operand, so that the pipeline is what varies (part "core");    *)
(* and a tile DMA alone, with full-size operands, two strides that wrap    *)
(* the address range and a descriptor without steps (part "dma").  A       *)
(* behaviour is of one of them; the other stays as it began.               *)
(***************************************************************************)
EXTENDS TensorCore

TwoSteps ==
  [steps |-> 2, acc |-> 0, aBase |-> 1, aRow |-> 0, aStep |-> 1, bBase |-> 4, bCol |-> 0, bStep |-> 1]
OneDescriptor == {TwoSteps}

TwoAccumulators == {0, 1}
ThreeValues == 0 .. 2
Mod3(c, x) == (2 * c + x[1]) % 3

\* What the host presents, and with it what the DMA does.
SomeCommands ==
  {[op |-> "MMA", idx |-> 0, data |-> <<3, 3>>], [op |-> "READ", idx |-> 0, data |-> 0],
   [op |-> "LOAD", idx |-> 1, data |-> 1], [op |-> "ZERO", idx |-> 0, data |-> 0]}
AllCommands ==
  SomeCommands \cup {[op |-> "MMA", idx |-> 0, data |-> words] : words \in {<<1, 4>>, <<2, 5>>}}

ASSUME CoreAssumption

Descriptor1 ==
  [steps |-> 3, acc |-> 0, aBase |-> 5, aRow |-> 7, aStep |-> 40, bBase |-> 90, bCol |-> 3, bStep |-> 20]
Descriptor2 == [Descriptor1 EXCEPT !.steps = 1, !.aBase = 100, !.bCol = 64]
Descriptor3 == [Descriptor1 EXCEPT !.steps = 0]

VARIABLES
  part,
  fullActive, fullDone, fullDesc, fullReqStep, fullReqWord, fullABase, fullBBase, fullOffset,
  fullIssued, fullFill, fullWrBuf, fullRdBuf, fullInflight, fullReady, fullMemory

fullVars ==
  <<fullActive, fullDone, fullDesc, fullReqStep, fullReqWord, fullABase, fullBBase, fullOffset,
    fullIssued, fullFill, fullWrBuf, fullRdBuf, fullInflight, fullReady, fullMemory>>

Full == INSTANCE TileDma WITH
  Rows <- 4, AddrRange <- 128, Descriptors <- {Descriptor1, Descriptor2, Descriptor3},
  active <- fullActive, done <- fullDone, desc <- fullDesc, reqStep <- fullReqStep, reqWord <- fullReqWord,
  aBase <- fullABase, bBase <- fullBBase, offset <- fullOffset, issued <- fullIssued, fill <- fullFill,
  wrBuf <- fullWrBuf, rdBuf <- fullRdBuf, inflight <- fullInflight, ready <- fullReady, memory <- fullMemory

ASSUME Full!Words = 8 /\ Words = 2

PartsInit == /\ part \in {"dma", "core"} /\ CoreInit /\ Full!Init
             /\ part = "core" => fullDesc = Descriptor1

PartsNext == \/ part = "dma" /\ Full!Next /\ UNCHANGED <<part, vars>>
             \/ part = "core" /\ CoreNext /\ UNCHANGED <<part, fullVars>>

\* The fairness of TileDma's LiveSpec.
PartsFairness ==
  /\ WF_fullVars(part = "dma" /\ Full!Next)
  /\ WF_fullVars(part = "dma" /\ Full!MemoryAccepts)
  /\ WF_fullVars(part = "dma" /\ Full!MemoryAnswers)
  /\ WF_fullVars(part = "dma" /\ Full!TileAccepts)

PartsSpec == PartsInit /\ [][PartsNext]_<<part, fullVars, vars>> /\ PartsFairness

\* With operands of the real size, too, responses fit and no word is lost, and
\* the DMA presents every step's operands in order, addresses wrapping.
FullSizeIsFed == Full!WordsAreSafe /\ Full!OperandsInOrder

\* Every descriptor of the full-size DMA is completed.
DescriptorsFinish == Full!DescriptorFinishes
=============================================================================
