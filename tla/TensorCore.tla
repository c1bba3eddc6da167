------------------------------ MODULE TensorCore ------------------------------
(***************************************************************************)
(* The A1 tensor core (rtl/a1/a1_tensor_core.sv): the tile DMA feeds the   *)
(* tensor tile, whose command port it shares with the host.  One clock     *)
(* edge is an edge of both.                                                *)
(***************************************************************************)
EXTENDS TileDma, MmaTile

CONSTANT HostCommands    \* what the host may present

VARIABLE
  expected    \* history: what the descriptor's accumulator held when the
              \* descriptor started, or nothing if the host wrote it since

MmaCommand(d, words) == [op |-> "MMA", idx |-> d.acc, data |-> words]
DmaCommands ==
  UNION {{MmaCommand(d, Operands(d, s)) : s \in 0..(d.steps - 1)} : d \in Descriptors}

\* The commands of the host and of the DMA are commands of the tile.
CoreAssumption ==
  /\ CommandsAssumption
  /\ NoCommand \notin Commands
  /\ HostCommands \cup DmaCommands \subseteq Commands

vars == <<dmaVars, tileVars, expected>>

CoreInit ==
  /\ Init /\ TileInit
  /\ expected = <<>>

\* The DMA wins the command port whenever it presents an MMA.
UseDma == MmaValid

\* Mistake: the host wins, and the DMA takes the tile's ready for its own.
PresentedHostFirst(cmd) == IF UseDma /\ cmd = NoCommand THEN MmaCommand(desc, ready) ELSE cmd

Presented(cmd) == IF UseDma THEN MmaCommand(desc, ready) ELSE cmd
TileReady(cmd, rspReady) == Takes(Presented(cmd), rspReady)
HostWrites(cmd, rspReady) ==
  ~UseDma /\ TileReady(cmd, rspReady) /\ cmd.op # "READ" /\ cmd.idx = desc.acc

CoreEdge(d, memReady, rspFire, cmd, rspReady) ==
  /\ Edge(d, memReady, rspFire, UseDma /\ TileReady(cmd, rspReady))
  /\ TileEdge(Presented(cmd), rspReady)
  /\ expected' = IF Starts(d) THEN <<Contents[d.acc]'>>
                 ELSE IF HostWrites(cmd, rspReady) THEN <<>>
                 ELSE expected

\* A valid or ready that meets no ready or valid is taken to be low.
CoreNext ==
  \E d \in Descriptors \cup {NoDesc}, memReady, rspFire, rspReady \in BOOLEAN,
     cmd \in HostCommands \cup {NoCommand} :
    /\ d # NoDesc => ~active
    /\ memReady => ReqValid
    /\ rspReady => rsp # <<>>
    /\ CoreEdge(d, memReady, rspFire, cmd, rspReady)

CoreSpec == CoreInit /\ [][CoreNext]_vars

-----------------------------------------------------------------------------
(* Properties *)

\* A host that waits for done before reading an accumulator sees every MMA of
\* that descriptor: its steps' operands, from memory, in order, once each.
DoneMeansSummed ==
  LET sum[k \in 0..desc.steps] ==
        IF k = 0 THEN expected[1] ELSE Mac(sum[k - 1], Operands(desc, k - 1))
  IN  done /\ expected # <<>> => Contents[desc.acc] = sum[desc.steps]

\* The core sums what the descriptor describes: the DMA presents every step's
\* operands in order (TileDma), and a host that waits for done reads the sum.
TileIsSummed == OperandsInOrder /\ DoneMeansSummed
=============================================================================
