------------------------------- MODULE MmaTile --------------------------------
(***************************************************************************)
(* The A1 tensor tile (rtl/a1/a1_mma_tile.sv): a three-stage pipeline over *)
(* a memory of accumulators.  An MMA reads its accumulator as it leaves    *)
(* S1 and writes it as it leaves S3; the other commands act as they leave  *)
(* S3.  A step is one clock edge.  The arithmetic is the operator Mac.     *)
(***************************************************************************)
EXTENDS Naturals, Sequences

CONSTANTS
  Accumulators, Values, Zero,
  Mac(_, _),     \* mma_d: the accumulator after one MMA
  Commands,      \* what may be presented: op, idx, data
  NoCommand,     \* cmd_valid is low
  Empty          \* a stage without a command

VARIABLES
  acc,            \* the accumulator memory
  s1, s2, s3,     \* the command in each stage
  base2, base3,   \* the accumulator an MMA in S2 or S3 was multiplied onto
  rsp             \* the response register: empty, or the answer

tileVars == <<acc, s1, s2, s3, base2, base3, rsp>>

TileInit ==
  /\ acc = [i \in Accumulators |-> Zero]
  /\ s1 = Empty /\ s2 = Empty /\ s3 = Empty
  /\ base2 = Zero /\ base3 = Zero
  /\ rsp = <<>>

Writes(s) == s # Empty /\ s.op # "READ"

\* A READ whose response slot is occupied holds the whole pipeline.
Stall(rspReady) == s3 # Empty /\ s3.op = "READ" /\ rsp # <<>> /\ ~rspReady

\* Mistake: only the stage in front is looked at.
HazardInFirst(c) == c.op = "MMA" /\ Writes(s1) /\ s1.idx = c.idx

\* An older command has yet to write the accumulator this MMA will read.
Hazard(c) == c.op = "MMA" /\ \E s \in {s1, s2} : Writes(s) /\ s.idx = c.idx

Takes(c, rspReady) == c # NoCommand /\ ~Stall(rspReady) /\ ~Hazard(c)

Commit ==
  acc' = IF ~Writes(s3) THEN acc
         ELSE [acc EXCEPT ![s3.idx] =
                 CASE s3.op = "ZERO" -> Zero
                   [] s3.op = "LOAD" -> s3.data
                   [] s3.op = "MMA" -> Mac(base3, s3.data)]

Respond(rspReady) ==
  rsp' = IF s3 # Empty /\ s3.op = "READ" /\ ~Stall(rspReady) THEN <<acc[s3.idx]>>
         ELSE IF rspReady THEN <<>> ELSE rsp

Advance(c, rspReady) ==
  /\ s3' = s2 /\ base3' = base2
  /\ s2' = s1 /\ base2' = (IF s1 # Empty /\ s1.op = "MMA" THEN acc[s1.idx] ELSE Zero)
  /\ s1' = IF Takes(c, rspReady) THEN c ELSE Empty

TileEdge(c, rspReady) ==
  /\ Respond(rspReady)
  /\ \/ Stall(rspReady) /\ UNCHANGED <<acc, s1, s2, s3, base2, base3>>
     \/ ~Stall(rspReady) /\ Commit /\ Advance(c, rspReady)

TileNext == \E c \in Commands \cup {NoCommand}, rspReady \in BOOLEAN : TileEdge(c, rspReady)

TileSpec == TileInit /\ [][TileNext]_tileVars

CommandsAssumption ==
  /\ Zero \in Values /\ Empty \notin Commands
  /\ \A c \in Commands :
       /\ c.op \in {"ZERO", "LOAD", "MMA", "READ"} /\ c.idx \in Accumulators
       /\ c.op = "LOAD" => c.data \in Values
       /\ c.op = "MMA" => \A v \in Values : Mac(v, c.data) \in Values

-----------------------------------------------------------------------------
(* What the pipeline amounts to *)

Applied(v, s) ==
  IF ~Writes(s) THEN v
  ELSE [v EXCEPT ![s.idx] = CASE s.op = "ZERO" -> Zero
                              [] s.op = "LOAD" -> s.data
                              [] s.op = "MMA" -> Mac(@, s.data)]

Answer(v, s) == IF s # Empty /\ s.op = "READ" THEN <<v[s.idx]>> ELSE <<>>

\* The accumulators once S3, S2 and S1 have committed in order.
After3 == Applied(acc, s3)
After2 == Applied(After3, s2)
Contents == Applied(After2, s1)
Answers == rsp \o Answer(acc, s3) \o Answer(After3, s2) \o Answer(After2, s1)

Memory == INSTANCE AccumulatorMemory
  WITH values <- Contents, answers <- Answers, Outstanding <- 4

\* The pipelined tile is a memory of accumulators on which commands are
\* atomic: no stale operand, no READ lost, repeated, overtaken or overtaking.
ImplementsMemory == Memory!Spec
=============================================================================
