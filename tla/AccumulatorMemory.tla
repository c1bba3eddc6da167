-------------------------- MODULE AccumulatorMemory --------------------------
(***************************************************************************)
(* What the A1 tensor tile promises its host: commands on a memory of      *)
(* accumulators take effect one after the other, in the order in which     *)
(* they are accepted, and every READ is answered, in that order, with what *)
(* the commands before it left in its accumulator.                         *)
(***************************************************************************)
EXTENDS Naturals, Sequences

CONSTANTS
  Accumulators, Values, Zero,
  Mac(_, _),     \* Mac(c, x): the accumulator c after the operands x
  Commands,      \* records of op, idx and data (a value to load, or operands)
  Outstanding    \* READs accepted and not yet taken by the host

VARIABLES values, answers

Applied(v, c) ==
  CASE c.op = "ZERO" -> [v EXCEPT ![c.idx] = Zero]
    [] c.op = "LOAD" -> [v EXCEPT ![c.idx] = c.data]
    [] c.op = "MMA"  -> [v EXCEPT ![c.idx] = Mac(@, c.data)]
    [] c.op = "READ" -> v

Init ==
  /\ values = [i \in Accumulators |-> Zero]
  /\ answers = <<>>

\* One clock may take an answer, accept a command, or both.
Clock(taken, accepted) ==
  /\ taken => answers # <<>>
  /\ LET rest == IF taken THEN Tail(answers) ELSE answers
     IN  \/ accepted = {} /\ UNCHANGED values /\ answers' = rest
         \/ \E c \in accepted :
              /\ values' = Applied(values, c)
              /\ answers' = IF c.op = "READ" THEN Append(rest, values[c.idx]) ELSE rest
  /\ Len(answers') <= Outstanding

Next ==
  \/ \E taken \in BOOLEAN : Clock(taken, {})
  \/ \E taken \in BOOLEAN, c \in Commands : Clock(taken, {c})

Spec == Init /\ [][Next]_<<values, answers>>
=============================================================================
