------------------------------- MODULE Secded -------------------------------
(***************************************************************************)
(* The reference SECDED code and lane repair of the T0 interface           *)
(* (lib/t0-reliability.ts): a Hamming code over positions 1 .. HammingBits *)
(* with an overall parity bit after them, and the map that steers failed   *)
(* lanes to spares.                                                        *)
(*                                                                         *)
(* A word is the set of positions whose bit is one, data the set of data   *)
(* bits that are one; an exclusive-or is then a symmetric difference.      *)
(***************************************************************************)
EXTENDS Integers, FiniteSetsExt, SequencesExt

CONSTANTS
  HammingBits,  \* the positions of the Hamming code; 71 for 64 data bits
  Patterns,     \* the data words tried: sets of data bits
  MaxFlips,     \* bits that go wrong in one word
  Lanes, Spares,
  FailureLists  \* the lists of failed lanes tried

ASSUME SecdedAssumption == HammingBits \in 3 .. 127 /\ Spares \in Nat /\ Lanes \in Nat

VARIABLES
  pattern,   \* the data that was encoded
  received,  \* the word that arrives
  flipped,   \* the bits that went wrong on the way, counted from 0
  failed     \* the lanes reported as failed
secdedVars == <<pattern, received, flipped, failed>>

CodeBits == HammingBits + 1
parityPositions == {2 ^ p : p \in 0 .. 6} \cap 1 .. HammingBits
\* The positions the data bits take, in order.
DataPositions == [i \in 1 .. HammingBits - Cardinality(parityPositions) |->
                    CHOOSE position \in (1 .. HammingBits) \ parityPositions :
                      Cardinality({q \in 1 .. position : q \notin parityPositions}) = i]
DataBits == Len(DataPositions)

Covered(parity) == {position \in 1 .. HammingBits : (position \div parity) % 2 = 1}
parityOf(word) == Cardinality(word) % 2
Xor(a, b) == (a \ b) \cup (b \ a)

encodeSecded64(data) ==
  LET bits == {DataPositions[i + 1] : i \in data}
      hamming == bits \cup {p \in parityPositions : parityOf(bits \cap Covered(p)) = 1}
  IN  hamming \cup IF parityOf(hamming) = 1 THEN {CodeBits} ELSE {}

\* Mistake: the fault is placed without asking the overall parity.
DecodeSingle(word) ==
  LET syndrome == FoldSet(+, 0, {p \in parityPositions : parityOf(word \cap Covered(p)) = 1})
      wrong == syndrome # 0
      repaired == IF wrong THEN Xor(word, {syndrome}) ELSE word
  IN  [data |-> {i \in 0 .. DataBits - 1 : DataPositions[i + 1] \in repaired},
       corrected |-> wrong, uncorrectable |-> FALSE,
       errorPosition |-> IF wrong THEN syndrome ELSE 0]

decodeSecded64(word) ==
  LET syndrome == FoldSet(+, 0, {p \in parityPositions : parityOf(word \cap Covered(p)) = 1})
      mismatch == parityOf(word \cap 1 .. CodeBits) = 1
      repaired == IF ~mismatch THEN word
                  ELSE Xor(word, {IF syndrome = 0 THEN CodeBits ELSE syndrome})
  IN  [data |-> {i \in 0 .. DataBits - 1 : DataPositions[i + 1] \in repaired},
       corrected |-> mismatch,
       uncorrectable |-> syndrome # 0 /\ ~mismatch,
       errorPosition |-> IF ~mismatch THEN 0 ELSE IF syndrome = 0 THEN CodeBits ELSE syndrome]

\* Mistake: a failed lane is steered whether or not a spare is left.
RepairAll(failedLanes) ==
  LET failures == Range(failedLanes) \cap 0 .. Lanes - 1
      place(lane) == Cardinality({f \in failures : f < lane}) % Spares
  IN  [repairable |-> TRUE,
       failures |-> failures,
       mapping |-> [lane \in 0 .. Lanes - 1 |->
                      IF lane \in failures THEN Lanes + place(lane) ELSE lane],
       utilizedSpares |-> Min({Cardinality(failures), Spares})]

\* Each failed lane goes to the spare of its place among the failures, while
\* there are spares; the rest keep their own lane.
buildLaneRepairMap(failedLanes) ==
  LET failures == Range(failedLanes) \cap 0 .. Lanes - 1
      place(lane) == Cardinality({f \in failures : f < lane})
  IN  [repairable |-> Cardinality(failures) <= Spares,
       failures |-> failures,
       mapping |-> [lane \in 0 .. Lanes - 1 |->
                      IF lane \in failures /\ place(lane) < Spares THEN Lanes + place(lane) ELSE lane],
       utilizedSpares |-> Min({Cardinality(failures), Spares})]
----------------------------------------------------------------------------
\* The fault campaign: a word and the bits that flip on the way, one at a
\* time; or, apart from the words, a list of lanes that fail.

CodeInit ==
  /\ pattern \in Patterns
  /\ received = encodeSecded64(pattern)
  /\ flipped = {}
  /\ failed = <<>>

Flip ==
  /\ failed = <<>> /\ Cardinality(flipped) < MaxFlips
  /\ \E bit \in 0 .. CodeBits - 1 :
       /\ \A other \in flipped : other < bit \* a set of bits is met once
       /\ flipped' = flipped \cup {bit}
       /\ received' = Xor(received, {bit + 1})
  /\ UNCHANGED <<pattern, failed>>

FailLanes ==
  /\ flipped = {} /\ failed = <<>> /\ failed' \in FailureLists
  /\ UNCHANGED <<pattern, received, flipped>>

CodeNext == Flip \/ FailLanes
CodeSpec == CodeInit /\ [][CodeNext]_secdedVars
----------------------------------------------------------------------------
\* Whatever bit of the word flips, data, parity or the overall parity, the
\* data is restored and the place of the fault named; whatever two bits flip,
\* the word is reported and never passed off as corrected.
SecdedHolds ==
  LET decoded == decodeSecded64(received)
  IN  /\ flipped = {} => decoded = [data |-> pattern, corrected |-> FALSE, uncorrectable |-> FALSE, errorPosition |-> 0]
      /\ Cardinality(flipped) = 1 =>
           decoded.corrected /\ ~decoded.uncorrectable /\ decoded.data = pattern
           /\ flipped = {decoded.errorPosition - 1}
      /\ Cardinality(flipped) = 2 => decoded.uncorrectable /\ ~decoded.corrected

\* A set of failures that is reported as repairable leaves no logical lane on
\* a failed wire and no wire with two lanes.
RepairIsSound ==
  LET repair == buildLaneRepairMap(failed)
  IN  repair.repairable =>
        /\ \A lane \in 0 .. Lanes - 1 : repair.mapping[lane] \notin repair.failures
        /\ \A a, b \in 0 .. Lanes - 1 : repair.mapping[a] = repair.mapping[b] => a = b
        /\ Cardinality({lane \in 0 .. Lanes - 1 : repair.mapping[lane] >= Lanes}) = repair.utilizedSpares
=============================================================================
