----------------------------- MODULE MCAuditLog -----------------------------
(***************************************************************************)
(* Two parts of the audit log's behaviours: in "verify", three             *)
(* transactions of one append each, two verifications, and rows altered    *)
(* around the triggers; in "append", longer transactions with browser      *)
(* batches, and no verification.  A behaviour is of one of them.           *)
(***************************************************************************)
EXTENDS AuditLog

CONSTANTS t1, t2, t3, v1, v2, s1, s2, s3, c1, c2

ThreeTxns == {t1, t2, t3}
TwoVerifiers == {v1, v2}
ThreeServerIds == {s1, s2, s3}

\* A batch, and the retry of its second event with that event repeated.
Batches == {<<c1, c2>>, <<c2, c2>>}

VARIABLE part

Verify == INSTANCE AuditLog WITH
  ServerIds <- {s1, s2}, ClientBatches <- {}, MaxAppends <- 1

Appends == INSTANCE AuditLog WITH ServerIds <- {s3}

PartsInit == part \in {"verify", "append"} /\ Init

PartsNext == /\ \/ part = "verify" /\ Verify!Next
                \/ part = "append" /\ \E t \in Txns : Appends!TxnStep(t)
             /\ UNCHANGED part

PartsSpec == PartsInit /\ [][PartsNext]_<<vars, part>>

Symmetry == Permutations(Txns) \cup Permutations(Verifiers) \cup Permutations({s1, s2})
=============================================================================
