SPECIFICATION PartsSpec
CONSTANTS
  t1 = t1
  t2 = t2
  t3 = t3
  v1 = v1
  v2 = v2
  s1 = s1
  s2 = s2
  s3 = s3
  c1 = c1
  c2 = c2
  Nobody = Nobody
  Txns <- ThreeTxns
  Verifiers <- TwoVerifiers
  ServerIds <- ThreeServerIds
  ClientBatches <- Batches
  BatchRows = 1
  MaxAppends = 2
  MaxAlterations = 2
SYMMETRY Symmetry
INVARIANTS
  GaplessChain
  VerdictIsRight
  BreakStays
PROPERTY ImplementsLog
CHECK_DEADLOCK FALSE
