CONSTANTS
  Signer = Signer
  Editor = Editor
  Unreadable = Unreadable
  NoAnchor = NoAnchor
  NoBundle = NoBundle
  w1 = w1
  w2 = w2
  Witnesses <- MCWitnesses
  TrustFiles <- MCTrustFiles
  NoKey = NoKey
  Never = Never
  History <- MCHistory
  Bodies <- MCBodies
  MaxNow = 1
  MaxSigned = 1
  MaxExports = 1
  MaxEdits = 2
  MaxForged = 3
SPECIFICATION Spec
INVARIANTS
  VerifiedIsExported
  WitnessedIsSigned
  ExportsVerify
  AcceptedIsNarrowing
CHECK_DEADLOCK FALSE
