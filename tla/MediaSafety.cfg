SPECIFICATION Spec
CONSTANTS
  Users = {alice}
  User = alice
  Files = {f1, f2, f3}
  NoFile = NoFile
  Uploader <- MCUploader
  Requests = {q1, q2}
  MaxPending = 1
SYMMETRY MCSymmetry
INVARIANTS
  BlobsKept
  ConsumedOnce
  NoOrphanBlobs
  PendingNearLimit
