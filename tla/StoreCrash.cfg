\* Two hosts on one scope: crashes, I/O errors, files copied aside and put back.
SPECIFICATION Spec
CONSTANTS
  Hosts = {h1, h2}
  Records = {r1, r2}
  NoRecord = NoRecord
  MaxGeneration = 3
  MaxFaults = 3
  MaxRestores = 1
SYMMETRY Symmetry
INVARIANTS ObservedNeverForks AnchorCoversObserved SettledUnlessDisplaced AnswersAreAnchored ReportedErasureIsReal
PROPERTIES ImplementsRegister
