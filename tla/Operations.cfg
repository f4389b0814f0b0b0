CONSTANTS
  Callers = {a, b}
  Attempts = 2

SPECIFICATION Spec

INVARIANTS
  TypeOK
  RefusedMeansUntouched
  RetriesAreInvisible
  HeldSecretIsLatest
  DeployMakesLive
  OneSwapWins
