SPECIFICATION Spec
CONSTANTS
  Router = {r1, r2}
  DefrtNb = 2
  Interval = 4
  MaxInterval = 24
  MaxSolicitations = 3
  MaxCount = 10
  Threshold = 24
  Lifetimes = {48}
  FinitePrefix = FALSE
  NoRouter = NoRouter
INVARIANTS
  NeverSilent
  NeverUnasked
  NeverInsists
