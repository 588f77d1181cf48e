CONSTANTS
  Tunnels = {t}
  Admins = {x, y}
  Flaky = {y}
  StaleAfter = 2
  MaxLate = 1
  Unseen = Unseen
  MaxUpdates = 2
SPECIFICATION Spec
INVARIANTS TypeOK ShownIsTrue UpdatesHandledOnce
PROPERTIES OncePerTransition AlertsConverge
