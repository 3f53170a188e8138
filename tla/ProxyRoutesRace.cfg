INIT ProxyInit
NEXT ProxyNext
CONSTANTS
  Client = {c1, c2}
  Target = {t1}
  Replaces = TRUE
INVARIANT EveryDestinationRouted
