SPECIFICATION FsSpec
CONSTANTS
  f = f
  Placeholder = placeholder
  Files = {f}
  Rows <- MCRows
  OneChar = {2, 5}
  LocaleRank = 3
  BuildLimit = 16
  Installs <- MCInstalls
  tact = tact
  o1 = o1
  o2 = o2
  Openers = {o1, o2}
  Clients <- MCClients
  Products = {"wow", "era"}
  Builds = {1, 2, 3}
  NoBuild = 0
  Ids = {1, 2, 3}
  Tact = {tact}
  Held <- MCHeld
  MaxOpens = 3
  Settings <- MCSettings
  Listfiles <- MCListfiles
INVARIANTS NoHandleLeaks ServesStrongest WalksAgree GatewayOpensItsClient
PROPERTY ExpandsInClientOrder
CHECK_DEADLOCK FALSE
