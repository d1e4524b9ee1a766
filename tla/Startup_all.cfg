CONSTANTS
  auth = auth
  inventory = inventory
  Service <- MCService
  Tabled <- MCTabled
  Remote <- MCRemote
  Attempts = 5
SPECIFICATION FairSpec
INVARIANT TypeOK ServesPrepared
PROPERTY NearerWithDatabase EventuallyServes
