\* One executor on a database, no API client.
CONSTANTS
  w1 = w1
  api = api
  Workers = {w1}
  Clients = {}
  Database = TRUE
  MaxAttempts = 2
  MaxGrants = 3
  MaxFaults = 1
SPECIFICATION FairSpec
PROPERTY ExpiredLeaseRecovered
CHECK_DEADLOCK FALSE
