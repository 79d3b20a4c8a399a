SPECIFICATION FairSpec
CONSTANTS
  Services = {"api", "update", "search"}
  Requests = {r1}
INVARIANTS
  TypeOK
  SchemaSound
PROPERTIES
  Graceful
  StartsUp
  Recovers
  RequestsEnd
