SPECIFICATION ExporterSpec
CONSTANTS
  Callers = {"main", "scraper"}
  Free = Free
  MaxCalls = 3
  Readers = {http, otlp}
  HTTP = http
  Calls = 2
  DialTimeout = 1
  CallTimeout = 2
INVARIANTS
  ExporterTypeOK
  CallbacksReadOpenSources
  ClosedForGood
  PipelinesKeepTheirTime
PROPERTIES
  Exits
