SPECIFICATION Spec
CONSTANTS
  r1 = r1
  r2 = r2
  t1 = t1
  t2 = t2
  noted = noted
  named = named
  odd = odd
  code = code
  Run = {r1, r2}
  Table = {t1, t2}
  Column = {noted, odd, named, code}
  TableOf <- TwoTables
  Commented = {noted}
  Splittable = {noted, named}
  MaxConcurrency = 2
  MaxCalls = 1
  MaxRetries = 1
INVARIANTS SourcesRanked VerdictsHold PermitsBalance CapRespected BooksMatch OnlyRivalsRewrite
PROPERTIES LogsSettle
CHECK_DEADLOCK FALSE
