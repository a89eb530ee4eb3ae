SPECIFICATION GateSpec
CONSTANTS
  a = a
  b = b
  c = c
  x = x
  Package = {a, b, c}
  Unknown = {x}
  Sorted <- AllSorted
  Graph <- AllGraphs
  pyproject = pyproject
  python_version = python_version
  readme = readme
  dirs = dirs
  schema = schema
  companion = companion
  verify = verify
  policies = policies
  t1 = t1
  t2 = t2
  d1 = d1
  d2 = d2
  File <- AllFiles
  Required = {pyproject, python_version, readme, dirs}
  PinFiles = {pyproject, python_version}
  Sources <- TaggedSources
  Adr = {1, 2}
  Table = {t1, t2}
  SchemaLevel = SchemaLevel
  Declaration = {d1, d2}
  Unreadable = Unreadable
  None = None
INVARIANTS
  ReportsAreCycles
  SearchDecides
  JobTypeOK
  RuntimeAllowed
  NoFalseRefusal
  TagsResolve
  EnumerationDecides
  NoFalseDrift
  
PROPERTY Terminates
\* A search and a job come to an end.
CHECK_DEADLOCK FALSE
