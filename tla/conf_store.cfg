\* Two clients, each of which reads, saves and starts over while number 3 is not
\* in use.  Numbers stay under ten, where files sort as their numbers do.
SPECIFICATION Spec
CONSTANTS
  Clients = {c1, c2}
  Old = old
  Before = 1
  MaxNum = 3
  MaxRows = 2
  Kinds = {"file", "yaml", "cdbi", "rdbi", "ldap", "mongodb", "rest"}
SYMMETRY Symmetry
INVARIANTS
  TypeOK
  
  FreshRead
  NoBlindSave
