SPECIFICATION Spec
CONSTANTS
  MapFiles <- MCMapFiles
  SymbolTables <- MCSymbolTables
  Addrs <- MCAddrs
  MaxUnresolved = 1
INVARIANTS TypeOK NamedInRange NamedByOwner
CHECK_DEADLOCK FALSE
