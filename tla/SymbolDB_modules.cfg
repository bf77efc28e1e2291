SPECIFICATION Spec
CONSTANTS
  Names = {x, y}
  UsedTypes = {"real", "boolean"}
  ArraySizes = {3}
  MaxTables = 3
  MaxAddrs = 3
INVARIANTS TypeOK FramesLaidOut DataSegmentExact EntriesMatchTables
PROPERTY ImplementsScopes
SYMMETRY Interchangeable
