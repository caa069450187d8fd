SPECIFICATION ArchiveSpec
CONSTANTS
  small = small
  large = large
  dull = dull
  note = note
  Null = Null
  Files <- MCFiles
  Plain <- MCPlain
  Deflated <- MCDeflated
  Names <- MCNames
  OldArchive <- MCOldArchive
  OldContents <- MCOldContents
  Threshold = 20
  Capacity = 18
  MaxAdds = 4
  MaxOpens = 4
INVARIANTS SavedIsWhole ListedExtracts
CHECK_DEADLOCK FALSE
