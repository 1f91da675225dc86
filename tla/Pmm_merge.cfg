SPECIFICATION PmmSpec
CONSTANTS
  Zones <- TwoZones
  Usable <- MapPages
  MaxOrder = 2
\* All pages may be held.
CHECK_DEADLOCK FALSE
PROPERTY FreedMerge
