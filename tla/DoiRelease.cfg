SPECIFICATION Spec
CONSTANTS
  LastRelease = 3
  Prefixes <- MCPrefixes
  MaxTypos = 1
  MaxStops = 2
INVARIANTS ArchivedPdfCitesGiven CitedIsOurs ReportedAgree
