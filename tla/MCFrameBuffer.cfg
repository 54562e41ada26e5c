CONSTANTS
  PageSize = 4
  PagesPerRegion = 2
  NumRegions = 4
  FB_INFOS_COUNT = 3
  Buffers <- MCOneBuffer
SPECIFICATION FbSpec
INVARIANTS
  DrawnReadNotifies
