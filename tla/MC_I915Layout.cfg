CONSTANTS
    Formats <- MCFormats
    Widths <- MCWidths
    Heights <- MCHeights
    ModLists <- MCModLists
    PageSize = 4096
    AllocFormats <- MCAllocFormats
    FlagSets <- MCFlagSets
    GrpTypes <- MCGrpTypes
    DeviceIds <- MCDeviceIds
    UseGralloc1 = FALSE

SPECIFICATION Spec

INVARIANT TypeOK
INVARIANT PlanesWithinBuffer
INVARIANT TiledPlanesPageAligned
INVARIANT SupportedImpliesAllocatable
INVARIANT LinearUsesLinear
INVARIANT ScanoutTilingSupported
INVARIANT AdlpKvmScanoutLinear
