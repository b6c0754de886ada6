CONSTANTS
    Formats <- MCFormats
    Widths <- MCWidths
    Heights <- MCHeights
    ModLists <- MCModLists
    PageSize = 4096
    AllocFormats <- MCAllocFormats
    FlagSets = {}
    GrpTypes <- MCGrpTypes
    DeviceIds <- MCDeviceIds
    UseGralloc1 = FALSE

SPECIFICATION Spec

INVARIANT ModifierPreference
