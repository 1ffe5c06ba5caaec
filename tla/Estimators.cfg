CONSTANTS
    Undecodable = undecodable
    AwsRegions <- MCAwsRegions
    ShortName <- MCShortName
    LocationName <- MCLocationName
    VNETZone <- MCVNETZone
    Worlds <- MCWorlds
SPECIFICATION Spec
INVARIANTS
    ComponentsAreDistinct
    GroupsScale
    SizesAreCovered
