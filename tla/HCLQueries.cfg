CONSTANTS
    NoIndex = NoIndex
    Null = Null
    AliasKeys = {"aws.west", "other.x"}
    Configs <- MCConfigs
SPECIFICATION Spec
INVARIANTS
    TypeOK
    InstancesMatchConfiguration
    ProvidersAreHandedDown
    ValuesAreOwn
    ReferencesAreFollowed
