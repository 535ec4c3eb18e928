SPECIFICATION DownloadsSpec
CONSTANTS
    Callers = {c1, c2}
    Ids = {i1, i2, i3}
    Targets = {t1}
    NoId = NoId
    Leftover = Leftover
    NoRequest = NoRequest
    Tags = {b1, b2}
    Builds = {cpu, vulkan}
    NoInstall = NoInstall
    Default = Default
    Custom = Custom
    NoConfig = NoConfig
INVARIANTS OneWriter WholeFiles NoLitter RecordedOnDisk ConfiguredOnDisk OnlyRetained
PROPERTIES OutcomeIsFinal CancelFrees
