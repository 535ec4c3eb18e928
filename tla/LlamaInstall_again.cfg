SPECIFICATION InstallSpec
CONSTANTS
    Tags = {b1}
    Builds = {cpu, vulkan}
    NoInstall = NoInstall
    Default = Default
    Custom = Custom
    NoConfig = NoConfig
INVARIANTS PointsAtInstall
