CONSTANTS
    Versions = {"0.0.3.1", "0.0.4.1"}
    Hosts <- MCHosts
    Argvs <- MCArgvs
    Released <- MCReleased
    Layouts <- MCLayouts
    Trees <- MCTrees
    MaxCalls = 3
    MaxMishaps = 2
    Nothing = Nothing
SPECIFICATION PackageSpec
INVARIANTS InstalledIsUsable UndisturbedInstalls VersionTellsTree
