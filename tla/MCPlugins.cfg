SPECIFICATION PluginsSpec
CONSTANTS
    None = None
    RawPaths <- MCRawPaths
    SafeNames = {"a", "b", "m"}
    ManifestName = "m"
    ReceiptName = "receipt"
    Sizes = {1, 2, 3}
    MaxArchiveEntries = 3
    MaxComponents = 3
    MaxFile = 2
    MaxTotal = 4
    MaxManifest = 1
    MaxStream = 6
    MaxExtracted = 5
    MaxTreeEntries = 6
    MaxTreeDepth = 3
    MaxTreeBytes = 5
    MaxReceipt = 1
INVARIANTS
    NothingIsLost
    SnapshotAccepts
    EntriesAreWhole
    AcceptedIsAsMade
PROPERTY ExposureIsAuthorized
