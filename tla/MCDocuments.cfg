\* Every document of each source, up to its bound in Longest.
CONSTANTS
    t1 = t1
    t2 = t2
    o1 = o1
    o2 = o2
    Tasks = {t1, t2}
    Owners = {o1, o2}
    Keys = {k1}
    Minutes = {1}
    Ids = {1, 2}
    MaxTime = 2
    Refused = Refused
    Levels <- OneLevel
    Aspects <- AllAspects
    Slug <- SlugOf
    MaxLinkage = 1
    MaxTasks = 2
    Garbled = {"garbled"}
    Addresses = {"00401000"}
    TableCells <- Cells
    Opening <- Openings
    MaxExcerpt = 2
    Room = 4
    Files <- ThreeFiles
    Rank <- LastFirst
    MatchesPerFile = 2
    Limit = 1
    RootFiles = {"README.md"}
    RootDirs = {"src"}
    GatewayRootFiles = {"README.md"}
    GatewayRootDirs = {".github", "app"}
    Hidden = {".git", ".github", ".b"}
    Suffixed = {"README.md", "a.c", "glad.c", "a.yml"}
    Yaml = {"a.yml"}
    Excluded <- VendoredFiles
    Vendored <- VendoredDir
    MaxFiles = 2
    TreePaths <- Archive
    GatewayPaths <- GatewayArchive
    MaxLines <- Longest
SYMMETRY Symmetry
SPECIFICATION Spec
INVARIANTS
    FoldRaisesIffUnreplayable FoldReturnsActive
    QaAgrees SectionTasksAgree ClassDocAgrees
    TablesServedByBoth
    CorrectClaimServed ServedIsUncontradicted
    LatestIsQuoted SearchAnswers
    ExportKeepsAdmitted
\* The enumeration stops at the longest documents.
CHECK_DEADLOCK FALSE
