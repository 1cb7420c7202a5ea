SPECIFICATION ResSpec
CONSTANTS
    k1 = k1
    k2 = k2
    e1 = e1
    e2 = e2
    a = a
    b = b
    t1 = t1
    t2 = t2
    short = short
    l1 = l1
    l2 = l2
    NetIds = {1, 2}
    NetNames = {a, b}
    Endpoints = {e1, e2}
    NetActors = {k1, k2}
    NetMenus <- MCNetMenus
    StackNetMenus <- MCStackNetMenus
    LastSubnet = 18
    LastRandom = 100
    GivenSubnets = {}
    LastHost = 4
    Bridge = Bridge
    AliasPrefix = AliasPrefix
    NoName = NoName
    VolNames = {a, b}
    VolActors = {k1, k2}
    VolMenus <- MCVolMenus
    StackVolMenus <- MCStackVolMenus
    NoVol = NoVol
    ImgIds = {1, 2}
    LayerIds = {l1, l2}
    Manifest <- MCManifest
    Tags = {t1, t2}
    Shorts = {short}
    Full <- MCFull
    ImgActors = {k1, k2}
    ImgMenus <- MCImgMenus
    NoTag = NoTag
    StackUser = k1
    StackNets = {a}
    StackVols = {a}
    Services = {"web", "built"}
    Imageless = {"built"}
    StackCtrs = {s1, s2, s3}
    NoCtr = NoCtr
    Paths <- MCPaths
    FileData = {"v", "w"}
    MaxEntries = 4
    CfNames = {"s", "t"}
    CfItems = {"x"}
    MaxLines = 7
    Words <- MCWords
    DottedWords <- MCDotted
    MaxWords = 3
    RefTags = {"1"}
    RefDigests = {"sum"}
    Nothing = Nothing
    NoRecord = NoRecord
    Torn = Torn
SYMMETRY CtrSymmetry
CHECK_DEADLOCK FALSE
INVARIANTS ResTypeOK NamesLeadHome NetworksApart NetworksFound EndpointsSpared VolumesWhole ImagesComplete OneContainerEach StackSettled RootfsComplete ComposeRead ReferencesTold
PROPERTIES AskedIsKept OwnVolumesSpared
