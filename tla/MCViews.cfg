SPECIFICATION ViewsSpec
CONSTANTS
    None = None
    Undefined = Undefined
    NotFound = NotFound
    Unit = 10
    Texts <- MCTexts
    PageLengths = {0, 1, 9, 10, 11, 25, 305}
    PageSizes = {0, 1, 3, 10, 300, 400}
    Pods <- MCPods
    NodeLists <- MCNodeLists
    Ingresses <- MCIngresses
    Services <- MCServices
    Owners <- MCOwners
    UsedPods <- MCUsedPods
    UsedNodes <- MCUsedNodes
    NodeTops <- MCNodeTops
    Relatives <- MCRelatives
    Cluster <- MCCluster
    Placed <- MCPlaced
    EndPhases <- MCEndPhases
    ApiTables <- MCApiTables
    CRDs <- MCCRDs
    Absent = Absent
    AddressOf <- MCAddressOf
    SubnetOf <- MCSubnetOf
    RuleLists <- MCRuleLists
    Requests <- MCRequests
    Routings <- MCRoutings
    Frontends <- MCFrontends
CHECK_DEADLOCK FALSE
INVARIANTS
    QueriesAreConsistent
    LinksAreComplete
    NumbersAgree
    DiagnosisIsRight
