CONSTANTS
    NodeId <- MCNodeId
    File <- MCFile
    Virtual = ""
    Edge <- MCEdge
    Kinds <- MCKinds
    Src <- MCSrc
    Dst <- MCDst
    Kind <- MCKind
    Method <- None
    Bridge <- None
    Serves <- None
    Absent = Absent
    NodeKind <- MCNodeKind
    FileOf <- MCFileOf
    Order <- MCOrder
    Scheduled = {}
    UnderEntry = {}
    ServiceOf <- MCServiceOf
    Declared = {"web", "orders"}
    ServiceNode <- MCServiceNode
    ServiceEdge <- MCServiceEdge
    Unassigned = "unassigned"
    DtoOf <- None
    MaxRemovals = 1
    Layers <- MCLayers
    LayerRules <- MCLayerRules
    Large = {}
    PathOf <- MCPathOf
    Features = {"routes.ts", "Ctrl.java", "Audit.java"}
SPECIFICATION Spec
CHECK_DEADLOCK FALSE
INVARIANTS TablesTied QueriesAgree ImpactComplete DecommissionSafe RulesAgree ViewsAgree
