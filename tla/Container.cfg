SPECIFICATION FairSpec
CONSTANTS
    MaxCalls = 4
    PortNumbers <- MCPorts
    ImageRefs <- MCImageRefs
INVARIANTS TypeOK NoOrphan OkMeansRemoved PortFreed PortsExact ImageIsTheAskedOne
PROPERTIES EventuallyRemoved ContractSpec
