SPECIFICATION FairSpec
CONSTANTS
    Routes <- AllRoutes
    Ports <- MCPorts
    NoPort = NoPort
INVARIANTS NoConnLeak TunnelReady BudgetFits
PROPERTIES OnlyForward HandshakeEnds
CHECK_DEADLOCK FALSE
