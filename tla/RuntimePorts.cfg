SPECIFICATION FairSpec
CONSTANTS
    srv = srv
    ui = ui
    Procs = {srv, ui}
    Kind <- ServerAndUi
    Ports <- Five
    PortRange <- OneMetrics
    Preferred <- SamePort
    Wide = {}
    ForeignPorts = {1}
    Foreign = Foreign
    Nobody = Nobody
    NoPort = NoPort
INVARIANTS
    RestartIsStable
    SettledFileParses
    PortsInv
PROPERTIES
    StartEnds
