SPECIFICATION Spec
CONSTANTS
  Clients = {c1}
  Tasks = {t1, t2}
  Parts <- MCParts
  Hosts <- MCHosts
  Slashed <- MCSlashed
  Authority <- MCAuthority
  Ports <- MCPorts
  Inputs <- MCInputs
  Entered <- MCEntered
  Initial <- MCInitial
  Ids <- MCIds
  NoInput = NoInput
  NoRecord = NoRecord
  Faults <- MCWriteFaults
SYMMETRY Symmetry
INVARIANTS TypeOK Dialable
PROPERTIES PortsHeal RecordKept IdentityKept
