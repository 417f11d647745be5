CONSTANTS
  Led = {0, 4, 5, 6}  Fiber = {0, 4, 5}  RxClears = {4, 5}  TxClears = {5}
  Interfaces = {0, 1}  Sgmii = {1}
SPECIFICATION Spec
INVARIANT QuietIsSteady
PROPERTIES FirstTurns InStep
