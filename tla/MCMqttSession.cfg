SPECIFICATION MqttSpec
CONSTANTS
    NumSockets = 2
    Ids <- MCIds
    MaxQueue = 2
    MaxFaults = 2
    PingSendFails = FALSE
INVARIANTS MqttTypeOK  RunningIsSubscribed AckedIsDelivered
PROPERTIES Recovers MessageCompletes
