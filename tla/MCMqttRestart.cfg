SPECIFICATION MqttSpec
CONSTANTS
    NumSockets = 2
    Ids <- MCIds
    MaxQueue = 2
    MaxFaults = 1
    PingSendFails = TRUE
PROPERTY Recovers
