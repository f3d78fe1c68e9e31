SPECIFICATION FairSpec
CONSTANTS
    MaxStarts = 2
    MaxRestarts = 1
    SyncChannel = {"linkedin"}
    WhatsApp = "whatsapp"
    StartsElsewhere = TRUE
INVARIANTS TypeOK OneDashboardConnector
PROPERTIES AlertsAreSpaced DeadConnectorIsNoticed HungConnectorIsKilled
CHECK_DEADLOCK FALSE
