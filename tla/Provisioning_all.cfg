SPECIFICATION FairSpec
CONSTANTS
  Start = {s1, s2, s3}
  Unit = {"JdiBridge", "BridgeConn"}
  Shared = {"framing"}
  Version = {1, 2}
  Mixes = {{"java"}, {"python"}, {"node", "browser"}}
  Nobody = Nobody
  MaxFaults = 1
INVARIANTS TypeOK ToolsRunAlone
PROPERTIES FilesAsEmbedded OutputsWork StartsSettle
