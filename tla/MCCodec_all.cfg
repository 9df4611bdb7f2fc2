SPECIFICATION Spec
CONSTANT Kinds = {"ServerPing", "ClientProtocol", "ClientInfo", "ClientPosition", "Kick", "Login", "SpawnPoint", "Position", "KeepAlive", "SharedKey", "AuthData"}
CONSTANT Values <- MCValues
CONSTANT BufferSize = 48
CONSTANT Buffers <- MCBuffers
CONSTANT Starts = {1, 13, 22, 28, 37, 44, 48}
CHECK_DEADLOCK FALSE
INVARIANTS TypeOK ReadBack EndNoticed SettingsAllOrNone PlaceIsSent
