SPECIFICATION Spec
CONSTANTS
    acc = acc
    again = again
    offline = offline
    game = game
    None = None
    Accounts <- AccountsMC
    Offline = {offline}
    Profile <- ProfileMC
    InternalId <- InternalIdMC
    Loaded <- LoadedMC
    Launches = {game}
    MaxRequests = 0
PROPERTY NoRefreshInUse
