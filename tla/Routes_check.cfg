\* The router catches up with config.json and the operator hears of lists that have moved on,
\* one command or refresh on demand and one fault at a time.
CONSTANTS
    yt = yt
    ytip = ytip
    a = a
    b = b
    bad = bad
    proxy = proxy
    wg = wg
    None = None
    Preset <- MCPreset
    Entry <- MCEntry
    Malformed <- MCMalformed
    Companion <- MCCompanion
    Embed <- MCEmbed
    Repo <- MCRepo
    Iface <- MCIface
    DefaultIface = proxy
    Typed <- MCTyped
    Sites <- MCSites
    Long = 2
    MaxEvents = 1
    MaxFaults = 1
\* Without lists and without the daily loop nothing is left to do once the bounds are used up.
CHECK_DEADLOCK FALSE
SPECIFICATION FairSpec
PROPERTIES
    ConnectionsMove
    HonestAfterRefresh
    RouterCatchesUp
    EveryDriftIsTold
