CONSTANTS
  Tuners <- OneTuner
  TunerTypes <- OneTunerTypes
  DedicatedFor <- OneDedicatedFor
  ChannelTypes <- MCChannelTypes
  Channels <- MCChannels
  ChannelType <- MCChannelType
  Clients = {w1, w2}
  TrackerClients = {}
  Priorities = {0, 1}
  Grab = 2
  NoOne = NoOne
  NoSession = NoSession
  NoSub = NoSub
  onair = onair

SPECIFICATION Spec
CONSTRAINT WithinBounds

INVARIANT TypeOK
INVARIANT SubscriptionsTracked
INVARIANT NoOrphanSubscriber
INVARIANT NoLeakedSession
INVARIANT NoIdleTunerInUse
INVARIANT NoActivityPanic
PROPERTY PreemptionRespectsPriority
PROPERTY ImplementsTunerPool
