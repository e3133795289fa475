CONSTANTS
  Tuners <- MixTuners
  TunerTypes <- MixTunerTypes
  DedicatedFor <- MixDedicatedFor
  ChannelTypes <- MCChannelTypes
  Channels <- MCChannels
  ChannelType <- MCChannelType
  Clients = {w1, onair, trk}
  TrackerClients = {trk}
  Priorities = {0}
  Grab = 1
  NoOne = NoOne
  NoSession = NoSession
  NoSub = NoSub
  onair = onair

SPECIFICATION Spec
CONSTRAINT WithinBounds

INVARIANT AdmissionMatchesChannel
