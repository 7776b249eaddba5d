SPECIFICATION Spec
CONSTANTS
  bia = bia
  own = own
  peer = peer
  all = all
  hostip = hostip
  pdpip = pdpip
  peerip = peerip
  noip = noip
  Macs <- TwoMacs
  Bia = bia
  HostIp = hostip
  NoIp = noip
  Everybody = all
  NetFrames <- SomeNet
  HostFrames <- SomeHost
  GuestFrames <- SomeGuest
  Room = 2
  MaxFrames = 4
CHECK_DEADLOCK FALSE
INVARIANTS
  FramesNoticed
PROPERTIES
  ChannelSpec
  FramesRead
