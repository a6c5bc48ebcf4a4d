CONSTANTS
  Peers = {1, 2, 3}
  Roles = {0, 1}
  Slots = 2
  Addrs = {"a"}
SPECIFICATION FairSpec
INVARIANTS NoPeerTwice
PROPERTIES TornOnlyNewest PeerIsReported AddressIsShown
