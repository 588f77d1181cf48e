SPECIFICATION FairSpec
CONSTANTS
    Server = Server
    Client = Client
    Neighbour = Neighbour
    None = None
    Junk = Junk
    Carriers = {"udp", "icmp"}
    LinkTimeout = 1
INVARIANTS TypeOK LinkedIsHonest EchoSetting
PROPERTIES LinkFollowsPeer
