\* One client slot, two peers, no failing call: what must happen does.
SPECIFICATION FairSpec
CONSTANTS
  f1 = f1 f2 = f2 p1 = p1 p2 = p2
  NoFrm = NoFrm SvcFd = SvcFd NoFd = NoFd
  cln_cnt = 1
  Frames <- MCFrames1
  Peers <- MCPeers
  pkt2_hdr_len = 1
  frm_req_sz = 2
  Backlog = 1
  PktLens <- MCGoodLens
  MaxPkts = 2
  NetBuf = 2
  Faults = {}
PROPERTIES PacketDelivered PeerAnswered
