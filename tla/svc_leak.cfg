\* One client slot, select() may fail: the frame a client holds is lost.
SPECIFICATION Spec
CONSTANTS
  f1 = f1 f2 = f2 p1 = p1 p2 = p2
  NoFrm = NoFrm SvcFd = SvcFd NoFd = NoFd
  cln_cnt = 1
  Frames <- MCFrames2
  Peers <- MCPeers
  pkt2_hdr_len = 2
  frm_req_sz = 1
  Backlog = 1
  PktLens <- MCGoodLens
  MaxPkts = 2
  NetBuf = 3
  Faults = {"select"}
SYMMETRY Sym2
INVARIANT NeverOutOfFrames
