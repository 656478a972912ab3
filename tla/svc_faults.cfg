\* One client slot, as built; select() and accept() may fail at any time; a
\* header and a payload of two bytes are cut; lengths good and too long.
SPECIFICATION Spec
CONSTANTS
  f1 = f1 f2 = f2 p1 = p1 p2 = p2
  NoFrm = NoFrm SvcFd = SvcFd NoFd = NoFd
  cln_cnt = 1
  Frames <- MCFrames2
  Peers <- MCPeers
  pkt2_hdr_len = 2
  frm_req_sz = 2
  Backlog = 1
  PktLens <- MCLongLens
  MaxPkts = 2
  NetBuf = 3
  Faults = {"select", "accept"}
SYMMETRY Sym2
INVARIANTS Rearmed Framing DescriptorsOwned
PROPERTY Implements
