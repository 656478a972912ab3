\* Two client slots, as many frames; a header of one byte; lengths none, good
\* and too long.
SPECIFICATION Spec
CONSTANTS
  f1 = f1 f2 = f2 p1 = p1 p2 = p2
  NoFrm = NoFrm SvcFd = SvcFd NoFd = NoFd
  cln_cnt = 2
  Frames <- MCFrames2
  Peers <- MCPeers
  pkt2_hdr_len = 1
  frm_req_sz = 1
  Backlog = 1
  PktLens <- MCLens
  MaxPkts = 2
  NetBuf = 2
  Faults = {}
SYMMETRY Sym2
INVARIANTS TypeOK FramesConserved FrameOwnedOnce NeverOutOfFrames
PROPERTY Implements
