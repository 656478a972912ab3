------------------------------- MODULE SinSvc -------------------------------
(***************************************************************************)
(* The socket service of main/dw_sinsvc2.c: one task that polls a          *)
(* listening socket and cln_cnt client slots with select(), cuts each      *)
(* client's byte stream into packets and fills one frame buffer with the   *)
(* payload of each.  Frame buffers come from a pool (frm_list).            *)
(*                                                                         *)
(* One turn of the task is a poll followed by one handler per socket, the  *)
(* listener first.  A handler runs to its end before another byte can      *)
(* matter to it, so it is one step: bytes that arrive between its two      *)
(* reads have the effect of bytes that arrived before the first, which     *)
(* always takes a whole header when it is followed by a second.            *)
(*                                                                         *)
(* Time is abstract: a socket has a due time or none (tdue infinite), and  *)
(* one that has may be found overdue at any turn.  Left out: the counters  *)
(* under st, the addresses, and the answer buffer resp, which only the     *)
(* mgmt socket would fill and that socket is never polled (its select and  *)
(* its handler are compiled out), so a client never asks for sel_wr.       *)
(***************************************************************************)
EXTENDS Naturals, Sequences, FiniteSets, Functions

CONSTANTS
  cln_cnt,      (* Client slots.                                            *)
  Frames,       (* The frame buffers, frm_req_cnt of them.                  *)
  NoFrm,        (* A null frm pointer.                                      *)
  Peers,        (* The remote ends; a connection is named by its peer.      *)
  SvcFd,        (* The listening socket.                                    *)
  NoFd,         (* A closed socket, fd = -1.                                *)
  pkt2_hdr_len, (* Bytes of a packet header.                                *)
  frm_req_sz,   (* Capacity of a frame buffer.                              *)
  Backlog,      (* Connections the stack holds for the listener, listen().  *)
  PktLens,      (* Bound: the payload lengths peers announce.               *)
  MaxPkts,      (* Bound: packets a peer sends on one connection.           *)
  NetBuf,       (* Bound: bytes of a connection the stack holds.            *)
  Faults        (* The calls that may fail: "select", "accept".             *)

ASSUME SlotAssumption == cln_cnt \in Nat \ {0}
ASSUME FrameAssumption == IsFiniteSet(Frames) /\ NoFrm \notin Frames
ASSUME FdAssumption == NoFd \notin Peers /\ SvcFd \notin Peers /\ NoFd # SvcFd
ASSUME SizeAssumption ==
  /\ pkt2_hdr_len \in Nat \ {0} /\ frm_req_sz \in Nat /\ PktLens \subseteq Nat
  /\ Backlog \in Nat /\ MaxPkts \in Nat /\ NetBuf \in Nat
ASSUME FaultAssumption == Faults \subseteq {"select", "accept"}

VARIABLES
  pc,           (* "poll": before select; "svc", "cln": running handlers.   *)
  turn,         (* The client slot whose handler is next.                   *)
  launched,     (* impl.launched.                                           *)
  fds_rd,       (* The descriptors the last select() found readable.        *)
  svc,          (* The listener's sock_t.                                   *)
  sock,         (* The clients' sock_t.                                     *)
  frm,          (* The frame buffer each client fills.                      *)
  pkt_lmt,      (* Header bytes each client has read.                       *)
  frm_list,     (* The pool, a FIFO.                                        *)
  fb,           (* The contents of each frame buffer: data up to pos, lmt.  *)
  backlog,      (* Peers connected and not accepted, in order.              *)
  conn,         (* The stack's side of each peer's connection.              *)
  handed        (* History: payloads completed on each open connection.      *)

taskvars == <<pc, turn, launched, fds_rd>>
clnvars == <<sock, frm, pkt_lmt, frm_list, fb>>
netvars == <<backlog, conn>>
vars == <<taskvars, svc, clnvars, netvars, handed>>

Slots == 1..cln_cnt
Fds == Peers \cup {SvcFd}
Sock == [fd : Peers \cup {NoFd}, rd : BOOLEAN, timed : BOOLEAN, act : BOOLEAN]

\* A byte is named by its packet, its offset there and the length announced.
Byte == [pkt : Nat, off : Nat, len : Nat]
FrameBuf == [lmt : Nat, data : Seq(Byte)]
Conn == [st : {"idle", "backlog", "open"}, inbuf : Seq(Byte), ended : BOOLEAN,
         nxt : Byte]

Idle == [st |-> "idle", inbuf |-> <<>>, ended |-> FALSE,
         nxt |-> [pkt |-> 1, off |-> 0, len |-> 0]]

\* A frame just taken from the pool: position 0, limit at the capacity.
Cleared == [lmt |-> frm_req_sz, data |-> <<>>]

Least(m, n) == IF m <= n THEN m ELSE n

-----------------------------------------------------------------------------
(* The turn of the task.                                                   *)

AtCln(i) == pc = "cln" /\ turn = i

NextHandler ==
  /\ pc' = IF turn = cln_cnt THEN "poll" ELSE "cln"
  /\ turn' = IF turn = cln_cnt THEN 1 ELSE turn + 1
  /\ UNCHANGED <<launched, fds_rd>>

\* sinsvc_close_all(): every descriptor, and nothing else of a client.
CloseAll ==
  /\ sock' = [i \in Slots |-> [sock[i] EXCEPT !.fd = NoFd]]
  /\ conn' = [p \in Peers |-> Idle]
  /\ backlog' = <<>>
  /\ handed' = [p \in Peers |-> <<>>]
  /\ UNCHANGED <<pc, turn, fds_rd, frm, pkt_lmt, frm_list, fb>>

\* No address yet, or the listener cannot be opened: sleep and start over.
LaunchBlocked ==
  /\ pc = "poll" /\ ~launched
  /\ CloseAll
  /\ svc' = [svc EXCEPT !.fd = NoFd]
  /\ UNCHANGED launched

Launch ==
  /\ pc = "poll" /\ ~launched
  /\ CloseAll
  /\ svc' = [fd |-> SvcFd, rd |-> TRUE, timed |-> TRUE]
  /\ launched' = TRUE

\* What select() can report: sockets in the read set with something to read.
Readable ==
  {p \in Peers : /\ \E i \in Slots : sock[i].fd = p /\ sock[i].rd
                 /\ conn[p].inbuf # <<>> \/ conn[p].ended}
  \cup {fd \in {SvcFd} : svc.fd = SvcFd /\ svc.rd /\ backlog # <<>>}

\* Nothing readable is a timeout: the poll is never longer than 10 seconds.
\* EINTR sends the task around the loop with nothing changed.
SelectOk ==
  /\ pc = "poll" /\ launched
  /\ fds_rd' = Readable
  /\ pc' = "svc"
  /\ UNCHANGED <<turn, launched, svc, clnvars, netvars, handed>>

SelectFail ==
  /\ pc = "poll" /\ launched
  /\ "select" \in Faults
  /\ launched' = FALSE
  /\ UNCHANGED <<pc, turn, fds_rd, svc, clnvars, netvars, handed>>

-----------------------------------------------------------------------------
(* The listener's handler, svc_accept.                                     *)

\* Every path of the handler ends by asking for the listener again.
SvcDoneDeaf ==
  /\ pc = "svc"
  /\ pc' = "cln"
  /\ UNCHANGED <<turn, launched, fds_rd>>
  /\ svc' = [svc EXCEPT !.rd = FALSE, !.timed = FALSE]
SvcDone ==
  /\ pc = "svc"
  /\ pc' = "cln"
  /\ UNCHANGED <<turn, launched, fds_rd>>
  /\ svc' = [svc EXCEPT !.rd = TRUE, !.timed = TRUE]

SvcQuiet ==
  /\ pc = "svc" /\ SvcFd \notin fds_rd
  /\ pc' = "cln"
  /\ UNCHANGED <<turn, launched, fds_rd, svc, clnvars, netvars, handed>>

SvcTimer ==
  /\ SvcFd \notin fds_rd /\ svc.timed
  /\ SvcDone
  /\ UNCHANGED <<clnvars, netvars, handed>>

FreeSlotsAny == Slots
FreeSlots == {i \in Slots : sock[i].fd = NoFd}
FirstFree(i) == i \in FreeSlots /\ \A j \in FreeSlots : i <= j

\* sinsvc_cln_reset(), then the descriptor accept() returned.
ClnReset(i, fd) ==
  /\ sock' = [sock EXCEPT ![i] =
       IF fd = NoFd THEN [@ EXCEPT !.fd = NoFd]
       ELSE [fd |-> fd, rd |-> TRUE, timed |-> TRUE, act |-> TRUE]]
  /\ frm' = [frm EXCEPT ![i] = NoFrm]
  /\ pkt_lmt' = [pkt_lmt EXCEPT ![i] = 0]
  /\ UNCHANGED <<frm_list, fb>>

SvcAccept ==
  /\ SvcFd \in fds_rd /\ backlog # <<>>
  /\ SvcDone
  /\ \E i \in Slots : FirstFree(i) /\ ClnReset(i, Head(backlog))
  /\ backlog' = Tail(backlog)
  /\ conn' = [conn EXCEPT ![Head(backlog)].st = "open"]
  /\ UNCHANGED handed

\* The first connection of the backlog is gone: closed, or aborted before.
LoseFirst ==
  /\ backlog # <<>>
  /\ backlog' = Tail(backlog)
  /\ conn' = [conn EXCEPT ![Head(backlog)] = Idle]
  /\ UNCHANGED handed

SvcReject ==
  /\ SvcFd \in fds_rd /\ FreeSlots = {}
  /\ SvcDone
  /\ LoseFirst
  /\ UNCHANGED clnvars

SvcAcceptFail ==
  /\ SvcFd \in fds_rd /\ "accept" \in Faults
  /\ SvcDone
  /\ LoseFirst
  /\ \E i \in Slots : FirstFree(i) /\ ClnReset(i, NoFd)

-----------------------------------------------------------------------------
(* A client's handler, svc_cln_act.                                        *)

Selected(i) == sock[i].fd # NoFd /\ sock[i].fd \in fds_rd
Input(i) == conn[sock[i].fd].inbuf
Ended(i) == conn[sock[i].fd].ended

\* The frame being filled, popped from the pool if there is none.
CurFrm(i) == IF frm[i] # NoFrm THEN frm[i] ELSE Head(frm_list)
PoolLeftPeeked(i) == frm_list
PoolLeft(i) == IF frm[i] # NoFrm THEN frm_list ELSE Tail(frm_list)

\* The pool once the frame is done with, cln_frm_done().
ReturnedNot(i) == PoolLeft(i)
Returned(i) == Append(PoolLeft(i), CurFrm(i))

\* The buffer and the header bytes the handler starts from.
OldFb(i) == IF frm[i] # NoFrm THEN fb[frm[i]] ELSE Cleared
OldHdrStale(i) == pkt_lmt[i]
OldHdr(i) == IF frm[i] # NoFrm THEN pkt_lmt[i] ELSE 0

\* The first read: what is missing of the header, or as much as there is.
HdrTakeAll(i) == Least(frm_req_sz + 1, Len(Input(i)))
HdrTake(i) == Least(pkt2_hdr_len - OldHdr(i), Len(Input(i)))
HdrNow(i) == OldHdr(i) + HdrTake(i)
HdrDone(i) == HdrNow(i) = pkt2_hdr_len
HdrJustDone(i) == HdrDone(i) /\ OldHdr(i) < pkt2_hdr_len

\* The length the header states, in the last of its bytes.
StatedLen(i) == Input(i)[HdrTake(i)].len
TooLong(i) == HdrJustDone(i) /\ StatedLen(i) > frm_req_sz

\* The buffer once the header is known.
MidFb(i) ==
  IF HdrJustDone(i) /\ ~TooLong(i) THEN [lmt |-> StatedLen(i), data |-> <<>>]
                                    ELSE OldFb(i)

BadLen(i) ==
  TooLong(i) \/ MidFb(i).lmt = 0 \/ Len(MidFb(i).data) >= MidFb(i).lmt

\* The second read: what is missing of the payload, or as much as there is.
PldTake(i) ==
  IF HdrDone(i) /\ ~BadLen(i)
  THEN Least(MidFb(i).lmt - Len(MidFb(i).data), Len(Input(i)) - HdrTake(i))
  ELSE 0
NewFb(i) ==
  [MidFb(i) EXCEPT !.data =
     @ \o SubSeq(Input(i), HdrTake(i) + 1, HdrTake(i) + PldTake(i))]

\* The packet is whole.
CompleteEarly(i) ==
  HdrDone(i) /\ ~BadLen(i) /\ Len(NewFb(i).data) + 1 >= NewFb(i).lmt
Complete(i) ==
  HdrDone(i) /\ ~BadLen(i) /\ Len(NewFb(i).data) = NewFb(i).lmt

\* A read returned 0 or an error, or the header cannot be served.
Dropped(i) ==
  IF HdrDone(i) THEN BadLen(i) \/ (PldTake(i) = 0 /\ Ended(i))
                ELSE HdrTake(i) = 0 /\ Ended(i)

\* The epilogue of a handler that keeps its connection.
RearmTimerOnly(i) ==
  sock' = [sock EXCEPT ![i].rd = FALSE, ![i].timed = TRUE]
Rearm(i) == sock' = [sock EXCEPT ![i].rd = TRUE, ![i].timed = TRUE]

\* What a handler that read leaves of the connection's input.
Consume(i) ==
  conn' = [conn EXCEPT ![sock[i].fd].inbuf =
             SubSeq(@, HdrTake(i) + PldTake(i) + 1, Len(@))]

\* The handler may read: its socket is selected and it has a frame.
Reading(i) ==
  /\ AtCln(i) /\ Selected(i)
  /\ frm[i] # NoFrm \/ frm_list # <<>>

ClnQuiet(i) ==
  /\ AtCln(i) /\ ~Selected(i)
  /\ NextHandler
  /\ UNCHANGED <<svc, clnvars, netvars, handed>>

\* A slot that close_all left its callback can time out too, harmlessly.
ClnTimer(i) ==
  /\ AtCln(i) /\ ~Selected(i) /\ sock[i].timed /\ sock[i].act
  /\ NextHandler
  /\ Rearm(i)
  /\ UNCHANGED <<svc, frm, pkt_lmt, frm_list, fb, netvars, handed>>

ClnNoFrame(i) ==
  /\ AtCln(i) /\ Selected(i)
  /\ frm[i] = NoFrm /\ frm_list = <<>>
  /\ NextHandler
  /\ Rearm(i)
  /\ UNCHANGED <<svc, frm, pkt_lmt, frm_list, fb, netvars, handed>>

\* Part of a packet: keep the frame and wait for more.
ClnWait(i) ==
  /\ Reading(i) /\ ~Dropped(i) /\ ~Complete(i)
  /\ NextHandler
  /\ Rearm(i)
  /\ Consume(i)
  /\ frm' = [frm EXCEPT ![i] = CurFrm(i)]
  /\ frm_list' = PoolLeft(i)
  /\ pkt_lmt' = [pkt_lmt EXCEPT ![i] = HdrNow(i)]
  /\ fb' = [fb EXCEPT ![CurFrm(i)] = NewFb(i)]
  /\ UNCHANGED <<svc, backlog, handed>>

\* The whole packet: the frame is done with and returns to the pool.
ClnFrameDone(i) ==
  /\ Reading(i) /\ Complete(i)
  /\ NextHandler
  /\ Rearm(i)
  /\ Consume(i)
  /\ frm' = [frm EXCEPT ![i] = NoFrm]
  /\ frm_list' = Returned(i)
  /\ pkt_lmt' = [pkt_lmt EXCEPT ![i] = pkt2_hdr_len]
  /\ fb' = [fb EXCEPT ![CurFrm(i)] = NewFb(i)]
  /\ handed' = [handed EXCEPT ![sock[i].fd] = Append(@, NewFb(i).data)]
  /\ UNCHANGED <<svc, backlog>>

\* cln_gc(): the frame returns to the pool, the trigger stays cleared.
ClnDrop(i) ==
  /\ Reading(i) /\ Dropped(i)
  /\ NextHandler
  /\ sock' = [sock EXCEPT ![i].fd = NoFd, ![i].rd = FALSE, ![i].timed = FALSE]
  /\ conn' = [conn EXCEPT ![sock[i].fd] = Idle]
  /\ frm' = [frm EXCEPT ![i] = NoFrm]
  /\ frm_list' = Returned(i)
  /\ pkt_lmt' = [pkt_lmt EXCEPT ![i] = HdrNow(i)]
  /\ fb' = [fb EXCEPT ![CurFrm(i)] = MidFb(i)]
  /\ handed' = [handed EXCEPT ![sock[i].fd] = <<>>]
  /\ UNCHANGED <<svc, backlog>>

-----------------------------------------------------------------------------
(* The peers and the stack (external).                                     *)

PeerConnect(p) ==
  /\ svc.fd = SvcFd /\ Len(backlog) < Backlog
  /\ conn[p].st = "idle"
  /\ backlog' = Append(backlog, p)
  /\ conn' = [conn EXCEPT ![p].st = "backlog"]
  /\ UNCHANGED <<taskvars, svc, clnvars, handed>>

\* The byte at the cursor, of a packet of length l.
PeerSend(p) ==
  /\ conn[p].st # "idle" /\ ~conn[p].ended
  /\ Len(conn[p].inbuf) < NetBuf
  /\ conn[p].nxt.pkt <= MaxPkts
  /\ \E l \in IF conn[p].nxt.off = 0 THEN PktLens ELSE {conn[p].nxt.len} :
       LET at == [conn[p].nxt EXCEPT !.len = l]
       IN  conn' = [conn EXCEPT
             ![p].inbuf = Append(@, at),
             ![p].nxt = IF at.off + 1 = pkt2_hdr_len + l
                        THEN [pkt |-> at.pkt + 1, off |-> 0, len |-> 0]
                        ELSE [at EXCEPT !.off = @ + 1]]
  /\ UNCHANGED <<taskvars, svc, clnvars, backlog, handed>>

\* The peer closes, or resets and the stack keeps part of what it had.
PeerEnd(p) ==
  /\ conn[p].st # "idle" /\ ~conn[p].ended
  /\ \E n \in 0..Len(conn[p].inbuf) :
       conn' = [conn EXCEPT ![p].ended = TRUE, ![p].inbuf = SubSeq(@, 1, n)]
  /\ UNCHANGED <<taskvars, svc, clnvars, backlog, handed>>

-----------------------------------------------------------------------------
\* dw_sinsvc2_init(): memset, closed descriptors, every frame in the pool.
Init ==
  /\ pc = "poll" /\ turn = 1 /\ launched = FALSE /\ fds_rd = {}
  /\ svc = [fd |-> NoFd, rd |-> FALSE, timed |-> TRUE]
  /\ sock = [i \in Slots |->
               [fd |-> NoFd, rd |-> FALSE, timed |-> TRUE, act |-> FALSE]]
  /\ frm = [i \in Slots |-> NoFrm]
  /\ pkt_lmt = [i \in Slots |-> 0]
  /\ frm_list \in Bijection(1..Cardinality(Frames), Frames)
  /\ fb = [f \in Frames |-> [lmt |-> 0, data |-> <<>>]]
  /\ backlog = <<>>
  /\ conn = [p \in Peers |-> Idle]
  /\ handed = [p \in Peers |-> <<>>]

Cln(i) ==
  \/ ClnQuiet(i) \/ ClnTimer(i) \/ ClnNoFrame(i)
  \/ ClnWait(i) \/ ClnFrameDone(i) \/ ClnDrop(i)

Task ==
  \/ LaunchBlocked \/ Launch \/ SelectOk \/ SelectFail
  \/ SvcQuiet \/ SvcTimer \/ SvcAccept \/ SvcReject \/ SvcAcceptFail
  \/ \E i \in Slots : Cln(i)

Env == \E p \in Peers : PeerConnect(p) \/ PeerSend(p) \/ PeerEnd(p)

Next == Task \/ Env

Spec == Init /\ [][Next]_vars

\* The task is runnable forever; the peers owe nothing.
FairSpec == Spec /\ WF_vars(Task)

-----------------------------------------------------------------------------
(* Properties.                                                             *)

\* The types of the variables.
TypeOK ==
  /\ pc \in {"poll", "svc", "cln"} /\ turn \in Slots
  /\ launched \in BOOLEAN /\ fds_rd \subseteq Fds
  /\ svc \in [fd : {SvcFd, NoFd}, rd : BOOLEAN, timed : BOOLEAN]
  /\ sock \in [Slots -> Sock]
  /\ frm \in [Slots -> Frames \cup {NoFrm}]
  /\ pkt_lmt \in [Slots -> 0..pkt2_hdr_len]
  /\ frm_list \in Seq(Frames)
  /\ fb \in [Frames -> FrameBuf]
  /\ backlog \in Seq(Peers)
  /\ conn \in [Peers -> Conn]
  /\ handed \in [Peers -> Seq(Seq(Byte))]

\* A frame buffer has at most one owner: it is in the pool once, or one
\* client fills it.  (Frames travel by pointer between frm_list and cln.frm;
\* a second owner would let two packets overwrite each other.)
FrameOwnedOnce ==
  /\ IsInjective(frm_list)
  /\ \A i \in Slots : frm[i] \notin Range(frm_list)
  /\ \A i, j \in Slots : frm[i] = frm[j] /\ frm[i] # NoFrm => i = j

\* No frame is lost while select() does not fail: each is in the pool or with
\* a client that is connected, whatever path its handler took out.
FramesConserved ==
  "select" \notin Faults =>
    /\ Range(frm_list) \cup ({frm[i] : i \in Slots} \ {NoFrm}) = Frames
    /\ \A i \in Slots : sock[i].fd = NoFd => frm[i] = NoFrm

\* "out of frame buffer" (dw_sinsvc2.c:478) is for a pool that clients have
\* in use: with more frames than slots, a client without a frame finds one.
NeverOutOfFrames ==
  \A i \in Slots : sock[i].fd # NoFd /\ frm[i] = NoFrm => frm_list # <<>>

\* No open socket goes deaf: sinsvc_sock_act clears what a socket waits for
\* before it calls the handler, so every path of every handler that keeps its
\* socket must ask again before the next poll.
Rearmed ==
  launched =>
    /\ svc.fd = SvcFd /\ svc.rd /\ svc.timed
    /\ \A i \in Slots :
         sock[i].fd # NoFd => sock[i].rd /\ sock[i].timed /\ sock[i].act

\* No descriptor leaks and none is shared: the accepted connections are
\* exactly the descriptors the slots hold, each in one slot; the others wait
\* in the backlog once or are closed.
DescriptorsOwned ==
  /\ \A p \in Peers :
       conn[p].st = "open" <=> \E i \in Slots : sock[i].fd = p
  /\ \A i, j \in Slots : sock[i].fd = sock[j].fd /\ sock[i].fd # NoFd => i = j
  /\ IsInjective(backlog)
  /\ Range(backlog) = {p \in Peers : conn[p].st = "backlog"}

\* Where the next unread byte of peer p's connection stands in its stream.
Unread(p) == IF conn[p].inbuf # <<>> THEN Head(conn[p].inbuf) ELSE conn[p].nxt

\* Packets are never misframed, however the stream is cut into reads: what a
\* client will read next is the byte its header count and its frame's position
\* say, of the packet after the last completed one, and what its frame holds
\* is the beginning of that packet's payload.
Framing ==
  \A i \in Slots : sock[i].fd # NoFd /\ (Ended(i) => Input(i) # <<>>) =>
    LET p == sock[i].fd
        k == Len(handed[p]) + 1
    IN  /\ Unread(p).pkt = k
        /\ Unread(p).off =
             IF frm[i] = NoFrm THEN 0 ELSE pkt_lmt[i] + Len(fb[frm[i]].data)
        /\ frm[i] # NoFrm =>
             \A n \in DOMAIN fb[frm[i]].data :
               /\ fb[frm[i]].data[n].pkt = k
               /\ fb[frm[i]].data[n].off = pkt2_hdr_len + n - 1

\* Whatever the interleaving of peers, reads and failures, the service hands
\* over for each connection the payloads of its packets, whole and in order.
FS == INSTANCE FrameService WITH
  served <- {sock[i].fd : i \in Slots} \ {NoFd},
  MaxServed <- cln_cnt, HdrLen <- pkt2_hdr_len, MaxLen <- frm_req_sz
Implements == FS!Spec

\* A packet that has wholly arrived on an accepted connection is handed over
\* or the connection is closed: no wake-up is lost between select() and the
\* handlers, and a header never waits for a frame for good.
PacketDelivered ==
  \A p \in Peers : \A k \in 1..MaxPkts :
    conn[p].st = "open" /\ conn[p].nxt.pkt > k
      ~> Len(handed[p]) >= k \/ conn[p].st # "open"

\* A peer in the backlog is accepted or refused, also while every slot is
\* busy with a client that never speaks.
PeerAnswered ==
  \A p \in Peers : conn[p].st = "backlog" ~> conn[p].st # "backlog"
=============================================================================
