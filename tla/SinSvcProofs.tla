---------------------------- MODULE SinSvcProofs ----------------------------
(***************************************************************************)
(* Safety of the socket service, for any number of slots, frames and peers *)
(* and any sizes, and that it hands over what the peers sent.              *)
(***************************************************************************)
EXTENDS SinSvc, CommonLemmas

-----------------------------------------------------------------------------
(* What a client's handler computes.                                       *)

\* The header count, the frame and the pool a reading handler works with.
LEMMA FrameTaken ==
  ASSUME TypeOK, NEW i \in Slots, Reading(i)
  PROVE  /\ sock[i].fd \in Peers
         /\ CurFrm(i) \in Frames
         /\ PoolLeft(i) \in Seq(Frames)
         /\ Returned(i) \in Seq(Frames)
         /\ OldHdr(i) \in 0..pkt2_hdr_len
         /\ OldFb(i) \in FrameBuf
<1> USE DEF TypeOK
<1>1. sock[i].fd \in Peers
  BY DEF Reading, Selected, Sock
<1>2. frm[i] \in Frames \/ (frm[i] = NoFrm /\ frm_list # <<>>)
  BY DEF Reading
<1>3. CASE frm[i] \in Frames
  <2>1. frm[i] # NoFrm
    BY <1>3, FrameAssumption
  <2> QED
    BY <1>1, <1>3, <2>1, AppendProperties
       DEF CurFrm, PoolLeft, Returned, OldHdr, OldFb
<1>4. CASE frm[i] = NoFrm /\ frm_list # <<>>
  <2>1. Head(frm_list) \in Frames /\ Tail(frm_list) \in Seq(Frames)
    BY <1>4, HeadTailProperties
  <2>2. CurFrm(i) = Head(frm_list) /\ PoolLeft(i) = Tail(frm_list)
    BY <1>4 DEF CurFrm, PoolLeft
  <2>3. OldHdr(i) = 0 /\ OldFb(i) = [lmt |-> frm_req_sz, data |-> <<>>]
    BY <1>4 DEF OldHdr, OldFb, Cleared
  <2>4. Returned(i) \in Seq(Frames)
    BY <2>1, <2>2, AppendProperties DEF Returned
  <2>5. OldFb(i) \in FrameBuf
    BY <2>3, SizeAssumption, EmptySeq DEF FrameBuf
  <2> QED
    BY <1>1, <2>1, <2>2, <2>3, <2>4, <2>5, SizeAssumption
<1> QED
  BY <1>2, <1>3, <1>4

\* The two reads stay within the header, the payload and the input.
LEMMA ReadsBounded ==
  ASSUME TypeOK, NEW i \in Slots, Reading(i)
  PROVE  /\ Input(i) \in Seq(Byte)
         /\ HdrTake(i) \in 0..Len(Input(i))
         /\ HdrNow(i) \in 0..pkt2_hdr_len
         /\ MidFb(i) \in FrameBuf
         /\ PldTake(i) \in 0..(Len(Input(i)) - HdrTake(i))
         /\ NewFb(i) \in FrameBuf
<1>1. /\ sock[i].fd \in Peers /\ OldHdr(i) \in 0..pkt2_hdr_len
      /\ OldFb(i) \in FrameBuf
  BY FrameTaken
<1>2. Input(i) \in Seq(Byte) /\ Len(Input(i)) \in Nat
  BY <1>1, LenProperties DEF Input, TypeOK, Conn
<1>3. /\ HdrTake(i) \in 0..Len(Input(i))
      /\ HdrNow(i) \in 0..pkt2_hdr_len
  BY <1>1, <1>2, SizeAssumption DEF HdrTake, HdrNow, Least
<1>4. MidFb(i) \in FrameBuf
  <2>1. CASE HdrJustDone(i) /\ ~TooLong(i)
    <3>1. HdrTake(i) \in 1..Len(Input(i))
      BY <1>1, <1>2, <1>3, <2>1 DEF HdrJustDone, HdrDone, HdrNow
    <3>2. StatedLen(i) \in Nat
      <4>1. Input(i)[HdrTake(i)] \in Byte
        BY <1>2, <3>1, ElementOfSeq
      <4> QED
        BY <4>1 DEF StatedLen, Byte
    <3> QED
      <4>1. MidFb(i) = [lmt |-> StatedLen(i), data |-> <<>>]
        BY <2>1 DEF MidFb
      <4>2. <<>> \in Seq(Byte)
        BY EmptySeq
      <4> QED
        BY <3>2, <4>1, <4>2 DEF FrameBuf
  <2>2. CASE ~(HdrJustDone(i) /\ ~TooLong(i))
    BY <1>1, <2>2 DEF MidFb
  <2> QED
    BY <2>1, <2>2
<1>5. MidFb(i).data \in Seq(Byte) /\ MidFb(i).lmt \in Nat
      /\ Len(MidFb(i).data) \in Nat
  BY <1>4, LenProperties DEF FrameBuf
<1>6. PldTake(i) \in 0..(Len(Input(i)) - HdrTake(i))
  BY <1>2, <1>3, <1>5 DEF PldTake, BadLen, Least
<1>7. NewFb(i) \in FrameBuf
  <2>1. SubSeq(Input(i), HdrTake(i) + 1, HdrTake(i) + PldTake(i)) \in Seq(Byte)
    BY <1>2, <1>3, <1>6, SubSeqProperties
  <2>2. MidFb(i).data
          \o SubSeq(Input(i), HdrTake(i) + 1, HdrTake(i) + PldTake(i)) \in Seq(Byte)
    BY <1>5, <2>1, ConcatProperties
  <2> QED
    BY <1>4, <2>2 DEF NewFb, FrameBuf
<1> QED
  BY <1>2, <1>3, <1>4, <1>6, <1>7

-----------------------------------------------------------------------------
(* Type correctness.                                                       *)

LEMMA InitType == Init => TypeOK
<1> SUFFICES ASSUME Init PROVE TypeOK
  OBVIOUS
<1>1. frm_list \in [1..Cardinality(Frames) -> Frames] /\ Cardinality(Frames) \in Nat
  BY FrameAssumption, FS_CardinalityType DEF Init, Bijection, Injection
<1>2. frm_list \in Seq(Frames)
  BY <1>1, SeqDef
<1>3. Idle \in Conn
  BY EmptySeq DEF Idle, Conn, Byte
<1>4. \A S : <<>> \in Seq(S)
  BY EmptySeq
<1>5. 1 \in Slots /\ 0 \in 0..pkt2_hdr_len
  BY SlotAssumption, SizeAssumption DEF Slots
<1>6. fb \in [Frames -> FrameBuf]
  BY <1>4 DEF Init, FrameBuf
<1>7. conn \in [Peers -> Conn] /\ handed \in [Peers -> Seq(Seq(Byte))]
  BY <1>3, <1>4 DEF Init
<1>8. sock \in [Slots -> Sock]
  BY DEF Init, Sock
<1> QED
  BY <1>2, <1>4, <1>5, <1>6, <1>7, <1>8 DEF Init, TypeOK

LEMMA CloseAllType ==
  ASSUME TypeOK, CloseAll
  PROVE  /\ sock' \in [Slots -> Sock] /\ conn' \in [Peers -> Conn]
         /\ backlog' \in Seq(Peers) /\ handed' \in [Peers -> Seq(Seq(Byte))]
         /\ UNCHANGED <<pc, turn, fds_rd, frm, pkt_lmt, frm_list, fb>>
<1>1. Idle \in Conn
  BY EmptySeq DEF Idle, Conn, Byte
<1>2. \A S : <<>> \in Seq(S)
  BY EmptySeq
<1> QED
  BY <1>1, <1>2 DEF TypeOK, CloseAll, Sock

LEMMA NextHandlerType ==
  ASSUME TypeOK, NextHandler
  PROVE  /\ pc' \in {"poll", "svc", "cln"} /\ turn' \in Slots
         /\ launched' = launched /\ fds_rd' = fds_rd
<1>1. turn \in 1..cln_cnt /\ 1 \in 1..cln_cnt
  BY SlotAssumption DEF TypeOK, Slots
<1>2. turn # cln_cnt => turn + 1 \in 1..cln_cnt
  BY <1>1, SlotAssumption
<1>3. turn' \in Slots
  BY <1>1, <1>2 DEF NextHandler, Slots
<1> QED
  BY <1>3 DEF NextHandler

LEMMA RearmType ==
  ASSUME TypeOK, NEW i \in Slots, Rearm(i)
  PROVE  sock' \in [Slots -> Sock]
<1>1. sock \in [Slots -> Sock] /\ sock[i] \in Sock
  BY DEF TypeOK
<1>2. [sock[i] EXCEPT !.rd = TRUE, !.timed = TRUE] \in Sock
  BY <1>1 DEF Sock
<1>3. sock' = [sock EXCEPT ![i] = [sock[i] EXCEPT !.rd = TRUE, !.timed = TRUE]]
  BY DEF Rearm
<1> QED
  BY <1>1, <1>2, <1>3

LEMMA ConsumeType ==
  ASSUME TypeOK, NEW i \in Slots, Reading(i), Consume(i)
  PROVE  conn' \in [Peers -> Conn]
<1>1. /\ sock[i].fd \in Peers /\ Input(i) \in Seq(Byte)
      /\ HdrTake(i) \in 0..Len(Input(i))
      /\ PldTake(i) \in 0..(Len(Input(i)) - HdrTake(i))
  BY FrameTaken, ReadsBounded
<1>2. Len(Input(i)) \in Nat
  BY <1>1, LenProperties
<1>3. SubSeq(Input(i), HdrTake(i) + PldTake(i) + 1, Len(Input(i))) \in Seq(Byte)
  BY <1>1, <1>2, ElementOfSeq, SubSeqProperties
<1> DEFINE fd == sock[i].fd
           c == [conn[fd] EXCEPT !.inbuf =
                   SubSeq(Input(i), HdrTake(i) + PldTake(i) + 1, Len(Input(i)))]
<1>4. conn \in [Peers -> Conn] /\ conn[fd] \in Conn
  BY <1>1 DEF TypeOK
<1>5. c \in Conn
  BY <1>3, <1>4 DEF Conn
<1>6. conn' = [conn EXCEPT ![fd] = c]
  BY DEF Consume, Input
<1> HIDE DEF c
<1> QED
  BY <1>4, <1>5, <1>6

LEMMA LoseFirstType ==
  ASSUME TypeOK, LoseFirst
  PROVE  /\ backlog' \in Seq(Peers) /\ conn' \in [Peers -> Conn]
         /\ handed' = handed
<1>1. Idle \in Conn
  BY EmptySeq DEF Idle, Conn, Byte
<1> QED
  BY <1>1, HeadTailProperties DEF TypeOK, LoseFirst

LEMMA ClnResetType ==
  ASSUME TypeOK, NEW i \in Slots, NEW fd \in Peers \cup {NoFd}, ClnReset(i, fd)
  PROVE  /\ sock' \in [Slots -> Sock] /\ frm' \in [Slots -> Frames \cup {NoFrm}]
         /\ pkt_lmt' \in [Slots -> 0..pkt2_hdr_len]
         /\ frm_list' = frm_list /\ fb' = fb
<1>1. 0 \in 0..pkt2_hdr_len
  BY SizeAssumption
<1>2. sock' \in [Slots -> Sock]
  <2> DEFINE new == IF fd = NoFd THEN [sock[i] EXCEPT !.fd = NoFd]
                    ELSE [fd |-> fd, rd |-> TRUE, timed |-> TRUE, act |-> TRUE]
  <2>1. sock \in [Slots -> Sock] /\ sock[i] \in Sock
    BY DEF TypeOK
  <2>2. new \in Sock
    BY <2>1 DEF Sock
  <2>3. sock' = [sock EXCEPT ![i] = new]
    BY DEF ClnReset
  <2> HIDE DEF new
  <2> QED
    BY <2>1, <2>2, <2>3
<1>3. frm' \in [Slots -> Frames \cup {NoFrm}]
  BY DEF TypeOK, ClnReset
<1> QED
  BY <1>1, <1>2, <1>3 DEF TypeOK, ClnReset

LEMMA TaskType == TypeOK /\ Task => TypeOK'
<1> SUFFICES ASSUME TypeOK, Task PROVE TypeOK'
  OBVIOUS
<1>1. CASE LaunchBlocked
  <2>1. svc' \in [fd : {SvcFd, NoFd}, rd : BOOLEAN, timed : BOOLEAN]
    BY <1>1 DEF LaunchBlocked, TypeOK
  <2> QED
    BY <1>1, <2>1, CloseAllType DEF LaunchBlocked, TypeOK
<1>2. CASE Launch
  <2>1. svc' \in [fd : {SvcFd, NoFd}, rd : BOOLEAN, timed : BOOLEAN]
    BY <1>2 DEF Launch
  <2> QED
    BY <1>2, <2>1, CloseAllType DEF Launch, TypeOK
<1>3. CASE SelectOk
  <2>1. Readable \subseteq Fds
    BY DEF Readable, Fds
  <2> QED
    BY <1>3, <2>1 DEF SelectOk, TypeOK, clnvars, netvars
<1>4. CASE SelectFail
  BY <1>4 DEF SelectFail, TypeOK, clnvars, netvars
<1>5. CASE SvcQuiet
  BY <1>5 DEF SvcQuiet, TypeOK, clnvars, netvars
<1>6. ASSUME SvcDone
      PROVE  /\ pc' \in {"poll", "svc", "cln"} /\ turn' \in Slots
             /\ launched' \in BOOLEAN /\ fds_rd' \subseteq Fds
             /\ svc' \in [fd : {SvcFd, NoFd}, rd : BOOLEAN, timed : BOOLEAN]
  BY <1>6 DEF SvcDone, TypeOK
<1>7. CASE SvcTimer
  BY <1>6, <1>7 DEF SvcTimer, TypeOK, clnvars, netvars
<1>8. CASE SvcAccept
  <2>1. Head(backlog) \in Peers /\ Tail(backlog) \in Seq(Peers)
    BY <1>8, HeadTailProperties DEF SvcAccept, TypeOK
  <2>2. conn' \in [Peers -> Conn]
    BY <1>8, <2>1 DEF SvcAccept, TypeOK, Conn
  <2> QED
    BY <1>6, <1>8, <2>1, <2>2, ClnResetType DEF SvcAccept, TypeOK
<1>9. CASE SvcReject
  BY <1>6, <1>9, LoseFirstType DEF SvcReject, TypeOK, clnvars
<1>10. CASE SvcAcceptFail
  BY <1>6, <1>10, LoseFirstType, ClnResetType DEF SvcAcceptFail, TypeOK
<1>11. ASSUME NEW i \in Slots, Cln(i) PROVE TypeOK'
  <2>1. CASE ClnQuiet(i)
    BY <2>1, NextHandlerType DEF ClnQuiet, TypeOK, clnvars, netvars
  <2>2. CASE ClnTimer(i)
    BY <2>2, NextHandlerType, RearmType DEF ClnTimer, TypeOK, netvars
  <2>3. CASE ClnNoFrame(i)
    BY <2>3, NextHandlerType, RearmType DEF ClnNoFrame, TypeOK, netvars
  <2>4. ASSUME Reading(i)
        PROVE  /\ [fb EXCEPT ![CurFrm(i)] = NewFb(i)] \in [Frames -> FrameBuf]
               /\ [fb EXCEPT ![CurFrm(i)] = MidFb(i)] \in [Frames -> FrameBuf]
               /\ [frm EXCEPT ![i] = CurFrm(i)] \in [Slots -> Frames \cup {NoFrm}]
               /\ [pkt_lmt EXCEPT ![i] = HdrNow(i)]
                     \in [Slots -> 0..pkt2_hdr_len]
               /\ NewFb(i).data \in Seq(Byte)
    BY <2>4, FrameTaken, ReadsBounded DEF TypeOK, FrameBuf
  <2>5. CASE ClnWait(i)
    <3>1. Reading(i) /\ NextHandler /\ Rearm(i) /\ Consume(i)
      BY <2>5 DEF ClnWait
    <3> QED
      BY <2>4, <2>5, <3>1, FrameTaken, NextHandlerType, RearmType, ConsumeType
         DEF ClnWait, TypeOK
  <2>6. CASE ClnFrameDone(i)
    <3>1. Reading(i) /\ NextHandler /\ Rearm(i) /\ Consume(i)
      BY <2>6 DEF ClnFrameDone
    <3>2. [pkt_lmt EXCEPT ![i] = pkt2_hdr_len] \in [Slots -> 0..pkt2_hdr_len]
      BY SizeAssumption DEF TypeOK
    <3>3. sock[i].fd \in Peers
      BY <3>1, FrameTaken
    <3>4. Append(handed[sock[i].fd], NewFb(i).data) \in Seq(Seq(Byte))
      BY <2>4, <3>1, <3>3, AppendProperties DEF TypeOK
    <3>5. handed' \in [Peers -> Seq(Seq(Byte))]
      BY <2>6, <3>3, <3>4 DEF ClnFrameDone, TypeOK
    <3>6. frm' \in [Slots -> Frames \cup {NoFrm}]
      BY <2>6 DEF ClnFrameDone, TypeOK
    <3> QED
      BY <2>4, <2>6, <3>1, <3>2, <3>5, <3>6,
         FrameTaken, NextHandlerType, RearmType, ConsumeType
         DEF ClnFrameDone, TypeOK
  <2>7. CASE ClnDrop(i)
    <3>1. Reading(i) /\ NextHandler
      BY <2>7 DEF ClnDrop
    <3>2. sock' \in [Slots -> Sock]
      <4>0. sock \in [Slots -> Sock] /\ sock[i] \in Sock
        BY DEF TypeOK
      <4>1. [sock[i] EXCEPT !.fd = NoFd, !.rd = FALSE, !.timed = FALSE] \in Sock
        BY <4>0 DEF Sock
      <4>2. sock' = [sock EXCEPT ![i] =
                       [sock[i] EXCEPT !.fd = NoFd, !.rd = FALSE, !.timed = FALSE]]
        BY <2>7 DEF ClnDrop, TypeOK
      <4> QED
        BY <4>0, <4>1, <4>2
    <3>3. Idle \in Conn /\ <<>> \in Seq(Seq(Byte))
      BY EmptySeq DEF Idle, Conn, Byte
    <3>4. conn' \in [Peers -> Conn] /\ handed' \in [Peers -> Seq(Seq(Byte))]
      BY <2>7, <3>3 DEF ClnDrop, TypeOK
    <3>5. frm' \in [Slots -> Frames \cup {NoFrm}]
      BY <2>7 DEF ClnDrop, TypeOK
    <3> QED
      BY <2>4, <2>7, <3>1, <3>2, <3>4, <3>5, FrameTaken, NextHandlerType
         DEF ClnDrop, TypeOK
  <2> QED
    BY <1>11, <2>1, <2>2, <2>3, <2>5, <2>6, <2>7 DEF Cln
<1> QED
  BY <1>1, <1>2, <1>3, <1>4, <1>5, <1>7, <1>8, <1>9, <1>10, <1>11 DEF Task

LEMMA EnvType == TypeOK /\ Env => TypeOK'
<1> SUFFICES ASSUME TypeOK, NEW p \in Peers,
                    PeerConnect(p) \/ PeerSend(p) \/ PeerEnd(p)
             PROVE  TypeOK'
  BY DEF Env
<1>1. conn[p].inbuf \in Seq(Byte) /\ conn[p].nxt \in Byte
  BY DEF TypeOK, Conn
<1>2. CASE PeerConnect(p)
  <2>1. conn' \in [Peers -> Conn]
    BY <1>2 DEF PeerConnect, TypeOK, Conn
  <2>2. backlog' \in Seq(Peers)
    BY <1>2, AppendProperties DEF PeerConnect, TypeOK
  <2> QED
    BY <1>2, <2>1, <2>2 DEF PeerConnect, TypeOK, taskvars, clnvars
<1>3. CASE PeerSend(p)
  <2>1. PICK l \in Nat : LET at == [conn[p].nxt EXCEPT !.len = l]
                        IN  conn' = [conn EXCEPT
              ![p].inbuf = Append(@, at),
              ![p].nxt = IF at.off + 1 = pkt2_hdr_len + l
                         THEN [pkt |-> at.pkt + 1, off |-> 0, len |-> 0]
                         ELSE [at EXCEPT !.off = @ + 1]]
    BY <1>1, <1>3, SizeAssumption DEF PeerSend, Byte
  <2> DEFINE at == [conn[p].nxt EXCEPT !.len = l]
             then == IF at.off + 1 = pkt2_hdr_len + l
                     THEN [pkt |-> at.pkt + 1, off |-> 0, len |-> 0]
                     ELSE [at EXCEPT !.off = @ + 1]
  <2>2. at \in Byte /\ then \in Byte
    <3>1. at \in Byte
      BY <1>1 DEF Byte
    <3> HIDE DEF at
    <3>2. [pkt |-> at.pkt + 1, off |-> 0, len |-> 0] \in Byte
      BY <3>1 DEF Byte
    <3>3. [at EXCEPT !.off = @ + 1] \in Byte
      BY <3>1 DEF Byte
    <3> QED
      BY <3>1, <3>2, <3>3
  <2>3. Append(conn[p].inbuf, at) \in Seq(Byte)
    BY <1>1, <2>2, AppendProperties
  <2>4. conn' = [conn EXCEPT ![p].inbuf = Append(@, at), ![p].nxt = then]
    BY <2>1
  <2> HIDE DEF at, then
  <2>5. conn' \in [Peers -> Conn]
    <3> DEFINE c == [conn[p] EXCEPT !.inbuf = Append(conn[p].inbuf, at), !.nxt = then]
    <3>1. conn \in [Peers -> Conn] /\ conn[p] \in Conn
      BY DEF TypeOK
    <3>2. c \in Conn
      BY <2>2, <2>3, <3>1 DEF Conn
    <3>3. conn' = [conn EXCEPT ![p] = c]
      BY <2>4
    <3> HIDE DEF c
    <3> QED
      BY <3>1, <3>2, <3>3
  <2> QED
    BY <1>3, <2>5 DEF PeerSend, TypeOK, taskvars, clnvars
<1>4. CASE PeerEnd(p)
  <2>1. PICK n \in 0..Len(conn[p].inbuf) :
          conn' = [conn EXCEPT ![p].ended = TRUE, ![p].inbuf = SubSeq(@, 1, n)]
    BY <1>4 DEF PeerEnd
  <2>2. SubSeq(conn[p].inbuf, 1, n) \in Seq(Byte)
    BY <1>1, LenProperties, ElementOfSeq, SubSeqProperties
  <2>3. conn' \in [Peers -> Conn]
    <3> DEFINE c == [conn[p] EXCEPT !.ended = TRUE, !.inbuf = SubSeq(conn[p].inbuf, 1, n)]
    <3>1. conn \in [Peers -> Conn] /\ conn[p] \in Conn
      BY DEF TypeOK
    <3>2. c \in Conn
      BY <2>2, <3>1 DEF Conn
    <3>3. conn' = [conn EXCEPT ![p] = c]
      BY <2>1
    <3> HIDE DEF c
    <3> QED
      BY <3>1, <3>2, <3>3
  <2> QED
    BY <1>4, <2>3 DEF PeerEnd, TypeOK, taskvars, clnvars
<1> QED
  BY <1>2, <1>3, <1>4

LEMMA NextType == TypeOK /\ [Next]_vars => TypeOK'
<1>1. TypeOK /\ UNCHANGED vars => TypeOK'
  BY DEF TypeOK, vars, taskvars, clnvars, netvars
<1> QED
  BY <1>1, TaskType, EnvType DEF Next

\* The variables keep their types: in particular no handler reads past the
\* header it has room for, and no pointer but a frame's is ever in frm.
THEOREM TypeCorrect == Spec => []TypeOK
<1> QED
  BY InitType, NextType, PTL DEF Spec

-----------------------------------------------------------------------------
(* Frame buffers have one owner.                                           *)

LEMMA PoolOfFrames ==
  ASSUME TypeOK
  PROVE  Range(frm_list) \subseteq Frames /\ NoFrm \notin Range(frm_list)
<1>1. frm_list \in Seq(Frames)
  BY DEF TypeOK
<1>2. \A x : x \in Range(frm_list) <=> \E n \in 1..Len(frm_list) : frm_list[n] = x
  BY <1>1, RangeElements
<1>3. \A n \in 1..Len(frm_list) : frm_list[n] \in Frames
  BY <1>1, ElementOfSeq
<1> QED
  BY <1>2, <1>3, FrameAssumption

\* A reading handler moves one frame: its own, or the first of the pool.
LEMMA FrameMoved ==
  ASSUME TypeOK, FrameOwnedOnce, NEW i \in Slots, Reading(i)
  PROVE  /\ IsInjective(PoolLeft(i)) /\ CurFrm(i) \notin Range(PoolLeft(i))
         /\ IsInjective(Returned(i))
         /\ Range(Returned(i)) = Range(PoolLeft(i)) \cup {CurFrm(i)}
         /\ Range(Returned(i)) = Range(frm_list) \cup ({frm[i]} \ {NoFrm})
         /\ \A j \in Slots : j # i => frm[j] \notin Range(Returned(i))
<1>1. /\ CurFrm(i) \in Frames /\ PoolLeft(i) \in Seq(Frames)
      /\ frm_list \in Seq(Frames)
  BY FrameTaken DEF TypeOK
<1>2. /\ IsInjective(PoolLeft(i)) /\ CurFrm(i) \notin Range(PoolLeft(i))
      /\ Range(PoolLeft(i)) \cup {CurFrm(i)}
           = Range(frm_list) \cup ({frm[i]} \ {NoFrm})
  <2>1. CASE frm[i] # NoFrm
    BY <2>1 DEF FrameOwnedOnce, CurFrm, PoolLeft
  <2>2. CASE frm[i] = NoFrm
    <3>1. frm_list # <<>> /\ CurFrm(i) = Head(frm_list) /\ PoolLeft(i) = Tail(frm_list)
      BY <2>2 DEF Reading, CurFrm, PoolLeft
    <3>2. /\ Range(frm_list) = Range(Tail(frm_list)) \cup {Head(frm_list)}
          /\ IsInjective(Tail(frm_list)) /\ Head(frm_list) \notin Range(Tail(frm_list))
      BY <1>1, <3>1, TailOfQueue DEF FrameOwnedOnce
    <3> QED
      BY <2>2, <3>1, <3>2
  <2> QED
    BY <2>1, <2>2
<1>3. /\ IsInjective(Returned(i))
      /\ Range(Returned(i)) = Range(PoolLeft(i)) \cup {CurFrm(i)}
  BY <1>1, <1>2, AppendToQueue DEF Returned
<1>4. ASSUME NEW j \in Slots, j # i
      PROVE  frm[j] \notin Range(frm_list) \cup ({frm[i]} \ {NoFrm})
  BY <1>4 DEF FrameOwnedOnce
<1> QED
  BY <1>2, <1>3, <1>4

\* A step after which some slots hold nothing and the pool is what it was.
LEMMA FramesReleased ==
  ASSUME TypeOK, FrameOwnedOnce, frm_list' = frm_list,
         frm' \in [Slots -> Frames \cup {NoFrm}],
         \A j \in Slots : frm'[j] = frm[j] \/ frm'[j] = NoFrm
  PROVE  FrameOwnedOnce'
BY PoolOfFrames DEF FrameOwnedOnce

LEMMA FramesOwnedStep == TypeOK /\ FrameOwnedOnce /\ [Next]_vars => FrameOwnedOnce'
<1> SUFFICES ASSUME TypeOK, FrameOwnedOnce, [Next]_vars PROVE FrameOwnedOnce'
  OBVIOUS
<1>0. frm \in [Slots -> Frames \cup {NoFrm}]
  BY DEF TypeOK
<1>1. CASE UNCHANGED <<frm, frm_list>>
  BY <1>0, <1>1, FramesReleased
<1>2. ASSUME NEW i \in Slots, NEW fd, ClnReset(i, fd) PROVE FrameOwnedOnce'
  <2>1. /\ frm' = [frm EXCEPT ![i] = NoFrm] /\ frm_list' = frm_list
    BY <1>2 DEF ClnReset
  <2> QED
    BY <1>0, <2>1, FramesReleased
<1>3. ASSUME NEW i \in Slots, ClnWait(i) PROVE FrameOwnedOnce'
  <2>1. /\ Reading(i) /\ frm' = [frm EXCEPT ![i] = CurFrm(i)]
        /\ frm_list' = PoolLeft(i)
    BY <1>3 DEF ClnWait
  <2>2. /\ IsInjective(PoolLeft(i)) /\ CurFrm(i) \notin Range(PoolLeft(i))
        /\ \A j \in Slots : j # i => frm[j] \notin Range(PoolLeft(i)) \cup {CurFrm(i)}
    BY <2>1, FrameMoved
  <2>3. \A j, k \in Slots : frm'[j] = frm'[k] /\ frm'[j] # NoFrm => j = k
    BY <1>0, <2>1, <2>2 DEF FrameOwnedOnce
  <2>4. \A j \in Slots : frm'[j] \notin Range(frm_list')
    BY <1>0, <2>1, <2>2
  <2> QED
    BY <2>1, <2>2, <2>3, <2>4 DEF FrameOwnedOnce
<1>4. ASSUME NEW i \in Slots, ClnFrameDone(i) \/ ClnDrop(i) PROVE FrameOwnedOnce'
  <2>1. /\ Reading(i) /\ frm' = [frm EXCEPT ![i] = NoFrm]
        /\ frm_list' = Returned(i)
    BY <1>4 DEF ClnFrameDone, ClnDrop
  <2>2. /\ IsInjective(Returned(i))
        /\ \A j \in Slots : j # i => frm[j] \notin Range(Returned(i))
    BY <2>1, FrameMoved
  <2>3. NoFrm \notin Range(Returned(i))
    BY <2>1, FrameMoved, PoolOfFrames
  <2>4. \A j \in Slots : frm'[j] \notin Range(frm_list')
    BY <1>0, <2>1, <2>2, <2>3
  <2>5. \A j, k \in Slots : frm'[j] = frm'[k] /\ frm'[j] # NoFrm => j = k
    BY <1>0, <2>1 DEF FrameOwnedOnce
  <2> QED
    BY <2>1, <2>2, <2>4, <2>5 DEF FrameOwnedOnce
<1>5. CASE Task
  <2>1. CASE LaunchBlocked \/ Launch
    BY <1>1, <2>1 DEF LaunchBlocked, Launch, CloseAll
  <2>2. CASE SelectOk \/ SelectFail \/ SvcQuiet \/ SvcTimer \/ SvcReject
    BY <1>1, <2>2 DEF SelectOk, SelectFail, SvcQuiet, SvcTimer, SvcReject, clnvars
  <2>3. CASE SvcAccept \/ SvcAcceptFail
    BY <1>2, <2>3 DEF SvcAccept, SvcAcceptFail
  <2>4. ASSUME NEW i \in Slots, Cln(i) PROVE FrameOwnedOnce'
    <3>1. CASE ClnQuiet(i) \/ ClnTimer(i) \/ ClnNoFrame(i)
      BY <1>1, <3>1 DEF ClnQuiet, ClnTimer, ClnNoFrame, clnvars
    <3> QED
      BY <1>3, <1>4, <2>4, <3>1 DEF Cln
  <2> QED
    BY <1>5, <2>1, <2>2, <2>3, <2>4 DEF Task
<1>6. CASE Env
  BY <1>1, <1>6 DEF Env, PeerConnect, PeerSend, PeerEnd, clnvars
<1>7. CASE UNCHANGED vars
  BY <1>1, <1>7 DEF vars, clnvars
<1> QED
  BY <1>5, <1>6, <1>7 DEF Next

LEMMA FramesOwnedInit == Init => FrameOwnedOnce
<1> SUFFICES ASSUME Init PROVE FrameOwnedOnce
  OBVIOUS
<1>1. TypeOK /\ IsInjective(frm_list)
  BY InitType DEF Init, Bijection, Injection
<1>2. NoFrm \notin Range(frm_list)
  BY <1>1, PoolOfFrames
<1> QED
  BY <1>1, <1>2 DEF Init, FrameOwnedOnce

\* No frame buffer ever has two owners, with any mix of failing calls.
THEOREM FramesOwned == Spec => []FrameOwnedOnce
<1> QED
  BY TypeCorrect, FramesOwnedInit, FramesOwnedStep, PTL DEF Spec

-----------------------------------------------------------------------------
(* No frame is lost while select() does not fail.                          *)

\* Handlers run only while the service is up, and without a failing select()
\* nothing is open while it is down: close_all finds nothing to close.  This
\* is what makes FramesConserved inductive.
DownIsClosed ==
  ~launched => /\ pc = "poll"
               /\ "select" \notin Faults => \A i \in Slots : sock[i].fd = NoFd

HeldFrames == {frm[i] : i \in Slots} \ {NoFrm}

LEMMA ConservedStep ==
  /\ TypeOK /\ FrameOwnedOnce /\ FramesConserved /\ DownIsClosed
  /\ "select" \notin Faults /\ [Next]_vars
  => FramesConserved' /\ DownIsClosed'
<1> SUFFICES ASSUME "select" \notin Faults,
                    TypeOK, FrameOwnedOnce, FramesConserved, DownIsClosed,
                    [Next]_vars
             PROVE  FramesConserved' /\ DownIsClosed'
  OBVIOUS
<1>0. /\ frm \in [Slots -> Frames \cup {NoFrm}] /\ sock \in [Slots -> Sock]
      /\ Range(frm_list) \cup HeldFrames = Frames
      /\ \A i \in Slots : sock[i].fd = NoFd => frm[i] = NoFrm
      /\ ~launched => pc = "poll" /\ \A i \in Slots : sock[i].fd = NoFd
  BY DEF TypeOK, FramesConserved, DownIsClosed, HeldFrames
<1>1. ASSUME UNCHANGED <<frm, frm_list, launched>>, launched \/ pc' = pc,
             \A i \in Slots : sock'[i].fd = sock[i].fd
      PROVE  FramesConserved' /\ DownIsClosed'
  BY <1>0, <1>1 DEF FramesConserved, DownIsClosed, HeldFrames
<1>2. ASSUME NEW i \in Slots, NEW fd \in Peers \cup {NoFd},
             FirstFree(i), ClnReset(i, fd), launched, launched'
      PROVE  FramesConserved' /\ DownIsClosed'
  <2>1. frm' = frm /\ frm_list' = frm_list
    BY <1>0, <1>2 DEF FirstFree, FreeSlots, ClnReset
  <2>2. \A j \in Slots : sock'[j].fd = NoFd => sock[j].fd = NoFd
    BY <1>0, <1>2 DEF FirstFree, FreeSlots, ClnReset, Sock
  <2> QED
    BY <1>0, <1>2, <2>1, <2>2 DEF FramesConserved, DownIsClosed, HeldFrames
<1>3. ASSUME NEW i \in Slots, Reading(i)
      PROVE  /\ sock[i].fd # NoFd /\ CurFrm(i) # NoFrm
             /\ Range(PoolLeft(i)) \cup {CurFrm(i)} = Range(frm_list) \cup ({frm[i]} \ {NoFrm})
             /\ Range(Returned(i)) = Range(frm_list) \cup ({frm[i]} \ {NoFrm})
  BY <1>3, FrameMoved, FrameTaken, FrameAssumption DEF Reading, Selected
<1>4. CASE Task
  <2>1. CASE LaunchBlocked \/ Launch
    <3>1. /\ frm' = frm /\ frm_list' = frm_list
          /\ pc' = "poll" /\ \A i \in Slots : sock[i].fd = NoFd /\ sock'[i].fd = NoFd
      BY <1>0, <2>1 DEF LaunchBlocked, Launch, CloseAll, Sock
    <3> QED
      BY <1>0, <3>1 DEF FramesConserved, DownIsClosed, HeldFrames
  <2>2. CASE SelectOk \/ SvcQuiet \/ SvcTimer \/ SvcReject
    <3>1. UNCHANGED <<frm, frm_list, sock, launched>>
      BY <2>2 DEF SelectOk, SvcQuiet, SvcTimer, SvcReject, SvcDone, clnvars
    <3>2. launched
      BY <1>0, <2>2 DEF SelectOk, SvcQuiet, SvcTimer, SvcReject, SvcDone
    <3> QED
      BY <1>1, <3>1, <3>2
  <2>3. CASE SelectFail
    BY <2>3 DEF SelectFail
  <2>4. CASE SvcAccept
    <3>1. Head(backlog) \in Peers
      BY <2>4, HeadTailProperties DEF SvcAccept, TypeOK
    <3> QED
      BY <1>0, <1>2, <2>4, <3>1 DEF SvcAccept, SvcDone
  <2>5. CASE SvcAcceptFail
    BY <1>0, <1>2, <2>5 DEF SvcAcceptFail, SvcDone
  <2>6. ASSUME NEW i \in Slots, Cln(i) PROVE FramesConserved' /\ DownIsClosed'
    <3>0. launched /\ launched' = launched
      BY <1>0, <2>6 DEF Cln, ClnQuiet, ClnTimer, ClnNoFrame, ClnWait, ClnFrameDone,
                        ClnDrop, Reading, AtCln, NextHandler
    <3>1. CASE ClnQuiet(i) \/ ClnTimer(i) \/ ClnNoFrame(i)
      <4>1. UNCHANGED <<frm, frm_list>> /\ (sock' = sock \/ Rearm(i))
        BY <3>1 DEF ClnQuiet, ClnTimer, ClnNoFrame, clnvars
      <4>2. \A j \in Slots : sock'[j].fd = sock[j].fd
        BY <1>0, <4>1 DEF Rearm, Sock
      <4> QED
        BY <1>1, <3>0, <4>1, <4>2
    <3>2. CASE ClnWait(i)
      <4>1. /\ Reading(i) /\ frm' = [frm EXCEPT ![i] = CurFrm(i)]
            /\ frm_list' = PoolLeft(i) /\ Rearm(i)
        BY <3>2 DEF ClnWait
      <4>2. \A j \in Slots : sock'[j].fd = sock[j].fd
        BY <1>0, <4>1 DEF Rearm, Sock
      <4>3. \A j \in Slots : sock'[j].fd = NoFd => frm'[j] = NoFrm
        BY <1>0, <1>3, <4>1, <4>2
      <4>4. HeldFrames' = (HeldFrames \ {frm[i]}) \cup {CurFrm(i)}
        <5>1. \A j \in Slots : j # i /\ frm[j] # NoFrm => frm[j] # frm[i]
          BY DEF FrameOwnedOnce
        <5> QED
          BY <1>0, <1>3, <4>1, <5>1 DEF HeldFrames
      <4>5. Range(frm_list') \cup HeldFrames' = Frames
        BY <1>0, <1>3, <4>1, <4>4 DEF HeldFrames
      <4> QED
        BY <3>0, <4>3, <4>5 DEF FramesConserved, DownIsClosed, HeldFrames
    <3>3. CASE ClnFrameDone(i) \/ ClnDrop(i)
      <4>1. /\ Reading(i) /\ frm' = [frm EXCEPT ![i] = NoFrm]
            /\ frm_list' = Returned(i)
        BY <3>3 DEF ClnFrameDone, ClnDrop
      <4>2. \A j \in Slots : j # i => sock'[j].fd = sock[j].fd
        BY <1>0, <3>3 DEF ClnFrameDone, ClnDrop, Rearm, Sock
      <4>3. \A j \in Slots : sock'[j].fd = NoFd => frm'[j] = NoFrm
        BY <1>0, <4>1, <4>2
      <4>4. HeldFrames' = HeldFrames \ {frm[i]}
        <5>1. \A j \in Slots : j # i /\ frm[j] # NoFrm => frm[j] # frm[i]
          BY DEF FrameOwnedOnce
        <5> QED
          BY <1>0, <4>1, <5>1 DEF HeldFrames
      <4>5. Range(frm_list') \cup HeldFrames' = Frames
        BY <1>0, <1>3, <4>1, <4>4 DEF HeldFrames
      <4> QED
        BY <3>0, <4>3, <4>5 DEF FramesConserved, DownIsClosed, HeldFrames
    <3> QED
      BY <2>6, <3>1, <3>2, <3>3 DEF Cln
  <2> QED
    BY <1>4, <2>1, <2>2, <2>3, <2>4, <2>5, <2>6 DEF Task
<1>5. CASE Env
  BY <1>1, <1>5 DEF Env, PeerConnect, PeerSend, PeerEnd, taskvars, clnvars
<1>6. CASE UNCHANGED vars
  BY <1>1, <1>6 DEF vars, taskvars, clnvars
<1> QED
  BY <1>4, <1>5, <1>6 DEF Next

LEMMA ConservedInit == Init => FramesConserved /\ DownIsClosed
<1> SUFFICES ASSUME Init PROVE FramesConserved /\ DownIsClosed
  OBVIOUS
<1>1. Range(frm_list) = Frames
  BY DEF Init, Bijection, Surjection, Range
<1> QED
  BY <1>1 DEF Init, FramesConserved, DownIsClosed

\* Every frame is in the pool or with a connected client, as long as select()
\* does not fail.
THEOREM FramesStay == Spec => []FramesConserved
<1>1. CASE "select" \in Faults
  <2>1. FramesConserved
    BY <1>1 DEF FramesConserved
  <2> QED
    BY <2>1, PTL
<1>2. CASE "select" \notin Faults
  <2>1. /\ TypeOK /\ FrameOwnedOnce /\ FramesConserved /\ DownIsClosed /\ [Next]_vars
        => FramesConserved' /\ DownIsClosed'
    BY <1>2, ConservedStep
  <2> QED
    BY <2>1, TypeCorrect, FramesOwned, ConservedInit, PTL DEF Spec
<1> QED
  BY <1>1, <1>2

\* With a frame per slot, a client without a frame finds one in the pool: the
\* other clients cannot hold them all.
LEMMA EnoughFrames ==
  ASSUME cln_cnt <= Cardinality(Frames), "select" \notin Faults,
         TypeOK, FramesConserved
  PROVE  NeverOutOfFrames
<1> SUFFICES ASSUME NEW i \in Slots, frm[i] = NoFrm, frm_list = <<>>
             PROVE  FALSE
  BY DEF NeverOutOfFrames
<1> DEFINE others == Slots \ {i}
           g == [j \in others |-> frm[j]]
           T == {g[j] : j \in others}
<1>1. IsFiniteSet(others) /\ Cardinality(others) = cln_cnt - 1
  <2>1. IsFiniteSet(Slots) /\ Cardinality(Slots) = cln_cnt
    BY SlotAssumption, FS_Interval DEF Slots
  <2> QED
    BY <2>1, FS_RemoveElement
<1>2. IsFiniteSet(T) /\ Cardinality(T) <= Cardinality(others)
  <2>1. g \in Surjection(others, T)
    BY DEF Surjection
  <2> QED
    BY <1>1, <2>1, FS_Surjection
<1>3. Frames \subseteq T
  <2>1. Range(frm_list) = {}
    BY DEF Range
  <2>2. Frames = {frm[j] : j \in Slots} \ {NoFrm}
    BY <2>1 DEF FramesConserved
  <2> QED
    BY <2>2
<1>4. Cardinality(Frames) <= Cardinality(T)
  BY <1>2, <1>3, FS_Subset
<1>5. Cardinality(Frames) \in Nat /\ Cardinality(T) \in Nat
  BY <1>2, FrameAssumption, FS_CardinalityType
<1> QED
  BY <1>1, <1>2, <1>4, <1>5, SlotAssumption

\* The pool is never found empty while a client waits to fill a frame, if
\* select() does not fail and there are as many frames as slots.
THEOREM FramesSuffice ==
  ASSUME cln_cnt <= Cardinality(Frames), "select" \notin Faults
  PROVE  Spec => []NeverOutOfFrames
<1>1. TypeOK /\ FramesConserved => NeverOutOfFrames
  BY EnoughFrames
<1> QED
  BY <1>1, TypeCorrect, FramesStay, PTL

-----------------------------------------------------------------------------
(* No open socket goes deaf.                                               *)

\* What is armed stays armed through a step of one client's handler.
LEMMA RearmedByHandler ==
  ASSUME TypeOK, Rearmed, NEW i \in Slots, Cln(i)
  PROVE  Rearmed'
<1>1. launched' = launched /\ svc' = svc /\ sock \in [Slots -> Sock]
  BY DEF TypeOK, Cln, ClnQuiet, ClnTimer, ClnNoFrame, ClnWait, ClnFrameDone,
         ClnDrop, NextHandler
<1>2. CASE sock' = sock
  BY <1>1, <1>2 DEF Rearmed
<1>3. CASE Rearm(i)
  BY <1>1, <1>3 DEF Rearmed, Rearm, Sock
<1>4. CASE ClnDrop(i)
  <2>1. /\ sock'[i].fd = NoFd
        /\ \A j \in Slots : j # i => sock'[j] = sock[j]
    BY <1>1, <1>4 DEF ClnDrop, Sock
  <2> QED
    BY <1>1, <2>1 DEF Rearmed
<1> QED
  BY <1>2, <1>3, <1>4 DEF Cln, ClnQuiet, ClnTimer, ClnNoFrame, ClnWait,
                          ClnFrameDone, clnvars

LEMMA RearmedStep == TypeOK /\ Rearmed /\ [Next]_vars => Rearmed'
<1> SUFFICES ASSUME TypeOK, Rearmed, [Next]_vars PROVE Rearmed'
  OBVIOUS
<1>0. sock \in [Slots -> Sock]
  BY DEF TypeOK
<1>1. CASE LaunchBlocked \/ SelectFail
  BY <1>1 DEF LaunchBlocked, SelectFail, Rearmed
<1>2. CASE Launch
  BY <1>0, <1>2 DEF Launch, CloseAll, Rearmed, Sock
<1>3. CASE SelectOk \/ SvcQuiet
  BY <1>3 DEF SelectOk, SvcQuiet, Rearmed, clnvars
<1>4. CASE SvcTimer \/ SvcReject
  BY <1>4 DEF SvcTimer, SvcReject, SvcDone, Rearmed, TypeOK, clnvars
<1>5. CASE SvcAccept \/ SvcAcceptFail
  <2>1. PICK i \in Slots, fd \in Peers \cup {NoFd} : ClnReset(i, fd)
    <3>1. CASE SvcAccept
      BY <3>1 DEF SvcAccept, TypeOK
    <3>2. CASE SvcAcceptFail
      BY <3>2 DEF SvcAcceptFail
    <3> QED
      BY <1>5, <3>1, <3>2
  <2>2. /\ \A j \in Slots : j # i => sock'[j] = sock[j]
        /\ sock'[i].fd = NoFd \/ (sock'[i].rd /\ sock'[i].timed /\ sock'[i].act)
    BY <1>0, <2>1 DEF ClnReset, Sock
  <2>3. launched' = launched /\ svc' = [svc EXCEPT !.rd = TRUE, !.timed = TRUE]
    BY <1>5 DEF SvcAccept, SvcAcceptFail, SvcDone
  <2> QED
    BY <2>2, <2>3 DEF Rearmed, TypeOK
<1>6. CASE \E i \in Slots : Cln(i)
  BY <1>6, RearmedByHandler
<1>7. CASE Env
  BY <1>7 DEF Env, PeerConnect, PeerSend, PeerEnd, Rearmed, taskvars, clnvars
<1>8. CASE UNCHANGED vars
  BY <1>8 DEF vars, taskvars, clnvars, Rearmed
<1> QED
  BY <1>1, <1>2, <1>3, <1>4, <1>5, <1>6, <1>7, <1>8 DEF Next, Task

\* While the service is up every open socket waits for input and for its due
\* time, whatever fails.
THEOREM NeverDeaf == Spec => []Rearmed
<1>1. Init => Rearmed
  BY DEF Init, Rearmed
<1> QED
  BY <1>1, TypeCorrect, RearmedStep, PTL DEF Spec

-----------------------------------------------------------------------------
(* Descriptors have one owner.                                             *)

\* Steps that move no descriptor: slots, backlog and connection states stay.
LEMMA DescriptorsKept ==
  ASSUME TypeOK, DescriptorsOwned, backlog' = backlog,
         \A i \in Slots : sock'[i].fd = sock[i].fd,
         \A p \in Peers : conn'[p].st = conn[p].st
  PROVE  DescriptorsOwned'
BY DEF DescriptorsOwned

\* The first of the backlog, which no slot holds, leaves it.
LEMMA BacklogHead ==
  ASSUME TypeOK, DescriptorsOwned, backlog # <<>>
  PROVE  /\ Head(backlog) \in Peers /\ conn[Head(backlog)].st = "backlog"
         /\ \A i \in Slots : sock[i].fd # Head(backlog)
         /\ IsInjective(Tail(backlog))
         /\ Range(Tail(backlog)) = Range(backlog) \ {Head(backlog)}
<1>1. /\ Head(backlog) \in Peers
      /\ Range(backlog) = Range(Tail(backlog)) \cup {Head(backlog)}
      /\ IsInjective(Tail(backlog)) /\ Head(backlog) \notin Range(Tail(backlog))
  BY TailOfQueue DEF TypeOK, DescriptorsOwned
<1>2. conn[Head(backlog)].st = "backlog"
  BY <1>1 DEF DescriptorsOwned
<1>3. \A i \in Slots : sock[i].fd # Head(backlog)
  BY <1>1, <1>2 DEF DescriptorsOwned
<1> QED
  BY <1>1, <1>2, <1>3

LEMMA DescriptorsLost ==
  ASSUME TypeOK, DescriptorsOwned, LoseFirst,
         \A i \in Slots : sock'[i].fd = sock[i].fd
  PROVE  DescriptorsOwned'
<1>1. backlog # <<>>
  BY DEF LoseFirst
<1>2. \A p \in Peers : conn'[p].st =
         IF p = Head(backlog) THEN "idle" ELSE conn[p].st
  BY DEF LoseFirst, TypeOK, Idle
<1>3. \A p \in Peers : conn'[p].st = "open" <=> \E i \in Slots : sock'[i].fd = p
  BY <1>1, <1>2, BacklogHead DEF DescriptorsOwned
<1>4. backlog' = Tail(backlog)
  BY DEF LoseFirst
<1>5. Range(backlog') = {p \in Peers : conn'[p].st = "backlog"}
  BY <1>1, <1>2, <1>4, BacklogHead DEF DescriptorsOwned
<1>6. IsInjective(backlog')
  BY <1>1, <1>4, BacklogHead
<1> QED
  BY <1>3, <1>5, <1>6 DEF DescriptorsOwned

LEMMA DescriptorsClosed == TypeOK /\ CloseAll => DescriptorsOwned'
<1> SUFFICES ASSUME TypeOK, CloseAll PROVE DescriptorsOwned'
  OBVIOUS
<1>1. \A i \in Slots : sock'[i].fd = NoFd
  BY DEF CloseAll, TypeOK, Sock
<1>2. \A p \in Peers : conn'[p].st = "idle"
  BY DEF CloseAll, Idle
<1>3. backlog' = <<>> /\ Range(<<>>) = {} /\ IsInjective(<<>>)
  BY DEF CloseAll, Range, IsInjective
<1>4. Range(backlog') = {} /\ IsInjective(backlog')
  BY <1>3
<1> QED
  BY <1>1, <1>2, <1>4, FdAssumption DEF DescriptorsOwned

LEMMA DescriptorsStep ==
  TypeOK /\ DescriptorsOwned /\ [Next]_vars => DescriptorsOwned'
<1> SUFFICES ASSUME TypeOK, DescriptorsOwned, [Next]_vars PROVE DescriptorsOwned'
  OBVIOUS
<1>0. sock \in [Slots -> Sock] /\ conn \in [Peers -> Conn]
  BY DEF TypeOK
<1>1. CASE LaunchBlocked \/ Launch
  BY <1>1, DescriptorsClosed DEF LaunchBlocked, Launch
<1>2. CASE SelectOk \/ SelectFail \/ SvcQuiet \/ SvcTimer
  BY <1>2, DescriptorsKept
     DEF SelectOk, SelectFail, SvcQuiet, SvcTimer, clnvars, netvars
<1>3. CASE SvcAccept
  <2> DEFINE q == Head(backlog)
  <2>1. PICK i \in Slots : FirstFree(i) /\ ClnReset(i, q)
    BY <1>3 DEF SvcAccept
  <2>2. /\ backlog # <<>> /\ backlog' = Tail(backlog)
        /\ conn' = [conn EXCEPT ![q].st = "open"]
    BY <1>3 DEF SvcAccept
  <2>3. /\ q \in Peers /\ conn[q].st = "backlog"
        /\ \A j \in Slots : sock[j].fd # q
        /\ IsInjective(backlog') /\ Range(backlog') = Range(backlog) \ {q}
    BY <2>2, BacklogHead
  <2> HIDE DEF q
  <2>4. \A p \in Peers : conn'[p].st = IF p = q THEN "open" ELSE conn[p].st
    BY <1>0, <2>2, <2>3 DEF Conn
  <2>5. /\ sock[i].fd = NoFd
        /\ \A j \in Slots : sock'[j].fd = IF j = i THEN q ELSE sock[j].fd
    BY <1>0, <2>1, <2>3, FdAssumption DEF FirstFree, FreeSlots, ClnReset, Sock
  <2>6. \A p \in Peers : conn'[p].st = "open" <=> \E j \in Slots : sock'[j].fd = p
    BY <2>3, <2>4, <2>5, FdAssumption DEF DescriptorsOwned
  <2>7. \A j, k \in Slots : sock'[j].fd = sock'[k].fd /\ sock'[j].fd # NoFd => j = k
    BY <2>3, <2>5 DEF DescriptorsOwned
  <2>8. Range(backlog') = {p \in Peers : conn'[p].st = "backlog"}
    BY <2>3, <2>4 DEF DescriptorsOwned
  <2> QED
    BY <2>3, <2>6, <2>7, <2>8 DEF DescriptorsOwned
<1>4. CASE SvcReject
  BY <1>4, DescriptorsLost DEF SvcReject, clnvars
<1>5. CASE SvcAcceptFail
  <2>1. PICK i \in Slots : FirstFree(i) /\ ClnReset(i, NoFd)
    BY <1>5 DEF SvcAcceptFail
  <2>2. \A j \in Slots : sock'[j].fd = sock[j].fd
    BY <1>0, <2>1 DEF FirstFree, FreeSlots, ClnReset, Sock
  <2> QED
    BY <1>5, <2>2, DescriptorsLost DEF SvcAcceptFail
<1>6. ASSUME NEW i \in Slots, Cln(i) PROVE DescriptorsOwned'
  <2>1. CASE ClnQuiet(i) \/ ClnTimer(i) \/ ClnNoFrame(i)
    <3>1. netvars' = netvars /\ (sock' = sock \/ Rearm(i))
      BY <2>1 DEF ClnQuiet, ClnTimer, ClnNoFrame, clnvars
    <3>2. \A j \in Slots : sock'[j].fd = sock[j].fd
      BY <1>0, <3>1 DEF Rearm, Sock
    <3> QED
      BY <3>1, <3>2, DescriptorsKept DEF netvars
  <2>2. CASE ClnWait(i) \/ ClnFrameDone(i)
    <3>1. Rearm(i) /\ Consume(i) /\ backlog' = backlog
      BY <2>2 DEF ClnWait, ClnFrameDone
    <3>2. \A j \in Slots : sock'[j].fd = sock[j].fd
      BY <1>0, <3>1 DEF Rearm, Sock
    <3>3. \A p \in Peers : conn'[p].st = conn[p].st
      BY <1>0, <3>1 DEF Consume, Conn
    <3> QED
      BY <3>1, <3>2, <3>3, DescriptorsKept
  <2>3. CASE ClnDrop(i)
    <3> DEFINE q == sock[i].fd
    <3>1. q \in Peers
      BY <2>3, FrameTaken DEF ClnDrop
    <3>2. \A j \in Slots : sock'[j].fd = IF j = i THEN NoFd ELSE sock[j].fd
      BY <1>0, <2>3 DEF ClnDrop, Sock
    <3>3. \A p \in Peers : conn'[p].st = IF p = q THEN "idle" ELSE conn[p].st
      BY <1>0, <2>3 DEF ClnDrop, Idle
    <3>4. backlog' = backlog /\ conn[q].st = "open"
      BY <2>3, <3>1 DEF ClnDrop, DescriptorsOwned
    <3> HIDE DEF q
    <3>5. sock[i].fd = q /\ q # NoFd
      BY <3>1, FdAssumption DEF q
    <3>6. \A p \in Peers : conn'[p].st = "open" <=> \E j \in Slots : sock'[j].fd = p
      BY <3>1, <3>2, <3>3, <3>5, FdAssumption DEF DescriptorsOwned
    <3>7. \A j, k \in Slots : sock'[j].fd = sock'[k].fd /\ sock'[j].fd # NoFd => j = k
      BY <3>2 DEF DescriptorsOwned
    <3>8. Range(backlog') = {p \in Peers : conn'[p].st = "backlog"}
      BY <3>3, <3>4 DEF DescriptorsOwned
    <3> QED
      BY <3>4, <3>6, <3>7, <3>8 DEF DescriptorsOwned
  <2> QED
    BY <1>6, <2>1, <2>2, <2>3 DEF Cln
<1>7. ASSUME NEW p \in Peers, PeerConnect(p) PROVE DescriptorsOwned'
  <2>1. /\ conn[p].st = "idle" /\ backlog' = Append(backlog, p) /\ sock' = sock
        /\ \A q \in Peers : conn'[q].st = IF q = p THEN "backlog" ELSE conn[q].st
    BY <1>0, <1>7 DEF PeerConnect, clnvars, Conn
  <2>2. IsInjective(backlog') /\ Range(backlog') = Range(backlog) \cup {p}
    <3>1. p \notin Range(backlog) /\ backlog \in Seq(Peers) /\ IsInjective(backlog)
      BY <2>1 DEF DescriptorsOwned, TypeOK
    <3> QED
      BY <2>1, <3>1, AppendToQueue
  <2>3. \A q \in Peers : conn'[q].st = "open" <=> \E j \in Slots : sock'[j].fd = q
    BY <2>1 DEF DescriptorsOwned
  <2>4. Range(backlog') = {q \in Peers : conn'[q].st = "backlog"}
    BY <2>1, <2>2 DEF DescriptorsOwned
  <2> QED
    BY <2>1, <2>2, <2>3, <2>4 DEF DescriptorsOwned
<1>8. ASSUME NEW p \in Peers, PeerSend(p) \/ PeerEnd(p) PROVE DescriptorsOwned'
  <2>1. \A q \in Peers : conn'[q].st = conn[q].st
    <3>1. CASE PeerSend(p)
      <4>1. PICK l : LET at == [conn[p].nxt EXCEPT !.len = l]
                     IN  conn' = [conn EXCEPT
              ![p].inbuf = Append(@, at),
              ![p].nxt = IF at.off + 1 = pkt2_hdr_len + l
                         THEN [pkt |-> at.pkt + 1, off |-> 0, len |-> 0]
                         ELSE [at EXCEPT !.off = @ + 1]]
        BY <3>1 DEF PeerSend
      <4> DEFINE at == [conn[p].nxt EXCEPT !.len = l]
                 then == IF at.off + 1 = pkt2_hdr_len + l
                         THEN [pkt |-> at.pkt + 1, off |-> 0, len |-> 0]
                         ELSE [at EXCEPT !.off = @ + 1]
      <4>2. conn' = [conn EXCEPT ![p].inbuf = Append(@, at), ![p].nxt = then]
        BY <4>1
      <4> HIDE DEF at, then
      <4> QED
        BY <1>0, <4>2 DEF Conn
    <3>2. CASE PeerEnd(p)
      BY <1>0, <3>2 DEF PeerEnd, Conn
    <3> QED
      BY <1>8, <3>1, <3>2
  <2> QED
    BY <1>8, <2>1, DescriptorsKept DEF PeerSend, PeerEnd, clnvars
<1>9. CASE UNCHANGED vars
  BY <1>9, DescriptorsKept DEF vars, clnvars, netvars
<1> QED
  BY <1>1, <1>2, <1>3, <1>4, <1>5, <1>6, <1>7, <1>8, <1>9 DEF Next, Task, Env

LEMMA DescriptorsInit == Init => DescriptorsOwned
<1> SUFFICES ASSUME Init PROVE DescriptorsOwned
  OBVIOUS
<1>1. Range(<<>>) = {} /\ IsInjective(<<>>)
  BY DEF Range, IsInjective
<1>2. \A p \in Peers : conn[p].st = "idle"
  BY DEF Init, Idle
<1> QED
  BY <1>1, <1>2, FdAssumption DEF Init, DescriptorsOwned

\* No accepted connection leaks or is shared, whatever fails and whenever the
\* service goes down.
THEOREM NoDescriptorLeak == Spec => []DescriptorsOwned
<1> QED
  BY TypeCorrect, DescriptorsInit, DescriptorsStep, PTL DEF Spec

-----------------------------------------------------------------------------
(* Framing: packets are never misframed, and the service implements        *)
(* FrameService.  A connection is seen as the bytes not yet read followed, *)
(* while the peer has not ended it, by the byte it sends next.  What makes *)
(* the invariant inductive is that any two of these bytes stand to each    *)
(* other as their distance says, and not only neighbours.                  *)

\* The n-th of these bytes of a connection c, and how many there are.
ByteAt(c, n) == IF n <= Len(c.inbuf) THEN c.inbuf[n] ELSE c.nxt
LastOf(c) == IF c.ended THEN Len(c.inbuf) ELSE Len(c.inbuf) + 1

\* The byte e, which is at distance d from b or in the packet that follows.
Distant(b, e, d) ==
  /\ b.off + d < pkt2_hdr_len + b.len =>
       e.pkt = b.pkt /\ e.off = b.off + d /\ e.len = b.len
  /\ b.off + d = pkt2_hdr_len + b.len => e.pkt = b.pkt + 1 /\ e.off = 0

Contiguous(c) ==
  /\ \A m \in 1..LastOf(c) : ByteAt(c, m).off < pkt2_hdr_len + ByteAt(c, m).len
  /\ \A m, n \in 1..LastOf(c) :
       m <= n => Distant(ByteAt(c, m), ByteAt(c, n), n - m)

\* The next byte of c to be read is the one at off of packet k.
ReadsAt(c, k, off) ==
  LastOf(c) >= 1 => ByteAt(c, 1).pkt = k /\ ByteAt(c, 1).off = off

\* A connection that is not accepted is at its first byte.
Fresh(p) ==
  conn[p].st # "open" =>
    /\ handed[p] = <<>> /\ ReadsAt(conn[p], 1, 0)
    /\ conn[p].st = "idle" => conn[p] = Idle

Streams == \A p \in Peers : Contiguous(conn[p]) /\ Fresh(p)

\* The beginning, n bytes long, of the payload of packet k of length l.
Begins(data, k, l) ==
  \A n \in 1..Len(data) :
    data[n] = [pkt |-> k, off |-> pkt2_hdr_len + n - 1, len |-> l]

\* A frame f after h header bytes of packet k, of a connection c: nothing yet,
\* or a part of the payload and the rest to come.
Filled(f, h, c, k) ==
  /\ ReadsAt(c, k, h + Len(f.data))
  /\ h < pkt2_hdr_len => f.data = <<>>
  /\ h = pkt2_hdr_len =>
       /\ f.lmt \in 1..frm_req_sz /\ Len(f.data) < f.lmt
       /\ Begins(f.data, k, f.lmt)
       /\ LastOf(c) >= 1 => ByteAt(c, 1).len = f.lmt

Packet(i) == Len(handed[sock[i].fd]) + 1
Client(i) ==
  IF frm[i] = NoFrm THEN ReadsAt(conn[sock[i].fd], Packet(i), 0)
  ELSE Filled(fb[frm[i]], pkt_lmt[i], conn[sock[i].fd], Packet(i))

Clients == \A i \in Slots : sock[i].fd # NoFd => Client(i)
-----------------------------------------------------------------------------
(* What happens to a connection.                                           *)

LEMMA BytesOf ==
  ASSUME NEW c \in Conn
  PROVE  /\ LastOf(c) \in Nat /\ Len(c.inbuf) \in Nat
         /\ Len(c.inbuf) <= LastOf(c) /\ LastOf(c) <= Len(c.inbuf) + 1
         /\ \A n \in 1..LastOf(c) : ByteAt(c, n) \in Byte
<1>1. c.inbuf \in Seq(Byte) /\ c.nxt \in Byte /\ c.ended \in BOOLEAN
  BY DEF Conn
<1>2. Len(c.inbuf) \in Nat /\ \A n \in 1..Len(c.inbuf) : c.inbuf[n] \in Byte
  BY <1>1, LenProperties, ElementOfSeq
<1> QED
  BY <1>1, <1>2 DEF LastOf, ByteAt

\* Bytes taken from the front, or lost at the back: those left are as before.
LEMMA PartContiguous ==
  ASSUME NEW c \in Conn, Contiguous(c), NEW d \in Conn, NEW j \in Nat,
         LastOf(d) + j <= LastOf(c),
         \A n \in 1..LastOf(d) : ByteAt(d, n) = ByteAt(c, n + j)
  PROVE  Contiguous(d)
<1>1. LastOf(c) \in Nat /\ LastOf(d) \in Nat
  BY BytesOf
<1>2. \A n \in 1..LastOf(d) : n + j \in 1..LastOf(c)
  BY <1>1
<1>3. ASSUME NEW m \in 1..LastOf(d)
      PROVE  ByteAt(d, m).off < pkt2_hdr_len + ByteAt(d, m).len
  BY <1>2, <1>3 DEF Contiguous
<1>4. ASSUME NEW m \in 1..LastOf(d), NEW n \in 1..LastOf(d), m <= n
      PROVE  Distant(ByteAt(d, m), ByteAt(d, n), n - m)
  <2>1. /\ m + j \in 1..LastOf(c) /\ n + j \in 1..LastOf(c) /\ m + j <= n + j
        /\ (n + j) - (m + j) = n - m
    BY <1>1, <1>2, <1>4
  <2>2. Distant(ByteAt(c, m + j), ByteAt(c, n + j), (n + j) - (m + j))
    BY <2>1 DEF Contiguous
  <2> QED
    BY <2>1, <2>2
<1> QED
  BY <1>3, <1>4 DEF Contiguous

\* A sequence without its first j elements.
LEMMA RestOfSeq ==
  ASSUME NEW S, NEW q \in Seq(S), NEW j \in 0..Len(q)
  PROVE  /\ Len(SubSeq(q, j + 1, Len(q))) = Len(q) - j
         /\ \A n \in 1..(Len(q) - j) : SubSeq(q, j + 1, Len(q))[n] = q[n + j]
<1>1. Len(q) \in Nat
  BY LenProperties
<1>2. \A n \in j + 1 .. Len(q) : q[n] \in S
  BY <1>1, ElementOfSeq
<1> QED
  BY <1>1, <1>2, SubSeqProperties

\* A connection without its first j unread bytes.
LEMMA BytesConsumed ==
  ASSUME NEW c \in Conn, Contiguous(c), NEW j \in 0..Len(c.inbuf),
         NEW d \in Conn,
         d.inbuf = SubSeq(c.inbuf, j + 1, Len(c.inbuf)),
         d.nxt = c.nxt, d.ended = c.ended
  PROVE  /\ Contiguous(d) /\ LastOf(d) = LastOf(c) - j
         /\ \A n \in 1..LastOf(d) : ByteAt(d, n) = ByteAt(c, n + j)
<1>1. c.inbuf \in Seq(Byte) /\ Len(c.inbuf) \in Nat
  BY LenProperties DEF Conn
<1>2. /\ Len(d.inbuf) = Len(c.inbuf) - j
      /\ \A n \in 1..Len(d.inbuf) : d.inbuf[n] = c.inbuf[n + j]
  BY <1>1, RestOfSeq
<1>3. j \in Nat /\ Len(d.inbuf) \in Nat
  BY <1>1, <1>2
<1>4. LastOf(d) = LastOf(c) - j /\ LastOf(d) + j <= LastOf(c) /\ LastOf(d) \in Nat
  <2>1. PICK n \in Nat : n = Len(c.inbuf)
    BY <1>1
  <2>2. PICK m \in Nat : m = Len(d.inbuf)
    BY <1>3
  <2>3. m = n - j
    BY <1>2, <2>1, <2>2
  <2>4. CASE c.ended
    <3>1. LastOf(c) = n /\ LastOf(d) = m
      BY <2>1, <2>2, <2>4 DEF LastOf
    <3> QED
      BY <2>3, <3>1
  <2>5. CASE ~c.ended
    <3>1. LastOf(c) = n + 1 /\ LastOf(d) = m + 1
      BY <2>1, <2>2, <2>5 DEF LastOf
    <3> QED
      BY <2>3, <3>1
  <2> QED
    BY <2>4, <2>5
<1>5. ASSUME NEW n \in 1..LastOf(d) PROVE ByteAt(d, n) = ByteAt(c, n + j)
  <2>1. n \in Nat \ {0} /\ (n <= Len(d.inbuf) <=> n + j <= Len(c.inbuf))
    BY <1>2, <1>3, <1>4
  <2>2. CASE n <= Len(d.inbuf)
    <3>1. n \in 1..Len(d.inbuf)
      BY <2>1, <2>2
    <3> QED
      BY <1>2, <2>1, <2>2, <3>1 DEF ByteAt
  <2>3. CASE ~(n <= Len(d.inbuf))
    BY <2>1, <2>3 DEF ByteAt
  <2> QED
    BY <2>2, <2>3
<1> QED
  BY <1>3, <1>4, <1>5, PartContiguous

\* The peer ends the connection, and what the stack keeps are the first bytes.
LEMMA BytesCut ==
  ASSUME NEW c \in Conn, Contiguous(c), NEW j \in 0..Len(c.inbuf),
         NEW d \in Conn,
         d = [c EXCEPT !.ended = TRUE, !.inbuf = SubSeq(c.inbuf, 1, j)]
  PROVE  /\ Contiguous(d) /\ LastOf(d) <= LastOf(c)
         /\ LastOf(d) >= 1 => ByteAt(d, 1) = ByteAt(c, 1)
<1>1. /\ c.inbuf \in Seq(Byte) /\ Len(c.inbuf) \in Nat
      /\ d.inbuf = SubSeq(c.inbuf, 1, j) /\ d.ended = TRUE
  BY LenProperties DEF Conn
<1>2. Len(d.inbuf) = j /\ \A n \in 1..j : d.inbuf[n] = c.inbuf[n]
  <2>1. \A n \in 1..j : c.inbuf[n] \in Byte
    BY <1>1, ElementOfSeq
  <2>2. /\ Len(SubSeq(c.inbuf, 1, j)) = j
        /\ \A n \in 1..j : SubSeq(c.inbuf, 1, j)[n] = c.inbuf[n]
    BY <1>1, <2>1, SubSeqProperties
  <2> QED
    BY <1>1, <2>2
<1>3. LastOf(d) = j
  BY <1>1, <1>2 DEF LastOf
<1>4. \A n \in 1..LastOf(d) : ByteAt(d, n) = ByteAt(c, n) /\ n + 0 = n
  BY <1>1, <1>2, <1>3 DEF ByteAt
<1>5. LastOf(c) \in Nat /\ Len(c.inbuf) <= LastOf(c)
  BY BytesOf
<1>6. Contiguous(d)
  BY <1>3, <1>4, <1>5, PartContiguous
<1> QED
  BY <1>3, <1>4, <1>5, <1>6

\* Distances to the byte sent, and to the one after it.
LEMMA NextDistant ==
  ASSUME NEW b \in Byte, NEW e \in Byte, NEW at \in Byte, NEW then \in Byte,
         NEW k \in Nat \ {0}, Distant(b, e, k),
         at.pkt = e.pkt, at.off = e.off, e.off # 0 => at.len = e.len,
         IF at.off + 1 = pkt2_hdr_len + at.len
           THEN then.pkt = at.pkt + 1 /\ then.off = 0
           ELSE /\ then.pkt = at.pkt /\ then.off = at.off + 1
                /\ then.len = at.len
  PROVE  Distant(b, at, k) /\ Distant(b, then, k + 1)
<1>1. /\ b.off \in Nat /\ b.len \in Nat /\ b.pkt \in Nat
      /\ e.off \in Nat /\ e.len \in Nat /\ e.pkt \in Nat
      /\ at.off \in Nat /\ at.len \in Nat /\ at.pkt \in Nat
  BY DEF Byte
<1>2. Distant(b, at, k)
  BY <1>1, SizeAssumption DEF Distant
<1>3. CASE b.off + k < pkt2_hdr_len + b.len
  <2>1. at.pkt = b.pkt /\ at.off = b.off + k /\ at.len = b.len
    BY <1>2, <1>3 DEF Distant
  <2> QED
    BY <1>1, <1>2, <1>3, <2>1, SizeAssumption DEF Distant
<1>4. CASE ~(b.off + k < pkt2_hdr_len + b.len)
  BY <1>1, <1>2, <1>4, SizeAssumption DEF Distant
<1> QED
  BY <1>3, <1>4

\* The peer sends its next byte: at the start of a packet it chooses a length.
LEMMA ByteSent ==
  ASSUME NEW c \in Conn, Contiguous(c), ~c.ended, NEW at \in Byte,
         at.pkt = c.nxt.pkt, at.off = c.nxt.off,
         c.nxt.off # 0 => at.len = c.nxt.len,
         at.off < pkt2_hdr_len + at.len,
         NEW then \in Byte,
         IF at.off + 1 = pkt2_hdr_len + at.len
           THEN then = [pkt |-> at.pkt + 1, off |-> 0, len |-> 0]
           ELSE then = [pkt |-> at.pkt, off |-> at.off + 1, len |-> at.len],
         NEW d \in Conn,
         d = [c EXCEPT !.inbuf = Append(c.inbuf, at), !.nxt = then]
  PROVE  /\ Contiguous(d) /\ LastOf(d) = LastOf(c) + 1 /\ LastOf(c) >= 1
         /\ ByteAt(d, 1).pkt = ByteAt(c, 1).pkt
         /\ ByteAt(d, 1).off = ByteAt(c, 1).off
         /\ ByteAt(c, 1).off # 0 => ByteAt(d, 1).len = ByteAt(c, 1).len
<1> DEFINE N == Len(c.inbuf)
<1>1. /\ c.inbuf \in Seq(Byte) /\ N \in Nat
      /\ d.inbuf = Append(c.inbuf, at) /\ d.nxt = then /\ d.ended = FALSE
  BY LenProperties DEF Conn
<1>2. /\ Len(d.inbuf) = N + 1 /\ d.inbuf[N + 1] = at
      /\ \A n \in 1..N : d.inbuf[n] = c.inbuf[n]
  BY <1>1, AppendProperties
<1>3. LastOf(c) = N + 1 /\ LastOf(d) = N + 2
  BY <1>1, <1>2 DEF LastOf
<1>4. /\ \A n \in 1..N : ByteAt(d, n) = ByteAt(c, n) /\ ByteAt(c, n) \in Byte
      /\ ByteAt(d, N + 1) = at /\ ByteAt(d, N + 2) = then
      /\ ByteAt(c, N + 1) = c.nxt /\ c.nxt \in Byte
  <2>1. \A n \in 1..N : ByteAt(c, n) \in Byte
    BY <1>1, <1>3, BytesOf
  <2> QED
    BY <1>1, <1>2, <2>1 DEF ByteAt, Conn
<1>5. Contiguous(d)
  <2>1. /\ at.off \in Nat /\ at.len \in Nat /\ at.pkt \in Nat
        /\ then.off < pkt2_hdr_len + then.len
        /\ IF at.off + 1 = pkt2_hdr_len + at.len
             THEN then.pkt = at.pkt + 1 /\ then.off = 0
             ELSE /\ then.pkt = at.pkt /\ then.off = at.off + 1
                  /\ then.len = at.len
    BY SizeAssumption DEF Byte
  <2>2. ASSUME NEW m \in 1..N + 2
        PROVE  ByteAt(d, m).off < pkt2_hdr_len + ByteAt(d, m).len
    <3>1. m \in 1..N \/ m = N + 1 \/ m = N + 2
      BY <1>1
    <3>2. m \in 1..N => m \in 1..LastOf(c)
      BY <1>1, <1>3
    <3> QED
      BY <1>4, <2>1, <3>1, <3>2 DEF Contiguous
  <2>3. ASSUME NEW m \in 1..N
        PROVE  /\ Distant(ByteAt(d, m), at, N + 1 - m)
               /\ Distant(ByteAt(d, m), then, N + 2 - m)
    <3>1. m \in 1..LastOf(c) /\ N + 1 \in 1..LastOf(c) /\ m <= N + 1
      BY <1>1, <1>3
    <3>2. Distant(ByteAt(c, m), ByteAt(c, N + 1), N + 1 - m)
      BY <3>1 DEF Contiguous
    <3>3. /\ ByteAt(d, m) = ByteAt(c, m) /\ ByteAt(d, m) \in Byte
          /\ c.nxt \in Byte /\ ByteAt(c, N + 1) = c.nxt
      BY <1>4
    <3>4. N + 1 - m \in Nat \ {0} /\ N + 2 - m = (N + 1 - m) + 1
      BY <1>1
    <3>5. Distant(ByteAt(d, m), c.nxt, N + 1 - m)
      BY <3>2, <3>3
    <3> HIDE DEF N
    <3> QED
      BY <2>1, <3>3, <3>4, <3>5, NextDistant
  <2>4. /\ Distant(at, at, 0) /\ Distant(at, then, 1) /\ Distant(then, then, 0)
    BY <2>1, SizeAssumption DEF Distant, Byte
  <2>5. \A m \in 1..N : Distant(ByteAt(d, m), ByteAt(d, m), 0)
    <3>1. \A m \in 1..N : m \in 1..LastOf(c) /\ m - m = 0
      BY <1>1, <1>3
    <3> QED
      BY <1>4, <3>1 DEF Contiguous
  <2>6. ASSUME NEW m \in 1..N + 2, NEW n \in 1..N + 2, m <= n
        PROVE  Distant(ByteAt(d, m), ByteAt(d, n), n - m)
    <3>1. CASE n \in 1..N
      <4>1. m \in 1..N /\ m \in 1..LastOf(c) /\ n \in 1..LastOf(c)
        BY <1>1, <1>3, <2>6, <3>1
      <4> QED
        BY <1>4, <2>6, <3>1, <4>1 DEF Contiguous
    <3>2. CASE m \in 1..N /\ n = N + 1
      BY <1>4, <2>3, <3>2
    <3>3. CASE m \in 1..N /\ n = N + 2
      BY <1>4, <2>3, <3>3
    <3>4. CASE m = N + 1 /\ n = N + 1
      BY <1>1, <1>4, <2>4, <3>4
    <3>5. CASE m = N + 1 /\ n = N + 2
      <4>1. n - m = 1
        BY <1>1, <3>5
      <4> QED
        BY <1>4, <2>4, <3>5, <4>1
    <3>6. CASE m = N + 2 /\ n = N + 2
      BY <1>1, <1>4, <2>4, <3>6
    <3>7. /\ n \in 1..N \/ n = N + 1 \/ n = N + 2
          /\ m \in 1..N \/ m = N + 1 \/ m = N + 2
          /\ n = N + 1 => m # N + 2
      BY <1>1, <2>6
    <3> QED
      BY <3>1, <3>2, <3>3, <3>4, <3>5, <3>6, <3>7
  <2> QED
    BY <1>3, <2>2, <2>6 DEF Contiguous
<1>6. CASE N = 0
  BY <1>1, <1>3, <1>4, <1>5, <1>6
<1>7. CASE N # 0
  <2>1. 1 \in 1..N
    BY <1>1, <1>7
  <2> QED
    BY <1>1, <1>3, <1>4, <1>5, <2>1
<1> QED
  BY <1>6, <1>7

-----------------------------------------------------------------------------
(* What a client's handler does to its packet.                             *)

Connection(i) == conn[sock[i].fd]

\* A handler that reads, with its frame or a new one, is in its packet.
LEMMA PacketBegun ==
  ASSUME TypeOK, Clients, NEW i \in Slots, Reading(i)
  PROVE  /\ Filled(OldFb(i), OldHdr(i), Connection(i), Packet(i))
         /\ Connection(i) \in Conn /\ Packet(i) \in Nat /\ sock[i].fd \in Peers
<1>1. sock[i].fd \in Peers /\ sock[i].fd # NoFd
  BY FrameTaken, FdAssumption
<1>2. Connection(i) \in Conn /\ handed[sock[i].fd] \in Seq(Seq(Byte))
  BY <1>1 DEF TypeOK, Connection
<1>3. Packet(i) \in Nat
  BY <1>2, LenProperties DEF Packet
<1>4. Client(i)
  BY <1>1 DEF Clients
<1>5. CASE frm[i] # NoFrm
  BY <1>1, <1>2, <1>3, <1>4, <1>5 DEF Client, OldFb, OldHdr, Connection
<1>6. CASE frm[i] = NoFrm
  <2>1. /\ OldHdr(i) = 0 /\ OldFb(i).data = <<>> /\ Len(<<>>) = 0
        /\ ReadsAt(Connection(i), Packet(i), 0)
    BY <1>4, <1>6, EmptySeq DEF OldHdr, OldFb, Cleared, Client, Connection
  <2>2. Filled(OldFb(i), OldHdr(i), Connection(i), Packet(i))
    BY <2>1, SizeAssumption DEF Filled
  <2> QED
    BY <1>1, <1>2, <1>3, <2>2
<1> QED
  BY <1>5, <1>6

\* The first read stays in the packet's header, and once the header is whole
\* what follows is the rest of the payload it announces.
LEMMA HeaderRead ==
  ASSUME TypeOK, Streams, Clients, NEW i \in Slots, Reading(i),
         NEW n \in Nat, n = HdrTake(i) + 1
  PROVE  /\ ~HdrDone(i) =>
              /\ MidFb(i).data = <<>>
              /\ n <= LastOf(Connection(i)) =>
                   /\ ByteAt(Connection(i), n).pkt = Packet(i)
                   /\ ByteAt(Connection(i), n).off = HdrNow(i)
         /\ HdrDone(i) /\ ~BadLen(i) =>
              /\ MidFb(i).lmt \in 1..frm_req_sz
              /\ Len(MidFb(i).data) < MidFb(i).lmt
              /\ Begins(MidFb(i).data, Packet(i), MidFb(i).lmt)
              /\ n <= LastOf(Connection(i)) =>
                   ByteAt(Connection(i), n) =
                     [pkt |-> Packet(i), len |-> MidFb(i).lmt,
                      off |-> pkt2_hdr_len + Len(MidFb(i).data)]
<1> DEFINE c == Connection(i)
           k == Packet(i)
           t == HdrTake(i)
           L == pkt2_hdr_len
<1>1. /\ c \in Conn /\ k \in Nat /\ sock[i].fd \in Peers
      /\ Filled(OldFb(i), OldHdr(i), c, k)
  BY PacketBegun
<1>2. /\ LastOf(c) \in Nat /\ Len(c.inbuf) \in Nat /\ Len(c.inbuf) <= LastOf(c)
      /\ \A m \in 1..LastOf(c) : ByteAt(c, m) \in Byte
  BY <1>1, BytesOf
<1>3. Contiguous(c) /\ Input(i) = c.inbuf
  BY <1>1 DEF Streams, Connection, Input
<1>4. /\ t \in 0..Len(c.inbuf) /\ OldHdr(i) \in 0..L /\ HdrNow(i) = OldHdr(i) + t
      /\ HdrNow(i) \in 0..L /\ L \in Nat \ {0} /\ frm_req_sz \in Nat
  BY <1>3, FrameTaken, ReadsBounded, SizeAssumption DEF HdrNow
<1>5. OldFb(i) \in FrameBuf /\ MidFb(i) \in FrameBuf
  BY FrameTaken, ReadsBounded
<1>6. CASE OldHdr(i) = L
  <2>1. t = 0 /\ HdrDone(i) /\ ~HdrJustDone(i) /\ MidFb(i) = OldFb(i)
    BY <1>4, <1>6 DEF HdrDone, HdrJustDone, MidFb
  <2>2. n <= LastOf(c) => ByteAt(c, n) \in Byte
    BY <1>2, <2>1
  <2> HIDE DEF c, k, t, L
  <2>3. /\ OldFb(i).lmt \in 1..frm_req_sz
        /\ Len(OldFb(i).data) < OldFb(i).lmt
        /\ Begins(OldFb(i).data, k, OldFb(i).lmt)
        /\ n <= LastOf(c) => /\ ByteAt(c, n).len = OldFb(i).lmt
                             /\ ByteAt(c, n).pkt = k
                             /\ ByteAt(c, n).off = L + Len(OldFb(i).data)
    BY <1>1, <1>4, <1>6, <2>1 DEF Filled, ReadsAt, L, t
  <2>4. n <= LastOf(c) =>
          ByteAt(c, n) = [pkt |-> k, len |-> OldFb(i).lmt,
                          off |-> L + Len(OldFb(i).data)]
    BY <2>2, <2>3 DEF Byte
  <2> QED
    BY <2>1, <2>3, <2>4 DEF c, k, L
<1>7. CASE OldHdr(i) < L /\ t = 0
  <2>1. ~HdrDone(i) /\ MidFb(i) = OldFb(i) /\ n = 1 /\ HdrNow(i) = OldHdr(i)
    BY <1>4, <1>7 DEF HdrDone, HdrJustDone, MidFb
  <2>2. OldFb(i).data = <<>> /\ Len(<<>>) = 0 /\ OldHdr(i) + 0 = OldHdr(i)
    BY <1>1, <1>4, <1>7, EmptySeq DEF Filled
  <2> QED
    BY <1>1, <1>2, <2>1, <2>2 DEF Filled, ReadsAt
<1>8. CASE OldHdr(i) < L /\ t >= 1
  <2> HIDE DEF c, k, t, L
  <2> DEFINE b == ByteAt(c, 1)
  <2>1. OldFb(i).data = <<>> /\ Len(<<>>) = 0 /\ OldHdr(i) + 0 = OldHdr(i)
    BY <1>1, <1>4, <1>8, EmptySeq DEF Filled, L
  <2>2. /\ 1 \in 1..LastOf(c) /\ t \in 1..LastOf(c)
        /\ n <= LastOf(c) => n \in 1..LastOf(c)
    BY <1>2, <1>4, <1>8 DEF t
  <2>3. b \in Byte /\ b.pkt = k /\ b.off = OldHdr(i)
    BY <1>1, <1>2, <2>1, <2>2 DEF Filled, ReadsAt
  <2>4. /\ Distant(b, ByteAt(c, t), t - 1)
        /\ n <= LastOf(c) => Distant(b, ByteAt(c, n), n - 1)
        /\ n - 1 = t
    BY <1>3, <1>4, <1>8, <2>2 DEF Contiguous, t
  <2>5. n <= LastOf(c) => ByteAt(c, n) \in Byte
    BY <1>2, <2>2
  <2> HIDE DEF b
  <2>6. b.pkt \in Nat /\ b.off \in Nat /\ b.len \in Nat
    BY <2>3 DEF Byte
  <2>7. ASSUME ~HdrDone(i)
        PROVE  /\ MidFb(i).data = <<>>
               /\ n <= LastOf(c) => /\ ByteAt(c, n).pkt = k
                                    /\ ByteAt(c, n).off = HdrNow(i)
    <3>1. MidFb(i) = OldFb(i)
      BY <2>7 DEF HdrJustDone, MidFb
    <3>2. OldHdr(i) + t < L
      BY <1>4, <2>7 DEF HdrDone, L
    <3> QED
      BY <1>4, <2>1, <2>3, <2>4, <2>6, <3>1, <3>2 DEF Distant, L
  <2>8. ASSUME HdrDone(i), ~BadLen(i)
        PROVE  /\ MidFb(i).lmt \in 1..frm_req_sz
               /\ Len(MidFb(i).data) < MidFb(i).lmt
               /\ Begins(MidFb(i).data, k, MidFb(i).lmt)
               /\ n <= LastOf(c) =>
                    ByteAt(c, n) = [pkt |-> k, len |-> MidFb(i).lmt,
                                    off |-> L + Len(MidFb(i).data)]
    <3>1. OldHdr(i) + t = L /\ HdrJustDone(i) /\ ~TooLong(i)
      BY <1>4, <1>8, <2>8 DEF HdrDone, HdrJustDone, BadLen, L
    <3>2. MidFb(i) = [lmt |-> StatedLen(i), data |-> <<>>]
      BY <3>1 DEF MidFb
    <3>3. StatedLen(i) = ByteAt(c, t).len
      BY <1>3, <1>4, <1>8 DEF StatedLen, ByteAt, t
    <3>4. ByteAt(c, t).len = b.len
      BY <1>4, <2>3, <2>4, <2>6, <3>1 DEF Distant, L
    <3>5. b.len # 0 /\ b.len <= frm_req_sz
      BY <1>4, <2>6, <2>8, <3>1, <3>2, <3>3, <3>4 DEF BadLen, TooLong
    <3>6. n <= LastOf(c) => /\ ByteAt(c, n).pkt = k /\ ByteAt(c, n).off = L
                            /\ ByteAt(c, n).len = b.len
      BY <1>4, <2>3, <2>4, <2>6, <3>1, <3>5 DEF Distant, L
    <3>7. MidFb(i).lmt = b.len /\ MidFb(i).data = <<>>
      BY <3>2, <3>3, <3>4
    <3>8. Begins(MidFb(i).data, k, MidFb(i).lmt) /\ Len(MidFb(i).data) = 0
      BY <2>1, <3>7 DEF Begins
    <3>9. n <= LastOf(c) =>
            ByteAt(c, n) = [pkt |-> k, len |-> b.len, off |-> L]
      BY <2>5, <3>6 DEF Byte
    <3> QED
      BY <1>4, <2>6, <3>5, <3>7, <3>8, <3>9
  <2> QED
    BY <2>7, <2>8 DEF c, k, L
<1> QED
  BY <1>4, <1>6, <1>7, <1>8

\* What a reading handler leaves of its connection's bytes.
Rest(i) ==
  [Connection(i) EXCEPT !.inbuf =
     SubSeq(Input(i), HdrTake(i) + PldTake(i) + 1, Len(Input(i)))]

LEMMA RestOf ==
  ASSUME TypeOK, Streams, NEW i \in Slots, Reading(i)
  PROVE  /\ Rest(i) \in Conn /\ Contiguous(Rest(i))
         /\ HdrTake(i) \in Nat /\ PldTake(i) \in Nat
         /\ LastOf(Rest(i)) = LastOf(Connection(i)) - (HdrTake(i) + PldTake(i))
         /\ LastOf(Rest(i)) >= 1 =>
              ByteAt(Rest(i), 1) =
                ByteAt(Connection(i), HdrTake(i) + PldTake(i) + 1)
<1> DEFINE c == Connection(i)
           j == HdrTake(i) + PldTake(i)
<1>1. /\ sock[i].fd \in Peers /\ Input(i) \in Seq(Byte) /\ Len(Input(i)) \in Nat
      /\ HdrTake(i) \in 0..Len(Input(i))
      /\ PldTake(i) \in 0..(Len(Input(i)) - HdrTake(i))
  BY FrameTaken, ReadsBounded, LenProperties
<1>2. c \in Conn /\ Contiguous(c) /\ Input(i) = c.inbuf
  BY <1>1 DEF TypeOK, Connection, Streams, Input
<1>3. j \in 0..Len(c.inbuf) /\ HdrTake(i) \in Nat /\ PldTake(i) \in Nat
  BY <1>1, <1>2
<1>4. Rest(i) = [c EXCEPT !.inbuf = SubSeq(c.inbuf, j + 1, Len(c.inbuf))]
  BY <1>2 DEF Rest
<1>5. SubSeq(c.inbuf, j + 1, Len(c.inbuf)) \in Seq(Byte)
  BY <1>1, <1>2, <1>3, ElementOfSeq, SubSeqProperties
<1> HIDE DEF c, j
<1>6. Rest(i) \in Conn
  BY <1>2, <1>4, <1>5 DEF Conn
<1>7. /\ Contiguous(Rest(i)) /\ LastOf(Rest(i)) = LastOf(c) - j
      /\ \A n \in 1..LastOf(Rest(i)) : ByteAt(Rest(i), n) = ByteAt(c, n + j)
  <2>1. /\ Rest(i).inbuf = SubSeq(c.inbuf, j + 1, Len(c.inbuf))
        /\ Rest(i).nxt = c.nxt /\ Rest(i).ended = c.ended
    BY <1>2, <1>4 DEF Conn
  <2> QED
    BY <1>2, <1>3, <1>6, <2>1, BytesConsumed
<1>8. LastOf(Rest(i)) \in Nat /\ j \in Nat
  BY <1>3, <1>6, BytesOf
<1>9. LastOf(Rest(i)) >= 1 => ByteAt(Rest(i), 1) = ByteAt(c, j + 1)
  BY <1>7, <1>8
<1> QED
  BY <1>3, <1>6, <1>7, <1>9 DEF c, j

LEMMA PartOfSeq ==
  ASSUME NEW S, NEW q \in Seq(S), NEW j \in Nat, NEW n \in Nat,
         j + n <= Len(q)
  PROVE  /\ SubSeq(q, j + 1, j + n) \in Seq(S)
         /\ Len(SubSeq(q, j + 1, j + n)) = n
         /\ \A m \in 1..n : SubSeq(q, j + 1, j + n)[m] = q[j + m]
<1>1. Len(q) \in Nat
  BY LenProperties
<1>2. \A m \in j + 1 .. j + n : q[m] \in S
  BY <1>1, ElementOfSeq
<1>3. /\ SubSeq(q, j + 1, j + n) \in Seq(S)
      /\ Len(SubSeq(q, j + 1, j + n)) =
           IF j + 1 <= j + n THEN (j + n) - (j + 1) + 1 ELSE 0
      /\ \A m \in 1..((j + n) - (j + 1) + 1) :
           SubSeq(q, j + 1, j + n)[m] = q[(j + 1) + m - 1]
  BY <1>1, <1>2, SubSeqProperties
<1>4. (j + n) - (j + 1) + 1 = n
  OBVIOUS
<1>5. \A m \in 1..n : (j + 1) + m - 1 = j + m
  OBVIOUS
<1>6. (IF j + 1 <= j + n THEN (j + n) - (j + 1) + 1 ELSE 0) = n
  OBVIOUS
<1>7. Len(SubSeq(q, j + 1, j + n)) = n
  BY <1>3, <1>6
<1> DEFINE u == SubSeq(q, j + 1, j + n)
<1>8. \A m \in 1..n : u[m] = q[(j + 1) + m - 1]
  BY <1>3, <1>4
<1> HIDE DEF u
<1>9. \A m \in 1..n : u[m] = q[j + m]
  BY <1>5, <1>8
<1> QED
  BY <1>3, <1>7, <1>9 DEF u

\* The second read continues the payload, and once it is whole what follows is
\* the next packet.
LEMMA PayloadRead ==
  ASSUME TypeOK, Streams, Clients, NEW i \in Slots, Reading(i),
         HdrDone(i), ~BadLen(i)
  PROVE  /\ NewFb(i).lmt = MidFb(i).lmt /\ NewFb(i).lmt \in 1..frm_req_sz
         /\ Len(NewFb(i).data) <= NewFb(i).lmt
         /\ Begins(NewFb(i).data, Packet(i), NewFb(i).lmt)
         /\ LastOf(Rest(i)) >= 1 =>
              /\ Len(NewFb(i).data) < NewFb(i).lmt =>
                   /\ ByteAt(Rest(i), 1).pkt = Packet(i)
                   /\ ByteAt(Rest(i), 1).off =
                        pkt2_hdr_len + Len(NewFb(i).data)
                   /\ ByteAt(Rest(i), 1).len = NewFb(i).lmt
              /\ Len(NewFb(i).data) = NewFb(i).lmt =>
                   /\ ByteAt(Rest(i), 1).pkt = Packet(i) + 1
                   /\ ByteAt(Rest(i), 1).off = 0
<1> DEFINE c == Connection(i)
           k == Packet(i)
           t == HdrTake(i)
           s == PldTake(i)
           l == MidFb(i).lmt
           M == Len(MidFb(i).data)
           part == SubSeq(Input(i), t + 1, t + s)
           b == ByteAt(c, t + 1)
<1>1. /\ c \in Conn /\ k \in Nat /\ Contiguous(c) /\ Input(i) = c.inbuf
      /\ LastOf(c) \in Nat /\ Len(c.inbuf) \in Nat /\ Len(c.inbuf) <= LastOf(c)
      /\ \A m \in 1..LastOf(c) : ByteAt(c, m) \in Byte
  BY PacketBegun, BytesOf DEF Streams, Connection, Input
<1>2. /\ t \in 0..Len(c.inbuf) /\ s \in 0..(Len(c.inbuf) - t) /\ t + 1 \in Nat
      /\ MidFb(i) \in FrameBuf
  BY <1>1, ReadsBounded
<1>3. /\ l \in 1..frm_req_sz /\ M < l /\ Begins(MidFb(i).data, k, l)
      /\ t + 1 <= LastOf(c) =>
           b = [pkt |-> k, len |-> l, off |-> pkt2_hdr_len + M]
  BY <1>2, HeaderRead
<1>4. s <= l - M /\ M \in Nat /\ MidFb(i).data \in Seq(Byte)
  <2>1. MidFb(i).data \in Seq(Byte) /\ M \in Nat
    BY <1>2, LenProperties DEF FrameBuf
  <2>2. /\ l \in Nat /\ l - M \in Nat /\ Len(Input(i)) \in Nat /\ t \in Nat
    BY <1>1, <1>2, <1>3, <2>1, SizeAssumption
  <2>3. s = Least(l - M, Len(Input(i)) - t)
    BY DEF PldTake
  <2>4. s <= l - M
    BY <2>2, <2>3 DEF Least
  <2> QED
    BY <2>1, <2>4
<1>5. /\ part \in Seq(Byte) /\ Len(part) = s
      /\ \A n \in 1..s : part[n] = ByteAt(c, t + n)
  <2>1. /\ c.inbuf \in Seq(Byte) /\ t \in Nat /\ s \in Nat
        /\ t + s <= Len(c.inbuf)
    BY <1>1, <1>2 DEF Conn
  <2>2. part = SubSeq(c.inbuf, t + 1, t + s)
    BY <1>1
  <2> HIDE DEF part, c, t, s
  <2>3. /\ part \in Seq(Byte) /\ Len(part) = s
        /\ \A n \in 1..s : part[n] = c.inbuf[t + n]
    BY <2>1, <2>2, PartOfSeq
  <2>4. \A n \in 1..s : t + n <= Len(c.inbuf)
    BY <1>1, <2>1
  <2> QED
    BY <2>3, <2>4 DEF ByteAt
<1>6. ASSUME NEW m \in Nat, t + 1 + m <= LastOf(c)
      PROVE  /\ ByteAt(c, t + 1 + m) \in Byte
             /\ M + m < l => ByteAt(c, t + 1 + m) =
                  [pkt |-> k, len |-> l, off |-> pkt2_hdr_len + M + m]
             /\ M + m = l => /\ ByteAt(c, t + 1 + m).pkt = k + 1
                             /\ ByteAt(c, t + 1 + m).off = 0
  <2>1. /\ t + 1 \in 1..LastOf(c) /\ t + 1 + m \in 1..LastOf(c)
        /\ t + 1 <= t + 1 + m /\ (t + 1 + m) - (t + 1) = m
    BY <1>1, <1>2, <1>6
  <2>2. Distant(b, ByteAt(c, t + 1 + m), m) /\ ByteAt(c, t + 1 + m) \in Byte
    BY <1>1, <2>1 DEF Contiguous
  <2>3. b.pkt = k /\ b.len = l /\ b.off = pkt2_hdr_len + M
    BY <1>3, <2>1
  <2> HIDE DEF b, c, k, l, M
  <2>4. M + m < l => /\ ByteAt(c, t + 1 + m).pkt = k
                     /\ ByteAt(c, t + 1 + m).len = l
                     /\ ByteAt(c, t + 1 + m).off = pkt2_hdr_len + M + m
    BY <1>3, <1>4, <2>2, <2>3, SizeAssumption DEF Distant
  <2>5. M + m = l => /\ ByteAt(c, t + 1 + m).pkt = k + 1
                     /\ ByteAt(c, t + 1 + m).off = 0
    BY <1>3, <1>4, <2>2, <2>3, SizeAssumption DEF Distant
  <2> QED
    BY <2>2, <2>4, <2>5 DEF Byte
<1>7. /\ NewFb(i).lmt = l /\ NewFb(i).data = MidFb(i).data \o part
  BY <1>2 DEF NewFb, FrameBuf
<1>8. /\ Len(NewFb(i).data) = M + s
      /\ \A n \in 1..M + s : NewFb(i).data[n] =
           IF n <= M THEN MidFb(i).data[n] ELSE part[n - M]
  BY <1>4, <1>5, <1>7, ConcatProperties
<1>9. /\ t \in Nat /\ s \in Nat /\ l \in Nat /\ M \in Nat
       /\ t + s <= Len(c.inbuf) /\ Len(c.inbuf) <= LastOf(c)
       /\ Len(c.inbuf) \in Nat /\ LastOf(c) \in Nat
  BY <1>1, <1>2, <1>3, <1>4
<1>10. Begins(NewFb(i).data, k, l)
  <2> HIDE DEF c, k, t, s, l, M, part, b
  <2>1. ASSUME NEW n \in 1..M + s
        PROVE  NewFb(i).data[n] = [pkt |-> k, off |-> pkt2_hdr_len + n - 1, len |-> l]
    <3>1. CASE n <= M
      BY <1>3, <1>4, <1>8, <3>1 DEF Begins, M
    <3>2. CASE n > M
      <4>1. PICK m \in Nat : n = M + 1 + m
        <5>1. n - (M + 1) \in Nat /\ n = M + 1 + (n - (M + 1))
          BY <1>9, <3>2
        <5> QED
          BY <5>1
      <4>2. /\ M + m < l /\ m + 1 \in 1..s /\ n - M = m + 1
            /\ t + (m + 1) = t + 1 + m /\ t + 1 + m <= LastOf(c)
            /\ pkt2_hdr_len + M + m = pkt2_hdr_len + n - 1
        BY <1>4, <1>9, <4>1, SizeAssumption
      <4>3. NewFb(i).data[n] = ByteAt(c, t + 1 + m)
        BY <1>5, <1>8, <1>9, <3>2, <4>2
      <4>4. ByteAt(c, t + 1 + m) =
              [pkt |-> k, len |-> l, off |-> pkt2_hdr_len + M + m]
        BY <1>6, <4>2
      <4> QED
        BY <4>2, <4>3, <4>4
    <3> QED
      BY <1>4, <3>1, <3>2
  <2> QED
    BY <1>8, <2>1 DEF Begins
<1>11. LastOf(Rest(i)) >= 1 =>
         /\ t + 1 + s <= LastOf(c) /\ ByteAt(Rest(i), 1) = ByteAt(c, t + 1 + s)
  <2>1. /\ LastOf(Rest(i)) = LastOf(c) - (t + s) /\ t + s + 1 = t + 1 + s
        /\ LastOf(Rest(i)) >= 1 => ByteAt(Rest(i), 1) = ByteAt(c, t + s + 1)
    BY <1>1, <1>2, RestOf
  <2> QED
    BY <1>1, <1>2, <2>1
<1> HIDE DEF c, k, t, s, l, M, part, b
<1>12. Len(NewFb(i).data) <= l
  BY <1>3, <1>4, <1>8, <1>9
<1>13. ASSUME LastOf(Rest(i)) >= 1
       PROVE  /\ M + s < l =>
                   /\ ByteAt(Rest(i), 1).pkt = k
                   /\ ByteAt(Rest(i), 1).off = pkt2_hdr_len + (M + s)
                   /\ ByteAt(Rest(i), 1).len = l
              /\ M + s = l => /\ ByteAt(Rest(i), 1).pkt = k + 1
                              /\ ByteAt(Rest(i), 1).off = 0
  <2>1. pkt2_hdr_len + M + s = pkt2_hdr_len + (M + s)
    BY <1>4, <1>9, SizeAssumption
  <2>2. /\ M + s < l => ByteAt(c, t + 1 + s) =
             [pkt |-> k, len |-> l, off |-> pkt2_hdr_len + M + s]
        /\ M + s = l => /\ ByteAt(c, t + 1 + s).pkt = k + 1
                        /\ ByteAt(c, t + 1 + s).off = 0
    BY <1>6, <1>11, <1>9, <1>13
  <2> QED
    BY <1>11, <1>13, <2>1, <2>2
<1> QED
  BY <1>3, <1>7, <1>8, <1>10, <1>12, <1>13 DEF k, l

\* A handler that waits for more leaves its client in the same packet.
LEMMA PacketContinued ==
  ASSUME TypeOK, Streams, Clients, NEW i \in Slots, Reading(i),
         ~Dropped(i), ~Complete(i)
  PROVE  Filled(NewFb(i), HdrNow(i), Rest(i), Packet(i))
<1>1. HdrNow(i) \in 0..pkt2_hdr_len /\ NewFb(i) \in FrameBuf /\ Rest(i) \in Conn
  BY ReadsBounded, RestOf
<1>2. Len(NewFb(i).data) \in Nat
  BY <1>1, LenProperties DEF FrameBuf
<1>3. CASE HdrDone(i)
  <2>1. ~BadLen(i) /\ HdrNow(i) = pkt2_hdr_len
    BY <1>3 DEF Dropped, HdrDone
  <2>2. Len(NewFb(i).data) # NewFb(i).lmt
    BY <1>3, <2>1 DEF Complete
  <2>3. /\ NewFb(i).lmt \in 1..frm_req_sz /\ Len(NewFb(i).data) < NewFb(i).lmt
        /\ Begins(NewFb(i).data, Packet(i), NewFb(i).lmt)
        /\ LastOf(Rest(i)) >= 1 =>
             /\ ByteAt(Rest(i), 1).pkt = Packet(i)
             /\ ByteAt(Rest(i), 1).off = pkt2_hdr_len + Len(NewFb(i).data)
             /\ ByteAt(Rest(i), 1).len = NewFb(i).lmt
    BY <1>2, <1>3, <2>1, <2>2, PayloadRead, SizeAssumption
  <2> QED
    BY <2>1, <2>3, SizeAssumption DEF Filled, ReadsAt
<1>4. CASE ~HdrDone(i)
  <2>1. PldTake(i) = 0 /\ HdrTake(i) \in Nat
    BY <1>4, RestOf DEF PldTake
  <2>2. HdrTake(i) + 1 \in Nat /\ HdrTake(i) + PldTake(i) + 1 = HdrTake(i) + 1
    BY <2>1
  <2>3. /\ MidFb(i).data = <<>>
        /\ HdrTake(i) + 1 <= LastOf(Connection(i)) =>
             /\ ByteAt(Connection(i), HdrTake(i) + 1).pkt = Packet(i)
             /\ ByteAt(Connection(i), HdrTake(i) + 1).off = HdrNow(i)
    BY <1>4, <2>2, HeaderRead
  <2>4. NewFb(i).data = <<>> /\ Len(<<>>) = 0
    <3>1. /\ Input(i) \in Seq(Byte) /\ HdrTake(i) + 0 <= Len(Input(i))
      BY <2>1, ReadsBounded, LenProperties
    <3>2. /\ SubSeq(Input(i), HdrTake(i) + 1, HdrTake(i) + PldTake(i)) \in Seq(Byte)
          /\ Len(SubSeq(Input(i), HdrTake(i) + 1, HdrTake(i) + PldTake(i))) = 0
      BY <2>1, <3>1, PartOfSeq
    <3>3. SubSeq(Input(i), HdrTake(i) + 1, HdrTake(i) + PldTake(i)) = <<>>
      BY <3>2, EmptySeq
    <3>4. <<>> \o <<>> = <<>>
      BY EmptySeq, ConcatEmptySeq
    <3>5. NewFb(i).data = <<>> \o <<>>
      BY <2>3, <3>3, ReadsBounded DEF NewFb, FrameBuf
    <3> QED
      BY <3>4, <3>5, EmptySeq
  <2>5. /\ LastOf(Rest(i)) = LastOf(Connection(i)) - (HdrTake(i) + PldTake(i))
        /\ LastOf(Connection(i)) \in Nat
    BY RestOf, PacketBegun, BytesOf
  <2>6. LastOf(Rest(i)) >= 1 =>
          /\ ByteAt(Rest(i), 1).pkt = Packet(i)
          /\ ByteAt(Rest(i), 1).off = HdrNow(i)
    BY <2>1, <2>2, <2>3, <2>5, RestOf
  <2>7. HdrNow(i) # pkt2_hdr_len /\ HdrNow(i) + 0 = HdrNow(i)
    BY <1>1, <1>4, SizeAssumption DEF HdrDone
  <2> QED
    BY <2>4, <2>6, <2>7 DEF Filled, ReadsAt
<1> QED
  BY <1>3, <1>4

\* A handler that completes its packet has its whole payload, and its client
\* is at the beginning of the next.
LEMMA PacketCompleted ==
  ASSUME TypeOK, Streams, Clients, NEW i \in Slots, Reading(i), Complete(i)
  PROVE  /\ NewFb(i).lmt \in 1..frm_req_sz
         /\ NewFb(i).data = FS!Payload(Packet(i), NewFb(i).lmt)
         /\ ReadsAt(Rest(i), Packet(i) + 1, 0)
<1> DEFINE l == NewFb(i).lmt
           k == Packet(i)
<1>1. /\ HdrDone(i) /\ ~BadLen(i) /\ Len(NewFb(i).data) = l
      /\ NewFb(i).data \in Seq(Byte)
  BY ReadsBounded DEF Complete, FrameBuf
<1>2. /\ l \in 1..frm_req_sz /\ Begins(NewFb(i).data, k, l)
      /\ ReadsAt(Rest(i), k + 1, 0)
  BY <1>1, PayloadRead DEF ReadsAt
<1>3. NewFb(i).data \in [1..l -> Byte]
  BY <1>1, LenProperties
<1> HIDE DEF l, k
<1>4. \A n \in 1..l : NewFb(i).data[n] =
        [pkt |-> k, off |-> pkt2_hdr_len + n - 1, len |-> l]
  BY <1>1, <1>2 DEF Begins
<1>5. NewFb(i).data =
        [n \in 1..l |-> [pkt |-> k, off |-> pkt2_hdr_len + n - 1, len |-> l]]
  BY <1>3, <1>4
<1> QED
  BY <1>2, <1>5 DEF FS!Payload, l, k

-----------------------------------------------------------------------------
(* Streams and Clients are preserved.                                      *)

LEMMA IdleStream ==
  Contiguous(Idle) /\ ReadsAt(Idle, 1, 0) /\ LastOf(Idle) = 1
<1> DEFINE b == [pkt |-> 1, off |-> 0, len |-> 0]
<1>1. Len(<<>>) = 0
  BY EmptySeq
<1>2. LastOf(Idle) = 1 /\ ByteAt(Idle, 1) = b
  BY <1>1 DEF LastOf, ByteAt, Idle
<1>3. b.off < pkt2_hdr_len + b.len /\ Distant(b, b, 1 - 1)
  BY SizeAssumption DEF Distant
<1>4. b.pkt = 1 /\ b.off = 0
  OBVIOUS
<1> HIDE DEF b
<1>5. \A m \in 1..1 : m = 1
  OBVIOUS
<1> QED
  BY <1>2, <1>3, <1>4, <1>5 DEF Contiguous, ReadsAt

\* One connection changes; the others are as before.
LEMMA OtherStreams ==
  ASSUME Streams, NEW q \in Peers,
         \A p \in Peers : p # q => conn'[p] = conn[p] /\ handed'[p] = handed[p],
         Contiguous(conn'[q]), Fresh(q)'
  PROVE  Streams'
BY DEF Streams, Fresh

LEMMA SlotKept ==
  ASSUME NEW j \in Slots, Client(j),
         sock'[j].fd = sock[j].fd, frm'[j] = frm[j], pkt_lmt'[j] = pkt_lmt[j],
         conn'[sock[j].fd] = conn[sock[j].fd],
         handed'[sock[j].fd] = handed[sock[j].fd],
         frm[j] # NoFrm => fb'[frm[j]] = fb[frm[j]]
  PROVE  Client(j)'
BY DEF Client, Packet

\* The other clients do not notice what a reading handler does.
LEMMA OtherClients ==
  ASSUME TypeOK, FrameOwnedOnce, DescriptorsOwned, Clients,
         NEW i \in Slots, Reading(i),
         \A j \in Slots : j # i => /\ sock'[j].fd = sock[j].fd
                                   /\ frm'[j] = frm[j] /\ pkt_lmt'[j] = pkt_lmt[j],
         \A p \in Peers : p # sock[i].fd =>
                            conn'[p] = conn[p] /\ handed'[p] = handed[p],
         \A f \in Frames : f # CurFrm(i) => fb'[f] = fb[f]
  PROVE  \A j \in Slots : j # i /\ sock'[j].fd # NoFd => Client(j)'
<1> SUFFICES ASSUME NEW j \in Slots, j # i, sock'[j].fd # NoFd
             PROVE  Client(j)'
  OBVIOUS
<1>1. sock[j].fd \in Peers /\ sock[j].fd # sock[i].fd /\ sock[j].fd # NoFd
  BY DEF TypeOK, Sock, DescriptorsOwned
<1>2. ASSUME frm[j] # NoFrm PROVE frm[j] \in Frames /\ frm[j] # CurFrm(i)
  <2>1. frm[j] \in Frames /\ frm[j] \notin Range(Returned(i))
    BY <1>2, FrameMoved DEF TypeOK
  <2>2. CurFrm(i) \in Range(Returned(i))
    BY FrameMoved
  <2> QED
    BY <2>1, <2>2
<1>3. Client(j)
  BY <1>1 DEF Clients
<1> QED
  BY <1>1, <1>2, <1>3, SlotKept

LEMMA FramingInit == Init => Streams /\ Clients
<1> SUFFICES ASSUME Init PROVE Streams /\ Clients
  OBVIOUS
<1>1. \A p \in Peers : conn[p] = Idle /\ handed[p] = <<>>
  BY DEF Init
<1>2. \A i \in Slots : sock[i].fd = NoFd
  BY DEF Init
<1> QED
  BY <1>1, <1>2, IdleStream DEF Streams, Fresh, Clients

LEMMA FramingClosed ==
  ASSUME TypeOK, CloseAll
  PROVE  Streams' /\ Clients'
<1>1. \A p \in Peers : conn'[p] = Idle /\ handed'[p] = <<>>
  BY DEF CloseAll
<1>2. \A i \in Slots : sock'[i].fd = NoFd
  BY DEF CloseAll, TypeOK, Sock
<1> QED
  BY <1>1, <1>2, IdleStream DEF Streams, Fresh, Clients

\* Steps that move no byte, no frame and no descriptor.
LEMMA FramingKept ==
  ASSUME Streams, Clients, \A i \in Slots : sock'[i].fd = sock[i].fd,
         UNCHANGED <<frm, pkt_lmt, fb, conn, handed>>
  PROVE  Streams' /\ Clients'
<1>1. Streams'
  BY DEF Streams, Fresh
<1>2. Clients'
  BY SlotKept DEF Clients
<1> QED
  BY <1>1, <1>2

LEMMA SlotTypes ==
  ASSUME TypeOK
  PROVE  \A j \in Slots : sock[j].fd \in Peers \cup {NoFd}
BY DEF TypeOK, Sock

\* The first of the backlog is accepted into a free slot.
LEMMA FramingAccepted ==
  ASSUME TypeOK, DescriptorsOwned, Streams, Clients, SvcAccept
  PROVE  Streams' /\ Clients'
<1>0. PICK q \in Peers : q = Head(backlog)
  BY BacklogHead DEF SvcAccept
<1> DEFINE d == [conn[q] EXCEPT !.st = "open"]
<1>1. PICK i \in Slots : FirstFree(i) /\ ClnReset(i, q)
  BY <1>0 DEF SvcAccept
<1>2. /\ conn[q].st = "backlog" /\ conn[q] \in Conn /\ d \in Conn
      /\ \A j \in Slots : sock[j].fd # q
  BY <1>0, BacklogHead DEF SvcAccept, TypeOK, Conn
<1>3. Contiguous(conn[q]) /\ Fresh(q)
  BY <1>2 DEF Streams
<1>4. LastOf(d) = LastOf(conn[q]) /\ \A n : ByteAt(d, n) = ByteAt(conn[q], n)
  BY <1>2 DEF Conn, LastOf, ByteAt
<1>5. Contiguous(d) /\ ReadsAt(d, 1, 0) /\ handed[q] = <<>> /\ d.st = "open"
  BY <1>2, <1>3, <1>4 DEF Contiguous, ReadsAt, Fresh, Conn
<1>6. conn' = [conn EXCEPT ![q] = d] /\ handed' = handed
  BY <1>0, <1>2 DEF SvcAccept, TypeOK
<1> HIDE DEF d
<1>7. conn'[q] = d /\ \A p \in Peers : p # q => conn'[p] = conn[p]
  BY <1>2, <1>6 DEF TypeOK
<1>8. Streams'
  <2>1. Fresh(q)'
    BY <1>5, <1>7 DEF Fresh
  <2> QED
    BY <1>2, <1>5, <1>6, <1>7, <2>1, OtherStreams
<1>9. /\ sock'[i].fd = q /\ frm'[i] = NoFrm /\ fb' = fb
      /\ \A j \in Slots : j # i => /\ sock'[j] = sock[j] /\ frm'[j] = frm[j]
                                   /\ pkt_lmt'[j] = pkt_lmt[j]
  BY <1>1, <1>2, FdAssumption DEF ClnReset, TypeOK
<1>10. Client(i)'
  <2>1. Len(<<>>) + 1 = 1
    BY EmptySeq
  <2> QED
    BY <1>5, <1>6, <1>7, <1>9, <2>1 DEF Client, Packet
<1>11. ASSUME NEW j \in Slots, j # i, sock'[j].fd # NoFd PROVE Client(j)'
  <2>1. sock[j].fd \in Peers /\ sock[j].fd # q /\ sock[j].fd # NoFd
    BY <1>2, <1>9, <1>11, SlotTypes
  <2> QED
    BY <1>6, <1>7, <1>9, <1>11, <2>1, SlotKept DEF Clients
<1> QED
  BY <1>8, <1>10, <1>11 DEF Clients

\* The first of the backlog is lost; a slot reset meanwhile stays free.
LEMMA FramingLost ==
  ASSUME TypeOK, DescriptorsOwned, Streams, Clients, LoseFirst, fb' = fb,
         \A j \in Slots :
           /\ sock'[j].fd = sock[j].fd
           /\ sock[j].fd # NoFd => frm'[j] = frm[j] /\ pkt_lmt'[j] = pkt_lmt[j]
  PROVE  Streams' /\ Clients'
<1>0. PICK q \in Peers : q = Head(backlog)
  BY BacklogHead DEF LoseFirst
<1>1. conn[q].st = "backlog" /\ \A j \in Slots : sock[j].fd # q
  BY <1>0, BacklogHead DEF LoseFirst
<1>2. conn' = [conn EXCEPT ![q] = Idle] /\ handed' = handed
  BY <1>0 DEF LoseFirst
<1>3. handed[q] = <<>>
  BY <1>1 DEF Streams, Fresh
<1>4. conn'[q] = Idle /\ \A p \in Peers : p # q => conn'[p] = conn[p]
  BY <1>1, <1>2 DEF TypeOK
<1>5. Streams'
  <2>1. Fresh(q)' /\ Contiguous(conn'[q])
    BY <1>2, <1>3, <1>4, IdleStream DEF Fresh
  <2> QED
    BY <1>1, <1>2, <1>4, <2>1, OtherStreams
<1>6. ASSUME NEW j \in Slots, sock'[j].fd # NoFd PROVE Client(j)'
  <2>1. sock[j].fd \in Peers /\ sock[j].fd # q /\ sock[j].fd # NoFd
    BY <1>1, <1>6, SlotTypes
  <2> QED
    BY <1>2, <1>4, <1>6, <2>1, SlotKept DEF Clients
<1> QED
  BY <1>5, <1>6 DEF Clients

\* A handler that keeps its connection takes bytes from it.
LEMMA ConnectionRead ==
  ASSUME TypeOK, Streams, NEW i \in Slots, Reading(i), Rearm(i), Consume(i)
  PROVE  /\ conn'[sock[i].fd] = Rest(i) /\ Rest(i).st = conn[sock[i].fd].st
         /\ \A p \in Peers : p # sock[i].fd => conn'[p] = conn[p]
         /\ \A j \in Slots : sock'[j].fd = sock[j].fd
<1>1. sock[i].fd \in Peers /\ conn[sock[i].fd] \in Conn
  BY FrameTaken DEF TypeOK
<1>2. conn' = [conn EXCEPT ![sock[i].fd] =
                 [@ EXCEPT !.inbuf = SubSeq(Input(i), HdrTake(i) + PldTake(i) + 1,
                                            Len(Input(i)))]]
  BY DEF Consume, Input
<1>3. conn'[sock[i].fd] = Rest(i)
  BY <1>1, <1>2 DEF Rest, Connection, TypeOK
<1>4. Rest(i).st = conn[sock[i].fd].st
  BY <1>1 DEF Rest, Connection, Conn
<1>5. \A j \in Slots : sock'[j].fd = sock[j].fd
  BY DEF Rearm, TypeOK, Sock
<1> QED
  BY <1>1, <1>2, <1>3, <1>4, <1>5 DEF TypeOK

LEMMA FramingWaited ==
  ASSUME TypeOK, FrameOwnedOnce, DescriptorsOwned, Streams, Clients,
         NEW i \in Slots, ClnWait(i)
  PROVE  Streams' /\ Clients'
<1>1. /\ Reading(i) /\ ~Dropped(i) /\ ~Complete(i) /\ Rearm(i) /\ Consume(i)
      /\ handed' = handed
  BY DEF ClnWait
<1>0. PICK p \in Peers : p = sock[i].fd
  BY <1>1, FrameTaken
<1>2. /\ conn'[p] = Rest(i) /\ conn[p].st = "open" /\ Rest(i).st = "open"
      /\ \A q \in Peers : q # p => conn'[q] = conn[q]
      /\ \A j \in Slots : sock'[j].fd = sock[j].fd
  BY <1>0, <1>1, ConnectionRead DEF DescriptorsOwned
<1>3. Streams'
  <2>1. Contiguous(conn'[p]) /\ Fresh(p)'
    BY <1>1, <1>2, RestOf DEF Fresh
  <2> QED
    BY <1>1, <1>2, <2>1, OtherStreams
<1>4. /\ frm'[i] = CurFrm(i) /\ CurFrm(i) # NoFrm /\ pkt_lmt'[i] = HdrNow(i)
      /\ fb'[CurFrm(i)] = NewFb(i)
      /\ \A j \in Slots : j # i => frm'[j] = frm[j] /\ pkt_lmt'[j] = pkt_lmt[j]
      /\ \A f \in Frames : f # CurFrm(i) => fb'[f] = fb[f]
  BY <1>1, FrameTaken, FrameAssumption DEF ClnWait, TypeOK
<1>5. Client(i)'
  <2>1. Filled(NewFb(i), HdrNow(i), Rest(i), Packet(i))
    BY <1>1, PacketContinued
  <2>2. fb'[frm'[i]] = NewFb(i) /\ frm'[i] # NoFrm /\ sock'[i].fd = p
    BY <1>0, <1>2, <1>4
  <2> QED
    BY <1>0, <1>1, <1>2, <1>4, <2>1, <2>2 DEF Client, Packet
<1>6. \A j \in Slots : j # i /\ sock'[j].fd # NoFd => Client(j)'
  BY <1>0, <1>1, <1>2, <1>4, OtherClients
<1> QED
  BY <1>3, <1>5, <1>6 DEF Clients

LEMMA FramingDone ==
  ASSUME TypeOK, FrameOwnedOnce, DescriptorsOwned, Streams, Clients,
         NEW i \in Slots, ClnFrameDone(i)
  PROVE  Streams' /\ Clients'
<1>1. Reading(i) /\ Complete(i) /\ Rearm(i) /\ Consume(i)
  BY DEF ClnFrameDone
<1>0. PICK p \in Peers : p = sock[i].fd
  BY <1>1, FrameTaken
<1>2. /\ conn'[p] = Rest(i) /\ conn[p].st = "open" /\ Rest(i).st = "open"
      /\ \A q \in Peers : q # p => conn'[q] = conn[q]
      /\ \A j \in Slots : sock'[j].fd = sock[j].fd
  BY <1>0, <1>1, ConnectionRead DEF DescriptorsOwned
<1>3. /\ handed'[p] = Append(handed[p], NewFb(i).data)
      /\ \A q \in Peers : q # p => handed'[q] = handed[q]
  BY <1>0 DEF ClnFrameDone, TypeOK
<1>4. Streams'
  <2>1. Contiguous(conn'[p]) /\ Fresh(p)'
    BY <1>1, <1>2, RestOf DEF Fresh
  <2> QED
    BY <1>2, <1>3, <2>1, OtherStreams
<1>5. /\ frm'[i] = NoFrm
      /\ \A j \in Slots : j # i => frm'[j] = frm[j] /\ pkt_lmt'[j] = pkt_lmt[j]
      /\ \A f \in Frames : f # CurFrm(i) => fb'[f] = fb[f]
  BY <1>1, FrameTaken DEF ClnFrameDone, TypeOK
<1>6. Client(i)'
  <2>1. ReadsAt(Rest(i), Packet(i) + 1, 0)
    BY <1>1, PacketCompleted
  <2>2. /\ handed[p] \in Seq(Seq(Byte)) /\ NewFb(i).data \in Seq(Byte)
    BY <1>1, ReadsBounded DEF TypeOK, FrameBuf
  <2>3. Len(handed'[p]) = Len(handed[p]) + 1
    BY <1>3, <2>2, AppendProperties
  <2>4. sock'[i].fd = p
    BY <1>0, <1>2
  <2> QED
    BY <1>0, <1>2, <1>5, <2>1, <2>3, <2>4 DEF Client, Packet
<1>7. \A j \in Slots : j # i /\ sock'[j].fd # NoFd => Client(j)'
  BY <1>0, <1>1, <1>2, <1>3, <1>5, OtherClients
<1> QED
  BY <1>4, <1>6, <1>7 DEF Clients

LEMMA FramingDropped ==
  ASSUME TypeOK, FrameOwnedOnce, DescriptorsOwned, Streams, Clients,
         NEW i \in Slots, ClnDrop(i)
  PROVE  Streams' /\ Clients'
<1>1. Reading(i)
  BY DEF ClnDrop
<1>0. PICK p \in Peers : p = sock[i].fd
  BY <1>1, FrameTaken
<1>2. /\ conn'[p] = Idle /\ handed'[p] = <<>>
      /\ \A q \in Peers : q # p => conn'[q] = conn[q] /\ handed'[q] = handed[q]
  BY <1>0 DEF ClnDrop, TypeOK
<1>3. Streams'
  <2>1. Contiguous(conn'[p]) /\ Fresh(p)'
    BY <1>2, IdleStream DEF Fresh
  <2> QED
    BY <1>2, <2>1, OtherStreams
<1>4. /\ sock'[i].fd = NoFd
      /\ \A j \in Slots : j # i => /\ sock'[j].fd = sock[j].fd /\ frm'[j] = frm[j]
                                   /\ pkt_lmt'[j] = pkt_lmt[j]
  BY DEF ClnDrop, TypeOK, Sock
<1>5. \A f \in Frames : f # CurFrm(i) => fb'[f] = fb[f]
  BY <1>1, FrameTaken DEF ClnDrop, TypeOK
<1>6. \A j \in Slots : j # i /\ sock'[j].fd # NoFd => Client(j)'
  BY <1>0, <1>1, <1>2, <1>4, <1>5, OtherClients
<1> QED
  BY <1>3, <1>4, <1>6 DEF Clients

\* A step of a peer leaves the next byte to be read where it was.
LEMMA FramingFront ==
  ASSUME TypeOK, Streams, Clients, NEW p \in Peers, NEW d \in Conn,
         conn' = [conn EXCEPT ![p] = d],
         UNCHANGED <<sock, frm, pkt_lmt, fb, handed>>,
         Contiguous(d), d.st # "idle",
         d.st # "open" => conn[p].st # "open",
         LastOf(d) >= 1 =>
           /\ LastOf(conn[p]) >= 1
           /\ ByteAt(d, 1).pkt = ByteAt(conn[p], 1).pkt
           /\ ByteAt(d, 1).off = ByteAt(conn[p], 1).off
           /\ ByteAt(conn[p], 1).off # 0 =>
                ByteAt(d, 1).len = ByteAt(conn[p], 1).len
  PROVE  Streams' /\ Clients'
<1>1. conn'[p] = d /\ \A q \in Peers : q # p => conn'[q] = conn[q]
  BY DEF TypeOK
<1>2. \A k, off : ReadsAt(conn[p], k, off) => ReadsAt(d, k, off)
  BY DEF ReadsAt
<1>3. Streams'
  <2>1. Fresh(p)'
    BY <1>1, <1>2 DEF Streams, Fresh
  <2> QED
    BY <1>1, <2>1, OtherStreams
<1>4. ASSUME NEW j \in Slots, sock'[j].fd # NoFd PROVE Client(j)'
  <2>1. sock[j].fd \in Peers /\ Client(j)
    BY <1>4, SlotTypes DEF Clients
  <2>2. CASE sock[j].fd # p
    BY <1>1, <2>1, <2>2, SlotKept
  <2>3. CASE sock[j].fd = p /\ frm[j] = NoFrm
    BY <1>1, <1>2, <2>1, <2>3 DEF Client, Packet
  <2>4. CASE sock[j].fd = p /\ frm[j] # NoFrm
    <3> DEFINE f == fb[frm[j]]
               h == pkt_lmt[j]
               k == Packet(j)
    <3>1. f \in FrameBuf /\ h \in Nat /\ Len(f.data) \in Nat
      <4>1. f \in FrameBuf /\ h \in 0..pkt2_hdr_len
        BY <2>4 DEF TypeOK
      <4>2. Len(f.data) \in Nat
        BY <4>1, LenProperties DEF FrameBuf
      <4> QED
        BY <4>1, <4>2, SizeAssumption
    <3>2. Filled(f, h, conn[p], k)
      BY <2>1, <2>4 DEF Client
    <3> HIDE DEF f, h, k
    <3>3. h = pkt2_hdr_len /\ LastOf(d) >= 1 => ByteAt(d, 1).len = f.lmt
      <4>1. h = pkt2_hdr_len => h + Len(f.data) # 0
        BY <3>1, SizeAssumption
      <4> QED
        BY <3>2, <4>1 DEF Filled, ReadsAt
    <3>4. Filled(f, h, d, k)
      BY <1>2, <3>2, <3>3 DEF Filled
    <3>5. frm'[j] = frm[j] /\ sock'[j].fd = p
      BY <2>4
    <3> QED
      BY <1>1, <2>4, <3>4, <3>5 DEF Client, Packet, f, h, k
  <2> QED
    BY <2>2, <2>3, <2>4
<1> QED
  BY <1>3, <1>4 DEF Clients

\* A length that changes only before its packet has begun leaves the byte in it.
LEMMA StaysInside ==
  ASSUME NEW h \in Nat \ {0}, NEW o \in Nat, NEW m \in Nat, NEW n \in Nat,
         o < h + m, o # 0 => n = m
  PROVE  o < h + n
OBVIOUS

LEMMA FramingEnv ==
  ASSUME TypeOK, TypeOK', Streams, Clients, NEW p \in Peers,
         PeerConnect(p) \/ PeerSend(p) \/ PeerEnd(p)
  PROVE  Streams' /\ Clients'
<1> DEFINE c == conn[p]
<1>1. c \in Conn /\ Contiguous(c) /\ UNCHANGED <<sock, frm, pkt_lmt, fb, handed>>
  BY DEF TypeOK, Streams, PeerConnect, PeerSend, PeerEnd, clnvars
<1>2. CASE PeerConnect(p)
  <2> DEFINE d == [c EXCEPT !.st = "backlog"]
  <2>1. conn' = [conn EXCEPT ![p] = d] /\ c.st = "idle"
    BY <1>2 DEF PeerConnect, TypeOK
  <2>2. /\ d \in Conn /\ d.st = "backlog" /\ LastOf(d) = LastOf(c)
        /\ \A n : ByteAt(d, n) = ByteAt(c, n)
    BY <1>1 DEF Conn, LastOf, ByteAt
  <2> HIDE DEF d
  <2>3. Contiguous(d)
    BY <1>1, <2>2 DEF Contiguous
  <2> QED
    BY <1>1, <2>1, <2>2, <2>3, FramingFront
<1>3. CASE PeerSend(p)
  <2>1. PICK l \in Nat :
          /\ c.nxt.off # 0 => l = c.nxt.len
          /\ LET at == [conn[p].nxt EXCEPT !.len = l]
             IN  conn' = [conn EXCEPT
              ![p].inbuf = Append(@, at),
              ![p].nxt = IF at.off + 1 = pkt2_hdr_len + l
                         THEN [pkt |-> at.pkt + 1, off |-> 0, len |-> 0]
                         ELSE [at EXCEPT !.off = @ + 1]]
    BY <1>1, <1>3, SizeAssumption DEF PeerSend, Byte, Conn
  <2> DEFINE at == [conn[p].nxt EXCEPT !.len = l]
             then == IF at.off + 1 = pkt2_hdr_len + l
                     THEN [pkt |-> at.pkt + 1, off |-> 0, len |-> 0]
                     ELSE [at EXCEPT !.off = @ + 1]
             d == [c EXCEPT !.inbuf = Append(c.inbuf, at), !.nxt = then]
  <2>2. conn' = [conn EXCEPT ![p].inbuf = Append(@, at), ![p].nxt = then]
    BY <2>1
  <2>3. c.nxt \in Byte /\ c.inbuf \in Seq(Byte) /\ c.st # "idle" /\ ~c.ended
    BY <1>1, <1>3 DEF PeerSend, Conn
  <2>4. /\ at \in Byte /\ at.pkt = c.nxt.pkt /\ at.off = c.nxt.off /\ at.len = l
        /\ c.nxt.off # 0 => at.len = c.nxt.len
    BY <2>1, <2>3 DEF Byte
  <2>5. at.off < pkt2_hdr_len + at.len
    <3>1. LastOf(c) \in Nat /\ LastOf(c) = Len(c.inbuf) + 1
      BY <1>1, <2>3, BytesOf DEF LastOf
    <3>2. ByteAt(c, LastOf(c)) = c.nxt /\ LastOf(c) \in 1..LastOf(c)
      BY <2>3, <3>1, LenProperties DEF ByteAt
    <3>3. c.nxt.off < pkt2_hdr_len + c.nxt.len
      BY <1>1, <3>2 DEF Contiguous
    <3>4. /\ c.nxt.off \in Nat /\ c.nxt.len \in Nat /\ at.off = c.nxt.off /\ at.len \in Nat
          /\ c.nxt.off # 0 => at.len = c.nxt.len
      BY <2>3, <2>4 DEF Byte
    <3> HIDE DEF at, then, d
    <3>5. /\ at.off \in Nat /\ at.off < pkt2_hdr_len + c.nxt.len
          /\ at.off # 0 => at.len = c.nxt.len
      BY <3>3, <3>4
    <3>6. pkt2_hdr_len \in Nat \ {0}
      BY SizeAssumption
    <3> QED
      BY <3>4, <3>5, <3>6, StaysInside
  <2> HIDE DEF at
  <2>6. /\ then \in Byte
        /\ IF at.off + 1 = pkt2_hdr_len + at.len
             THEN then = [pkt |-> at.pkt + 1, off |-> 0, len |-> 0]
             ELSE then = [pkt |-> at.pkt, off |-> at.off + 1, len |-> at.len]
    BY <2>4, SizeAssumption DEF Byte
  <2> HIDE DEF then
  <2>7. Append(c.inbuf, at) \in Seq(Byte)
    BY <2>3, <2>4, AppendProperties
  <2>8. d \in Conn /\ d.st = c.st
    BY <1>1, <2>6, <2>7 DEF Conn
  <2>9. conn' = [conn EXCEPT ![p] = d]
    BY <2>2
  <2> HIDE DEF c, d
  <2>10. /\ Contiguous(d) /\ LastOf(d) = LastOf(c) + 1 /\ LastOf(c) >= 1
         /\ ByteAt(d, 1).pkt = ByteAt(c, 1).pkt
         /\ ByteAt(d, 1).off = ByteAt(c, 1).off
         /\ ByteAt(c, 1).off # 0 => ByteAt(d, 1).len = ByteAt(c, 1).len
    BY <1>1, <2>3, <2>4, <2>5, <2>6, <2>8, ByteSent DEF d
  <2> QED
    BY <1>1, <2>3, <2>8, <2>9, <2>10, FramingFront DEF c
<1>4. CASE PeerEnd(p)
  <2>1. PICK n \in 0..Len(conn[p].inbuf) :
          conn' = [conn EXCEPT ![p].ended = TRUE, ![p].inbuf = SubSeq(@, 1, n)]
    BY <1>4 DEF PeerEnd
  <2> DEFINE d == [c EXCEPT !.ended = TRUE, !.inbuf = SubSeq(c.inbuf, 1, n)]
  <2>2. conn' = [conn EXCEPT ![p] = d]
    BY <2>1
  <2>3. d \in Conn /\ d.st = c.st /\ c.st # "idle"
    <3>1. conn'[p] = d /\ conn'[p] \in Conn
      BY <2>2 DEF TypeOK
    <3> QED
      BY <1>1, <1>4, <3>1 DEF PeerEnd, Conn
  <2>4. /\ Contiguous(d) /\ LastOf(d) <= LastOf(c)
        /\ LastOf(d) >= 1 => ByteAt(d, 1) = ByteAt(c, 1)
    BY <1>1, <2>1, <2>3, BytesCut
  <2>5. LastOf(d) \in Nat /\ LastOf(c) \in Nat
    BY <1>1, <2>3, BytesOf
  <2> HIDE DEF d
  <2>6. LastOf(d) >= 1 => LastOf(c) >= 1 /\ ByteAt(d, 1) = ByteAt(c, 1)
    BY <2>4, <2>5
  <2> QED
    BY <1>1, <2>2, <2>3, <2>4, <2>6, FramingFront
<1> QED
  BY <1>2, <1>3, <1>4

LEMMA FramingStep ==
  TypeOK /\ FrameOwnedOnce /\ DescriptorsOwned /\ Streams /\ Clients /\ [Next]_vars
    => Streams' /\ Clients'
<1> SUFFICES ASSUME TypeOK, FrameOwnedOnce, DescriptorsOwned, Streams, Clients,
                    [Next]_vars
             PROVE  Streams' /\ Clients'
  OBVIOUS
<1>0. sock \in [Slots -> Sock]
  BY DEF TypeOK
<1>1. CASE LaunchBlocked \/ Launch
  BY <1>1, FramingClosed DEF LaunchBlocked, Launch
<1>2. CASE SelectOk \/ SelectFail \/ SvcQuiet \/ SvcTimer \/ UNCHANGED vars
  BY <1>2, FramingKept
     DEF SelectOk, SelectFail, SvcQuiet, SvcTimer, clnvars, netvars, vars
<1>3. CASE SvcAccept
  BY <1>3, FramingAccepted
<1>4. CASE SvcReject
  BY <1>4, FramingLost DEF SvcReject, clnvars
<1>5. CASE SvcAcceptFail
  <2>1. PICK i \in Slots : FirstFree(i) /\ ClnReset(i, NoFd)
    BY <1>5 DEF SvcAcceptFail
  <2>2. sock[i].fd = NoFd /\ fb' = fb
    BY <2>1 DEF FirstFree, FreeSlots, ClnReset
  <2>3. \A j \in Slots :
          /\ sock'[j].fd = sock[j].fd
          /\ sock[j].fd # NoFd => frm'[j] = frm[j] /\ pkt_lmt'[j] = pkt_lmt[j]
    BY <1>0, <2>1, <2>2 DEF ClnReset, TypeOK, Sock
  <2> QED
    BY <1>5, <2>2, <2>3, FramingLost DEF SvcAcceptFail
<1>6. ASSUME NEW i \in Slots, Cln(i) PROVE Streams' /\ Clients'
  <2>1. CASE ClnQuiet(i) \/ ClnTimer(i) \/ ClnNoFrame(i)
    <3>1. /\ UNCHANGED <<frm, pkt_lmt, fb, conn, handed>>
          /\ sock' = sock \/ Rearm(i)
      BY <2>1 DEF ClnQuiet, ClnTimer, ClnNoFrame, clnvars, netvars
    <3>2. \A j \in Slots : sock'[j].fd = sock[j].fd
      BY <1>0, <3>1 DEF Rearm, Sock
    <3> QED
      BY <3>1, <3>2, FramingKept
  <2> QED
    BY <1>6, <2>1, FramingWaited, FramingDone, FramingDropped DEF Cln
<1>7. CASE Env
  BY <1>7, NextType, FramingEnv DEF Env
<1> QED
  BY <1>1, <1>2, <1>3, <1>4, <1>5, <1>6, <1>7 DEF Next, Task

LEMMA FramingInvariant == Spec => [](Streams /\ Clients)
<1> QED
  BY FramingStep, FramingInit, TypeCorrect, FramesOwned, NoDescriptorLeak, PTL DEF Spec
-----------------------------------------------------------------------------
(* Framing.                                                                *)

LEMMA ClientsFramed == TypeOK /\ Clients => Framing
<1> SUFFICES ASSUME TypeOK, Clients, NEW i \in Slots, sock[i].fd # NoFd,
                    Ended(i) => Input(i) # <<>>
             PROVE  LET p == sock[i].fd
                        k == Len(handed[p]) + 1
                    IN  /\ Unread(p).pkt = k
                        /\ Unread(p).off =
                             IF frm[i] = NoFrm THEN 0
                             ELSE pkt_lmt[i] + Len(fb[frm[i]].data)
                        /\ frm[i] # NoFrm =>
                             \A n \in DOMAIN fb[frm[i]].data :
                               /\ fb[frm[i]].data[n].pkt = k
                               /\ fb[frm[i]].data[n].off = pkt2_hdr_len + n - 1
  BY DEF Framing
<1> DEFINE p == sock[i].fd
           c == conn[p]
<1>1. p \in Peers /\ c \in Conn /\ c.inbuf \in Seq(Byte) /\ Client(i)
  BY SlotTypes DEF TypeOK, Conn, Clients
<1>2. LastOf(c) >= 1 /\ ByteAt(c, 1) = Unread(p)
  <2>1. Len(c.inbuf) \in Nat /\ (Len(c.inbuf) = 0 <=> c.inbuf = <<>>)
    BY <1>1, LenProperties, EmptySeq
  <2>2. c.inbuf # <<>> => Head(c.inbuf) = c.inbuf[1]
    BY <1>1, HeadTailProperties
  <2> QED
    BY <2>1, <2>2 DEF LastOf, ByteAt, Unread, Ended, Input
<1>3. CASE frm[i] = NoFrm
  BY <1>1, <1>2, <1>3 DEF Client, ReadsAt, Packet
<1>4. CASE frm[i] # NoFrm
  <2> DEFINE f == fb[frm[i]]
  <2>1. /\ f \in FrameBuf /\ pkt_lmt[i] \in 0..pkt2_hdr_len
        /\ Filled(f, pkt_lmt[i], c, Packet(i))
    BY <1>1, <1>4 DEF TypeOK, Client
  <2>2. DOMAIN f.data = 1..Len(f.data)
    BY <2>1, LenProperties DEF FrameBuf
  <2> HIDE DEF f
  <2>3. \A n \in DOMAIN f.data : /\ f.data[n].pkt = Packet(i)
                                 /\ f.data[n].off = pkt2_hdr_len + n - 1
    <3>1. CASE pkt_lmt[i] = pkt2_hdr_len
      <4>1. \A n \in 1..Len(f.data) : f.data[n] =
              [pkt |-> Packet(i), off |-> pkt2_hdr_len + n - 1, len |-> f.lmt]
        BY <2>1, <3>1 DEF Filled, Begins
      <4>2. ASSUME NEW n \in 1..Len(f.data)
            PROVE  /\ f.data[n].pkt = Packet(i)
                   /\ f.data[n].off = pkt2_hdr_len + n - 1
        <5>1. f.data[n] =
                [pkt |-> Packet(i), off |-> pkt2_hdr_len + n - 1, len |-> f.lmt]
          BY <4>1
        <5> QED
          BY <5>1
      <4> QED
        BY <2>2, <4>2
    <3>2. CASE pkt_lmt[i] # pkt2_hdr_len
      <4>1. f.data = <<>>
        BY <2>1, <3>2, SizeAssumption DEF Filled
      <4> QED
        BY <4>1
    <3> QED
      BY <3>1, <3>2
  <2>4. Unread(p).pkt = Packet(i) /\ Unread(p).off = pkt_lmt[i] + Len(f.data)
    BY <1>2, <2>1 DEF Filled, ReadsAt
  <2> QED
    BY <1>4, <2>3, <2>4 DEF f, Packet
<1> QED
  BY <1>3, <1>4

\* Packets are never misframed, for any sizes of headers, frames and reads.
THEOREM PacketsFramed == Spec => []Framing
<1> QED
  BY ClientsFramed, FramingInvariant, TypeCorrect, PTL

-----------------------------------------------------------------------------
(* The refinement of FrameService.                                         *)

\* The peers with an accepted connection: what FrameService calls served.
Served == {sock[i].fd : i \in Slots} \ {NoFd}

\* Steps that accept, complete and drop nothing.
LEMMA ServiceStutters ==
  ASSUME \A i \in Slots : sock'[i].fd = sock[i].fd, handed' = handed
  PROVE  UNCHANGED FS!fsvars
<1>1. {sock'[i].fd : i \in Slots} = {sock[i].fd : i \in Slots}
  OBVIOUS
<1> QED
  BY <1>1 DEF FS!fsvars

\* A free slot leaves room for one more.
LEMMA RoomForOne ==
  ASSUME NEW i \in Slots, sock[i].fd = NoFd
  PROVE  Cardinality(Served) < cln_cnt
<1> DEFINE others == Slots \ {i}
           g == [j \in others |-> sock[j].fd]
           T == {g[j] : j \in others}
<1>1. IsFiniteSet(others) /\ Cardinality(others) = cln_cnt - 1
  <2>1. IsFiniteSet(Slots) /\ Cardinality(Slots) = cln_cnt
    BY SlotAssumption, FS_Interval DEF Slots
  <2> QED
    BY <2>1, FS_RemoveElement
<1>2. IsFiniteSet(T) /\ Cardinality(T) <= Cardinality(others)
  <2>1. g \in Surjection(others, T)
    BY DEF Surjection
  <2> QED
    BY <1>1, <2>1, FS_Surjection
<1>3. Served \subseteq T
  BY DEF Served
<1>4. IsFiniteSet(Served) /\ Cardinality(Served) <= Cardinality(T)
  BY <1>2, <1>3, FS_Subset
<1>5. Cardinality(Served) \in Nat /\ Cardinality(T) \in Nat
  BY <1>2, <1>4, FS_CardinalityType
<1> QED
  BY <1>1, <1>2, <1>4, <1>5, SlotAssumption

LEMMA ServiceInit == Init => FS!Init
<1> SUFFICES ASSUME Init PROVE FS!Init
  OBVIOUS
<1>1. {sock[i].fd : i \in Slots} \ {NoFd} = {}
  BY DEF Init
<1> QED
  BY <1>1 DEF Init, FS!Init

\* Going down drops every connection; the others had handed over nothing.
LEMMA ServiceDown ==
  ASSUME TypeOK, DescriptorsOwned, Streams, CloseAll
  PROVE  \E S \in SUBSET Served : FS!Drop(S)
<1>0. PICK S : S = Served
  OBVIOUS
<1>1. {sock'[i].fd : i \in Slots} \ {NoFd} = {}
  BY DEF CloseAll, TypeOK, Sock
<1>2. handed' = [p \in Peers |-> <<>>]
  BY DEF CloseAll
<1>3. \A p \in Peers : p \notin Served => handed[p] = <<>>
  BY FdAssumption DEF Served, DescriptorsOwned, Streams, Fresh
<1>4. handed' = [p \in Peers |-> IF p \in S THEN <<>> ELSE handed[p]]
  BY <1>0, <1>2, <1>3
<1>5. FS!Drop(S)
  BY <1>0, <1>1, <1>4 DEF FS!Drop, Served
<1> QED
  BY <1>0, <1>5

LEMMA ServiceAccepts ==
  ASSUME TypeOK, DescriptorsOwned, SvcAccept
  PROVE  \E p \in Peers : FS!Accept(p)
<1>0. PICK q \in Peers : q = Head(backlog)
  BY BacklogHead DEF SvcAccept
<1>1. PICK n \in Slots : FirstFree(n) /\ ClnReset(n, q)
  BY <1>0 DEF SvcAccept
<1>2. q \notin Served
  BY <1>0, BacklogHead DEF SvcAccept, Served
<1>3. Cardinality(Served) < cln_cnt
  BY <1>1, RoomForOne DEF FirstFree, FreeSlots
<1>4. \A j \in Slots : sock'[j].fd = IF j = n THEN q ELSE sock[j].fd
  BY <1>1, FdAssumption DEF ClnReset, TypeOK, Sock
<1>5. Served' = Served \cup {q}
  BY <1>1, <1>4, FdAssumption DEF Served, FirstFree, FreeSlots
<1>6. handed' = handed
  BY DEF SvcAccept
<1>7. FS!Accept(q)
  <2>1. q \notin {sock[i].fd : i \in Slots} \ {NoFd}
    BY <1>2 DEF Served
  <2>2. Cardinality({sock[i].fd : i \in Slots} \ {NoFd}) < cln_cnt
    BY <1>3 DEF Served
  <2>3. ({sock[i].fd : i \in Slots} \ {NoFd})' =
          ({sock[i].fd : i \in Slots} \ {NoFd}) \cup {q}
    BY <1>5 DEF Served
  \* The instance has a Cardinality of its own, with the same definition.
  <2>4. FS!Cardinality({sock[i].fd : i \in Slots} \ {NoFd}) < cln_cnt
    BY <2>2 DEF Cardinality, FS!Cardinality
  <2> QED
    BY <1>6, <2>1, <2>3, <2>4 DEF FS!Accept
<1> QED
  BY <1>7

LEMMA ServiceHands ==
  ASSUME TypeOK, DescriptorsOwned, Streams, Clients, NEW i \in Slots,
         ClnFrameDone(i)
  PROVE  \E p \in Peers : FS!Hand(p)
<1>1. /\ Reading(i) /\ Complete(i) /\ Rearm(i) /\ Consume(i)
      /\ handed' = [handed EXCEPT ![sock[i].fd] = Append(@, NewFb(i).data)]
  BY DEF ClnFrameDone
<1>0. PICK p \in Peers : p = sock[i].fd
  BY <1>1, FrameTaken
<1>2. PICK l \in 1..frm_req_sz : NewFb(i).data = FS!Payload(Packet(i), l)
  BY <1>1, PacketCompleted
<1>3. Packet(i) = Len(handed[p]) + 1
  BY <1>0 DEF Packet
<1>4. handed' = [handed EXCEPT ![p] = Append(@, FS!Payload(Len(@) + 1, l))]
  BY <1>0, <1>1, <1>2, <1>3
<1>5. \A j \in Slots : sock'[j].fd = sock[j].fd
  BY <1>1, ConnectionRead
<1>6. {sock'[j].fd : j \in Slots} \ {NoFd} = {sock[j].fd : j \in Slots} \ {NoFd}
  BY <1>5
<1>7. p \in {sock[j].fd : j \in Slots} \ {NoFd}
  BY <1>0, FdAssumption
<1> QED
  BY <1>4, <1>6, <1>7 DEF FS!Hand

LEMMA ServiceDrops ==
  ASSUME TypeOK, DescriptorsOwned, NEW i \in Slots, ClnDrop(i)
  PROVE  \E S \in SUBSET Served : FS!Drop(S)
<1>0. PICK p \in Peers : p = sock[i].fd
  BY FrameTaken DEF ClnDrop
<1>1. {p} \in SUBSET Served
  BY <1>0, FdAssumption DEF Served
<1>2. \A j \in Slots : sock'[j].fd = IF j = i THEN NoFd ELSE sock[j].fd
  BY DEF ClnDrop, TypeOK, Sock
<1>3. {sock'[j].fd : j \in Slots} \ {NoFd} = Served \ {p}
  BY <1>0, <1>2 DEF Served, DescriptorsOwned
<1>4. handed' = [q \in Peers |-> IF q \in {p} THEN <<>> ELSE handed[q]]
  BY <1>0 DEF ClnDrop, TypeOK
<1>5. FS!Drop({p})
  BY <1>3, <1>4 DEF FS!Drop, Served
<1> QED
  BY <1>1, <1>5

LEMMA ServiceStep ==
  TypeOK /\ DescriptorsOwned /\ Streams /\ Clients /\ [Next]_vars
    => [FS!Next]_FS!fsvars
<1> SUFFICES ASSUME TypeOK, DescriptorsOwned, Streams, Clients, [Next]_vars
             PROVE  FS!Next \/ UNCHANGED FS!fsvars
  OBVIOUS
<1>0. sock \in [Slots -> Sock]
  BY DEF TypeOK
<1>1. CASE LaunchBlocked \/ Launch
  <2>1. \E S \in SUBSET Served : FS!Drop(S)
    BY <1>1, ServiceDown DEF LaunchBlocked, Launch
  <2> QED
    BY <2>1 DEF FS!Next, Served
<1>2. CASE \/ SelectOk \/ SelectFail \/ SvcQuiet \/ SvcTimer \/ SvcReject \/ Env
           \/ UNCHANGED vars
  <2>1. sock' = sock /\ handed' = handed
    BY <1>2 DEF SelectOk, SelectFail, SvcQuiet, SvcTimer, SvcReject, LoseFirst,
                Env, PeerConnect, PeerSend, PeerEnd, clnvars, netvars, vars
  <2> QED
    BY <2>1, ServiceStutters
<1>3. CASE SvcAccept
  BY <1>3, ServiceAccepts DEF FS!Next
<1>4. CASE SvcAcceptFail
  <2>1. PICK i \in Slots : FirstFree(i) /\ ClnReset(i, NoFd)
    BY <1>4 DEF SvcAcceptFail
  <2>2. /\ \A j \in Slots : sock'[j].fd = sock[j].fd
        /\ handed' = handed
    BY <1>0, <1>4, <2>1
       DEF FirstFree, FreeSlots, ClnReset, Sock, SvcAcceptFail, LoseFirst
  <2> QED
    BY <2>2, ServiceStutters
<1>5. ASSUME NEW i \in Slots, Cln(i)
      PROVE  FS!Next \/ UNCHANGED FS!fsvars
  <2>1. CASE ClnQuiet(i) \/ ClnTimer(i) \/ ClnNoFrame(i) \/ ClnWait(i)
    <3>1. handed' = handed /\ (sock' = sock \/ Rearm(i))
      BY <2>1 DEF ClnQuiet, ClnTimer, ClnNoFrame, ClnWait, clnvars, netvars
    <3>2. \A j \in Slots : sock'[j].fd = sock[j].fd
      BY <1>0, <3>1 DEF Rearm, Sock
    <3> QED
      BY <3>1, <3>2, ServiceStutters
  <2>2. CASE ClnFrameDone(i)
    BY <2>2, ServiceHands DEF FS!Next
  <2>3. CASE ClnDrop(i)
    BY <2>3, ServiceDrops DEF FS!Next, Served
  <2> QED
    BY <1>5, <2>1, <2>2, <2>3 DEF Cln
<1> QED
  BY <1>1, <1>2, <1>3, <1>4, <1>5 DEF Next, Task

\* The socket service implements FrameService: whatever the interleaving of
\* peers, reads, failures and restarts, each connection's frames are the
\* payloads of its packets, whole and in order, from the first.
THEOREM ServiceImplemented == Spec => Implements
<1> QED
  BY ServiceInit, ServiceStep, FramingInvariant, TypeCorrect, NoDescriptorLeak,
     PTL DEF Spec, Implements, FS!Spec
=============================================================================
