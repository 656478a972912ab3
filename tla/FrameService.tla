---------------------------- MODULE FrameService ----------------------------
(***************************************************************************)
(* What the socket service of main/dw_sinsvc2.c promises to whoever        *)
(* consumes the frames it receives, without saying how it reads sockets:   *)
(* the k-th frame handed over for a connection is the whole payload of the *)
(* k-th packet the peer sent on it, no more than MaxServed peers are       *)
(* served at a time, and nothing is handed over for a peer that is not     *)
(* served.                                                                 *)
(***************************************************************************)
EXTENDS Naturals, Sequences, FiniteSets

CONSTANTS
  Peers,      (* The remote ends that may connect.                          *)
  MaxServed,  (* How many of them are served at a time.                     *)
  HdrLen,     (* Bytes of a packet before its payload.                      *)
  MaxLen      (* The largest payload the service accepts.                   *)

VARIABLES
  served,     (* The peers with an accepted connection.                     *)
  handed      (* The frames handed over on each peer's connection.          *)

fsvars == <<served, handed>>

(***************************************************************************)
(* A byte of a peer's stream is named by the packet it belongs to, its     *)
(* offset in the packet and the payload length the packet's header states. *)
(***************************************************************************)
Byte == [pkt : Nat, off : Nat, len : Nat]

Payload(k, l) == [i \in 1..l |-> [pkt |-> k, off |-> HdrLen + i - 1, len |-> l]]

Accept(p) ==
  /\ p \notin served
  /\ Cardinality(served) < MaxServed
  /\ served' = served \cup {p}
  /\ UNCHANGED handed

Hand(p) ==
  /\ p \in served
  /\ \E l \in 1..MaxLen :
       handed' = [handed EXCEPT ![p] = Append(@, Payload(Len(@) + 1, l))]
  /\ UNCHANGED served

\* Connections end, one or all at once, and a peer starts afresh.
Drop(S) ==
  /\ served' = served \ S
  /\ handed' = [p \in Peers |-> IF p \in S THEN <<>> ELSE handed[p]]

Init ==
  /\ served = {}
  /\ handed = [p \in Peers |-> <<>>]

Next ==
  \/ \E p \in Peers : Accept(p) \/ Hand(p)
  \/ \E S \in SUBSET served : Drop(S)

Spec == Init /\ [][Next]_fsvars
=============================================================================
