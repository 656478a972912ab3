----------------------------- MODULE MCSpiPipe ------------------------------
(***************************************************************************)
(* SpiPipe for TLC: two producers, three requests (frm_req_cnt of          *)
(* dw_sinsvc2.c) one of which is empty.                                    *)
(***************************************************************************)
EXTENDS SpiPipe, TLC

CONSTANTS r1, r2, r3, a, b

MCReqs == {r1, r2, r3}
MCEmpty == {r3}
MCProducers == {a, b}

\* As built: the socket task alone adds the three frames, none empty.
MCNoReqs == {}
MCOneProducer == {a}

Sym == Permutations({r1, r2}) \cup Permutations(MCProducers)
SymReqs == Permutations(MCReqs)
=============================================================================
