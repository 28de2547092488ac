---------------------------- MODULE SrtpContext -----------------------------
(***************************************************************************)
(* The packet index of an SRTP context of webrtc_srtp.c: the rollover      *)
(* count in front of the sequence number.  Sender and receiver keep one    *)
(* each and never exchange it, so a packet is only understood while both   *)
(* count the same.  Encryption is abstracted to the index it depends on;   *)
(* the authentication tag covers the index, so a receiver that counts      *)
(* otherwise refuses the packet.                                           *)
(***************************************************************************)
EXTENDS Integers, Sequences

CONSTANT SeqMod   \* sequence numbers (2^16)

\* zms_webrtc_srtp_init_send, and the receiver's alike.
FreshContext == [ready |-> FALSE, last |-> 0, roc |-> 0]

\* A bug: any lower number counts as a rollover.
SeqUpdateEager(c, seq) ==
    IF ~c.ready THEN [ready |-> TRUE, last |-> seq, roc |-> 0]
    ELSE [c EXCEPT !.roc = IF seq < c.last THEN @ + 1 ELSE @, !.last = seq]

\* srtp_seq_update: the count moves when the number falls by more than half.
SeqUpdate(c, seq) ==
    IF ~c.ready THEN [ready |-> TRUE, last |-> seq, roc |-> 0]
    ELSE [c EXCEPT !.roc = IF seq < c.last /\ 2 * (c.last - seq) > SeqMod THEN @ + 1 ELSE @,
                   !.last = seq]

\* srtp_index
Index(c, seq) == c.roc * SeqMod + seq

\* zms_webrtc_srtp_protect of a run of packets in their order.
Protected(c, seqs) ==
    LET f[i \in 0..Len(seqs)] == IF i = 0 THEN c ELSE SeqUpdate(f[i - 1], seqs[i])
    IN f[Len(seqs)]

\* zms_webrtc_srtp_unprotect of packet number n: the context moves before
\* the tag is looked at, so even a refused packet leaves its trace.
Unprotected(c, n) == SeqUpdate(c, n % SeqMod)
Understood(c, n) == Index(Unprotected(c, n), n % SeqMod) = n
=============================================================================
