------------------------------ MODULE Transfers ------------------------------
(***************************************************************************)
(* reassemble_tp, which puts broadcast messages (J1939 BAM) together again *)
(* from a capture: an announcement names the number of packets to come,    *)
(* then each packet carries its number and a chunk.  Transfers of several  *)
(* sources interleave.  A source may break a transfer off and announce     *)
(* another, the capture may lack any frame, and a source that also talks   *)
(* to one other node sends packets that look the same, for the code does   *)
(* not read whom a packet is for.  A transfer stands for its content.      *)
(***************************************************************************)
EXTENDS Naturals, Sequences, FiniteSets

CONSTANTS
    Sources,        \* source addresses
    Bilingual,      \* those that also hold addressed (RTS/CTS) sessions
    MaxPackets,     \* bound: packets of a transfer
    MaxTransfers    \* bound: transfers of a source

ASSUME TransfersAssumption ==
    Bilingual \subseteq Sources /\ MaxPackets \in Nat /\ MaxTransfers \in Nat

VARIABLES
    sending,    \* what each source is sending: its id-th transfer, and the next packet
    pending,    \* the assembly of each source
    out,        \* reassembled messages, but for
    mixed,      \* those of an assembly that was in doubt
    doubt,      \* the assembly may get packets that are not of its transfer
    intact,     \* all of the transfer so far is in the capture
    whole       \* transfers that are in the capture from beginning to end

tpVars == <<sending, pending, out, mixed, doubt, intact, whole>>

Other == 0
Closed == [open |-> FALSE, packets |-> 0, chunks |-> <<>>]
Chunks == UNION {[D -> 0..MaxTransfers] : D \in SUBSET (1..MaxPackets)}
Assembly == [open : BOOLEAN, packets : 0..MaxPackets, chunks : Chunks]
Message == [source : Sources, chunks : Chunks]

TpTypeOK ==
    /\ sending \in [Sources -> [id : 0..MaxTransfers, packets : 0..MaxPackets,
                                next : 1..MaxPackets + 1]]
    /\ pending \in [Sources -> Assembly]
    /\ out \in Seq(Message) /\ mixed \in Seq(Message)
    /\ doubt \in [Sources -> BOOLEAN] /\ intact \in [Sources -> BOOLEAN]
    /\ whole \in Seq(Sources \X (1..MaxTransfers) \X (1..MaxPackets))

TpInit ==
    /\ sending = [s \in Sources |-> [id |-> 0, packets |-> 0, next |-> 1]]
    /\ pending = [s \in Sources |-> Closed]
    /\ out = <<>> /\ mixed = <<>> /\ whole = <<>>
    /\ doubt = [s \in Sources |-> FALSE]
    /\ intact = [s \in Sources |-> FALSE]

\* The source begins its next transfer, whether or not it has ended the last.
Begin(s, n) ==
    /\ sending[s].id < MaxTransfers
    /\ sending' = [sending EXCEPT ![s] = [id |-> sending[s].id + 1, packets |-> n,
                                          next |-> 1]]

\* Mistake: an assembly under way goes on.
Carry(s, n) == IF pending[s].open THEN pending[s]
               ELSE [open |-> TRUE, packets |-> n, chunks |-> <<>>]

\* Mistake: the byte is read as the number of the last packet, counted from 0.
OneMore(s, n) == [open |-> TRUE, packets |-> n + 1, chunks |-> <<>>]
Opened(s, n) == [open |-> TRUE, packets |-> n, chunks |-> <<>>]

Announce(s, n) ==
    /\ Begin(s, n)
    /\ pending' = [pending EXCEPT ![s] = Opened(s, n)]
    /\ doubt' = [doubt EXCEPT ![s] = FALSE]
    /\ intact' = [intact EXCEPT ![s] = TRUE]
    /\ UNCHANGED <<out, mixed, whole>>

LoseAnnouncement(s, n) ==
    /\ Begin(s, n)
    /\ doubt' = [doubt EXCEPT ![s] = pending[s].open]
    /\ intact' = [intact EXCEPT ![s] = FALSE]
    /\ UNCHANGED <<pending, out, mixed, whole>>

\* Mistake: the packet with the last number ends the transfer.
EndsWithLast(assembly) == assembly.packets \in DOMAIN assembly.chunks
Complete(assembly) == Cardinality(DOMAIN assembly.chunks) >= assembly.packets

Deliver(m, sure) ==
    /\ out' = IF sure THEN Append(out, m) ELSE out
    /\ mixed' = IF sure THEN mixed ELSE Append(mixed, m)

With(chunks, k, id) ==
    [j \in DOMAIN chunks \cup {k} |-> IF j = k THEN id ELSE chunks[j]]

\* A packet with number k, whose chunk is of transfer id, is in the capture.
Take(s, k, id, sure) ==
    LET chunks == With(pending[s].chunks, k, id)
        assembly == [pending[s] EXCEPT !.chunks = chunks]
    IN  IF ~pending[s].open THEN UNCHANGED <<pending, out, mixed>>
        ELSE IF Complete(assembly)
        THEN /\ Deliver([source |-> s, chunks |-> chunks], sure)
             /\ pending' = [pending EXCEPT ![s] = Closed]
        ELSE /\ pending' = [pending EXCEPT ![s] = assembly]
             /\ UNCHANGED <<out, mixed>>

Packet(s) ==
    LET t == sending[s]
    IN  /\ t.next <= t.packets
        /\ sending' = [sending EXCEPT ![s].next = @ + 1]
        /\ Take(s, t.next, t.id, ~doubt[s])
        /\ whole' = IF intact[s] /\ t.next = t.packets
                    THEN Append(whole, <<s, t.id, t.packets>>) ELSE whole
        /\ UNCHANGED <<doubt, intact>>

LosePacket(s) ==
    /\ sending[s].next <= sending[s].packets
    /\ sending' = [sending EXCEPT ![s].next = @ + 1]
    /\ intact' = [intact EXCEPT ![s] = FALSE]
    /\ UNCHANGED <<pending, out, mixed, doubt, whole>>

\* A packet for one other node, taken for one of the broadcast.
Addressed(s, k) ==
    /\ s \in Bilingual /\ pending[s].open
    /\ Take(s, k, Other, FALSE)
    /\ doubt' = [doubt EXCEPT ![s] = TRUE]
    /\ intact' = [intact EXCEPT ![s] = FALSE]
    /\ UNCHANGED <<sending, whole>>

TpNext ==
    \E s \in Sources :
       \/ \E n \in 1..MaxPackets : Announce(s, n) \/ LoseAnnouncement(s, n)
       \/ \E k \in 1..MaxPackets : Addressed(s, k)
       \/ Packet(s) \/ LosePacket(s)

TpSpec == TpInit /\ [][TpNext]_tpVars

-----------------------------------------------------------------------------

\* The i-th message is the transfer t, chunk by chunk.
IsTransfer(m, t) ==
    m.source = t[1] /\ m.chunks = [k \in 1..t[3] |-> t[2]]

\* Unless the capture lacks the announcement of what a source sent next, or holds
\* addressed packets of it, what is put together is exactly the transfers that are
\* in the capture from beginning to end: each once, none from two, none with a
\* packet missing, in the order of their ends (reassemble_tp).
MessagesAreTransfers ==
    /\ Len(out) = Len(whole)
    /\ \A i \in 1..Len(whole) : IsTransfer(out[i], whole[i])

-----------------------------------------------------------------------------
(* The inductive invariant *)

\* An assembly that is not in doubt has chunks of the source's transfer alone.
OneTransfer(s) ==
    pending[s].open /\ ~doubt[s] =>
       /\ pending[s].packets = sending[s].packets
       /\ \A k \in DOMAIN pending[s].chunks :
             k < sending[s].next /\ pending[s].chunks[k] = sending[s].id

\* It has all of them, or will never be complete.
AllOrNever(s) ==
    /\ intact[s] => /\ ~doubt[s] /\ sending[s].id >= 1
                    /\ sending[s].next <= sending[s].packets =>
                          pending[s].open /\ DOMAIN pending[s].chunks = 1 .. sending[s].next - 1
                    /\ sending[s].next > sending[s].packets => ~pending[s].open
    /\ pending[s].open /\ ~doubt[s] /\ ~intact[s] =>
          \E k \in 1 .. sending[s].next - 1 :
             k <= sending[s].packets /\ k \notin DOMAIN pending[s].chunks

TpInv ==
    /\ TpTypeOK /\ MessagesAreTransfers
    /\ \A s \in Sources : OneTransfer(s) /\ AllOrNever(s)

=============================================================================
