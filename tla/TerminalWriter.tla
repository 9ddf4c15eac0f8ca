--------------------------- MODULE TerminalWriter ---------------------------
(***************************************************************************)
(* Who may type into a terminal: the writer lease, the numbering of input  *)
(* and the acknowledgements (mf-terminal writer_lease.rs), as a web        *)
(* connection uses them (ws/terminal.rs).                                  *)
(*                                                                         *)
(* A connection presents the controller epoch it was opened with.  Its     *)
(* lease runs out with time, but the manager looks at the clock only when  *)
(* it is called; the clients see answers late or never and send again what *)
(* they have sent.  Ids of leases are drawn in order.                      *)
(***************************************************************************)
EXTENDS Integers, Sequences, FiniteSets

CONSTANTS
    Writers,         \* the connections that share a manager
    EpochOf,         \* [Writers -> Nat]: the controller epoch of each
    Payloads,        \* what may be typed
    MaxWriterLease,  \* bound: leases granted
    MaxInput,        \* bound: input_seq
    AckWindow        \* ACK_WINDOW, the acknowledgements that are remembered

ASSUME WriterAssumption ==
    EpochOf \in [Writers -> Nat] /\ {MaxWriterLease, MaxInput, AckWindow} \subseteq Nat \ {0}

Leases == 1..MaxWriterLease
Inputs == 1..MaxInput

VARIABLES
    active,     \* WriterLeaseManager.active
    overdue,    \* whether the clock has passed expires_at of the active lease
    tombstones, \* the leases that were revoked, each with its reason
    drawn,      \* the last lease id drawn
    linked,     \* connections that are open
    typed,      \* what reached the terminal, in order
    acks        \* observer: the acknowledgements sent

writerVars == <<active, overdue, tombstones, drawn, linked, typed, acks>>

NoLease == [lease |-> 0]
Reasons == {"Released", "Timeout", "Takeover", "ConnectionClosed", "InputSeqConflict"}
Input == [lease : Leases, seq : Inputs, payload : Payloads]

\* The inputs before n whose acknowledgements are remembered.
Window(n) == {s \in 1..(n - 1) : s + AckWindow >= n}

\* The manager keeps its type: the active lease is one that was drawn, with the epoch of its
\* connection, and has forgotten no acknowledgement that it promises to remember.
WriterTypeOK ==
    /\ active = NoLease \/
         \E l \in 1..drawn, c \in Writers, n \in 1..(MaxInput + 1) : \E a \in [Window(n) -> Payloads] :
             active = [lease |-> l, epoch |-> EpochOf[c], writer |-> c, next |-> n, acked |-> a]
    /\ overdue \in BOOLEAN /\ drawn \in 0..MaxWriterLease
    /\ tombstones \in [Leases -> Reasons \cup {"none"}]
    /\ linked \subseteq Writers
    /\ typed \in Seq(Input) /\ acks \subseteq Input

WriterInit ==
    /\ active = NoLease /\ overdue = FALSE
    /\ tombstones = [l \in Leases |-> "none"]
    /\ drawn = 0
    /\ linked = Writers
    /\ typed = <<>> /\ acks = {}

\* The ttl of the active lease passes; nobody notices yet.
LeaseRunsOut ==
    /\ active # NoLease /\ ~overdue
    /\ overdue' = TRUE
    /\ UNCHANGED <<active, tombstones, drawn, linked, typed, acks>>

-----------------------------------------------------------------------------
(* WriterLeaseManager.  Every call but release and connection_closed polls *)
(* the expiry first.                                                       *)

\* Mutant of Current: the clock is not looked at.
CurrentUnpolled == active

Current == IF overdue THEN NoLease ELSE active

\* revoke_active: the lease that ends leaves a tombstone.
Buried(lease, reason) == [tombstones EXCEPT ![lease] = reason]
Polled == IF overdue THEN Buried(active.lease, "Timeout") ELSE tombstones

End(reason, stones) ==
    /\ active' = NoLease /\ overdue' = FALSE
    /\ tombstones' = [stones EXCEPT ![active.lease] = reason]

Settled == active' = Current /\ overdue' = FALSE /\ tombstones' = Polled

Denied(c) ==
    /\ Current # NoLease /\ Current.epoch = EpochOf[c] /\ Current.writer # c

\* A connection with a later epoch takes the lease over.  One with an earlier epoch falls
\* through the same comparison and takes it too, without a tombstone.
RequestWriter(c) ==
    /\ c \in linked
    /\ IF Current # NoLease /\ Current.epoch = EpochOf[c]
       THEN Settled /\ UNCHANGED drawn
       ELSE /\ drawn < MaxWriterLease
            /\ drawn' = drawn + 1
            /\ active' = [lease |-> drawn + 1, epoch |-> EpochOf[c], writer |-> c, next |-> 1,
                          acked |-> <<>>]
            /\ overdue' = FALSE
            /\ tombstones' = IF Current # NoLease /\ Current.epoch < EpochOf[c]
                             THEN Buried(Current.lease, "Takeover") ELSE Polled
    /\ UNCHANGED <<linked, typed, acks>>

RenewWriter(c, l) ==
    /\ c \in linked /\ l <= drawn
    /\ IF Current # NoLease /\ Current.lease = l /\ Current.epoch # EpochOf[c]
       THEN End("Takeover", Polled)
       ELSE Settled
    /\ UNCHANGED <<drawn, linked, typed, acks>>

ReleaseWriter(c, l) ==
    /\ c \in linked /\ active # NoLease /\ active.lease = l
    /\ End("Released", tombstones)
    /\ UNCHANGED <<drawn, linked, typed, acks>>

CloseWriter(c) ==
    /\ c \in linked /\ linked' = linked \ {c}
    /\ IF active # NoLease /\ active.writer = c
       THEN End("ConnectionClosed", tombstones)
       ELSE UNCHANGED <<active, overdue, tombstones>>
    /\ UNCHANGED <<drawn, typed, acks>>

-----------------------------------------------------------------------------
(* Input: submit_input, the write and complete_input are one step of the   *)
(* connection's task.                                                      *)

Holds(c, l) == Current # NoLease /\ Current.lease = l /\ Current.writer = c

\* Mutant of Remembered: the newest acknowledgement is dropped from a full window.
RememberedOldest(acked, seq, payload) ==
    LET all == [s \in DOMAIN acked \cup {seq} |-> IF s = seq THEN payload ELSE acked[s]]
    IN  [s \in {t \in DOMAIN all : t <= AckWindow} |-> all[s]]

\* The window of acknowledgements slides.
Remembered(acked, seq, payload) ==
    [s \in {t \in DOMAIN acked \cup {seq} : t > seq - AckWindow}
        |-> IF s = seq THEN payload ELSE acked[s]]

\* Mutant of Expected: input after a gap is let through.
ExpectedOrLater(seq) == seq >= Current.next

Expected(seq) == seq = Current.next

\* The next input goes to the terminal; a complete write is acknowledged ...
TypeInput(c, i) ==
    /\ c \in linked /\ Holds(c, i.lease) /\ Expected(i.seq)
    /\ typed' = Append(typed, i)
    /\ acks' = acks \cup {i}
    /\ active' = [Current EXCEPT !.next = i.seq + 1,
                                 !.acked = Remembered(@, i.seq, i.payload)]
    /\ overdue' = FALSE
    /\ UNCHANGED <<tombstones, drawn, linked>>

\* ... and one that fails ends the lease and the connection, whatever part was written.
TypeFails(c, i) ==
    /\ c \in linked /\ Holds(c, i.lease) /\ Expected(i.seq)
    /\ typed' \in {typed, Append(typed, i)}
    /\ End("Released", Polled)
    /\ UNCHANGED <<drawn, linked, acks>>

\* Mutant of AckAgain: whatever the payload of the repeated input.
AckAgainAny(i) == i.seq \in DOMAIN Current.acked

\* A repeated input is acknowledged again when it is the same.
AckAgain(i) == i.seq \in DOMAIN Current.acked /\ Current.acked[i.seq] = i.payload

RepeatInput(c, i) ==
    /\ c \in linked /\ Holds(c, i.lease) /\ ~Expected(i.seq) /\ i.seq \in DOMAIN Current.acked
    /\ IF AckAgain(i)
       THEN acks' = acks \cup {i} /\ Settled
       ELSE acks' = acks /\ End("InputSeqConflict", Polled)
    /\ UNCHANGED <<drawn, linked, typed>>

\* Out of order, or no lease: refused.
RefuseInput(c, i) ==
    /\ c \in linked
    /\ Holds(c, i.lease) => ~Expected(i.seq) /\ i.seq \notin DOMAIN Current.acked
    /\ Settled
    /\ UNCHANGED <<drawn, linked, typed, acks>>

WriterNext ==
    \/ LeaseRunsOut
    \/ \E c \in Writers : RequestWriter(c) \/ CloseWriter(c)
    \/ \E c \in Writers, l \in Leases : RenewWriter(c, l) \/ ReleaseWriter(c, l)
    \/ \E c \in Writers, i \in Input :
          TypeInput(c, i) \/ TypeFails(c, i) \/ RepeatInput(c, i) \/ RefuseInput(c, i)

WriterSpec == WriterInit /\ [][WriterNext]_writerVars

-----------------------------------------------------------------------------
(* Properties.                                                             *)

\* Under one lease the terminal receives input number 1, 2, 3 and so on, each once, however
\* often and in whichever order the client sends.
TypedInOrder ==
    \A n \in DOMAIN typed :
        typed[n].seq = Cardinality({m \in 1..n : typed[m].lease = typed[n].lease})

\* What is acknowledged was typed, exactly as the client sent it.
AckedIsTyped == \A a \in acks : \E n \in DOMAIN typed : typed[n] = a

\* A lease that was revoked, has run out or was taken over types nothing more.
EndedTypesNothing ==
    [][ \A n \in DOMAIN typed' : n > Len(typed) =>
            LET l == typed'[n].lease
            IN  tombstones[l] = "none" /\ ~(overdue /\ active.lease = l) ]_writerVars

\* Retries, reordering and takeovers included, the terminal receives what was acknowledged,
\* in order, once.
WriterSafety == WriterTypeOK /\ TypedInOrder /\ AckedIsTyped
=============================================================================
