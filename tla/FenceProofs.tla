----------------------------- MODULE FenceProofs ----------------------------
(***************************************************************************)
(* Proofs about CancelFence, for any number of commands, requests, runs,   *)
(* takeovers and crashes: an inductive invariant with every safety         *)
(* property of the module, and the refinement of AtomicCancel.             *)
(*                                                                         *)
(* And about TerminalWriter, for any number of connections, leases and     *)
(* inputs: the terminal receives what was acknowledged, once and in order, *)
(* and a lease that has ended types nothing.  The two share no state.      *)
(***************************************************************************)
EXTENDS CancelFence, TerminalWriter, FiniteSetTheorems, FunctionTheorems, SequenceTheorems,
        WellFoundedInduction, TLAPS

----
(* The writer lease.                                                       *)

\* The inputs that a lease has typed.
TypedBy(l) == {n \in DOMAIN typed : typed[n].lease = l}

\* The leases that were drawn; the active one expects the input after those it has typed, and
\* remembers what it has typed.
LeaseInv ==
    /\ \A n \in DOMAIN typed : typed[n].lease <= drawn
    /\ \A l \in Leases : l > drawn => tombstones[l] = "none"
    /\ active # NoLease =>
          /\ tombstones[active.lease] = "none"
          /\ active.next = Cardinality(TypedBy(active.lease)) + 1
          /\ \A s \in DOMAIN active.acked : \E n \in DOMAIN typed :
                typed[n] = [lease |-> active.lease, seq |-> s, payload |-> active.acked[s]]

WriterInv == WriterTypeOK /\ LeaseInv /\ TypedInOrder /\ AckedIsTyped

\* The bounds are positive.
LEMMA WriterBounds ==
    /\ MaxWriterLease \in Nat \ {0} /\ MaxInput \in Nat \ {0} /\ AckWindow \in Nat \ {0}
    /\ \A c \in Writers : EpochOf[c] \in Nat
  BY WriterAssumption

\* The active lease is a record.
LEMMA ActiveLease ==
    ASSUME WriterTypeOK, active # NoLease
    PROVE  /\ active.lease \in 1..drawn /\ active.lease \in Leases
           /\ active.writer \in Writers /\ active.next \in 1..(MaxInput + 1)
           /\ active.acked \in [Window(active.next) -> Payloads]
           /\ active = [lease |-> active.lease, epoch |-> EpochOf[active.writer], writer |-> active.writer,
                        next |-> active.next, acked |-> active.acked]
<1>1. PICK l \in 1..drawn, c \in Writers, n \in 1..(MaxInput + 1) : \E a \in [Window(n) -> Payloads] :
         active = [lease |-> l, epoch |-> EpochOf[c], writer |-> c, next |-> n, acked |-> a]
  BY DEF WriterTypeOK
<1>2. PICK a \in [Window(n) -> Payloads] :
         active = [lease |-> l, epoch |-> EpochOf[c], writer |-> c, next |-> n, acked |-> a]
  BY <1>1
<1>3. l \in Leases  BY WriterBounds DEF WriterTypeOK, Leases
<1> QED  BY <1>2, <1>3

\* Looking at the clock buries at most the active lease.
LEMMA PolledStones ==
    ASSUME WriterTypeOK
    PROVE  /\ Polled \in [Leases -> Reasons \cup {"none"}]
           /\ \A l \in Leases : l # active.lease => Polled[l] = tombstones[l]
           /\ ~overdue => Polled = tombstones
  BY DEF WriterTypeOK, Polled, Buried, Reasons

\* Looking at the clock keeps the invariant.
LEMMA SettledKept ==
    ASSUME WriterTypeOK, LeaseInv, Settled, UNCHANGED <<typed, drawn>>
    PROVE  /\ active' = NoLease \/ (active # NoLease /\ active' = active /\ ~overdue)
           /\ active' = NoLease \/
                \E l \in 1..drawn', c \in Writers, n \in 1..(MaxInput + 1) : \E a \in [Window(n) -> Payloads] :
                   active' = [lease |-> l, epoch |-> EpochOf[c], writer |-> c, next |-> n, acked |-> a]
           /\ overdue' \in BOOLEAN /\ tombstones' \in [Leases -> Reasons \cup {"none"}]
           /\ LeaseInv'
<1>1. active' = NoLease \/ (active # NoLease /\ active' = active /\ ~overdue)  BY DEF Settled, Current
<1>2. overdue' \in BOOLEAN /\ tombstones' \in [Leases -> Reasons \cup {"none"}]  BY PolledStones DEF Settled
<1>3. LeaseInv'
  <2>1. \A l \in Leases : l > drawn => tombstones'[l] = "none"
    <3> SUFFICES ASSUME NEW l \in Leases, l > drawn PROVE tombstones'[l] = "none"  OBVIOUS
    <3>1. l # active.lease  BY ActiveLease DEF NoLease, WriterTypeOK
    <3> QED  BY <3>1, PolledStones DEF Settled, LeaseInv
  <2>2. active' # NoLease => tombstones' = tombstones  BY <1>1, PolledStones DEF Settled
  <2> QED  BY <1>1, <2>1, <2>2 DEF LeaseInv, TypedBy
<1> QED  BY <1>1, <1>2, <1>3 DEF WriterTypeOK

\* Ending the active lease keeps the invariant.
LEMMA EndKept ==
    ASSUME WriterTypeOK, LeaseInv, NEW reason \in Reasons, NEW stones \in {tombstones, Polled},
           End(reason, stones), drawn' = drawn
    PROVE  /\ active' = NoLease /\ overdue' = FALSE
           /\ tombstones' \in [Leases -> Reasons \cup {"none"}]
           /\ typed' = typed => LeaseInv'
<1>1. tombstones' \in [Leases -> Reasons \cup {"none"}]  BY PolledStones DEF End, WriterTypeOK
<1>2. \A l \in Leases : l > drawn => tombstones'[l] = "none"
  <2> SUFFICES ASSUME NEW l \in Leases, l > drawn PROVE tombstones'[l] = "none"  OBVIOUS
  <2>1. l # active.lease  BY ActiveLease DEF NoLease, WriterTypeOK
  <2> QED  BY <2>1, PolledStones DEF End, LeaseInv
<1> QED  BY <1>1, <1>2 DEF End, LeaseInv

\* The window slides by one.
LEMMA RememberedWindow ==
    ASSUME NEW n \in Nat \ {0}, NEW acked \in [Window(n) -> Payloads], NEW p \in Payloads
    PROVE  Remembered(acked, n, p) \in [Window(n + 1) -> Payloads]
<1>1. AckWindow \in Nat \ {0}  BY WriterBounds
<1>2. {t \in Window(n) \cup {n} : t > n - AckWindow} = Window(n + 1)  BY <1>1 DEF Window
<1> QED  BY <1>2 DEF Remembered

\* What one more input does to what was typed.
LEMMA Typing ==
    ASSUME typed \in Seq(Input), NEW i \in Input, typed' = Append(typed, i)
    PROVE  /\ DOMAIN typed = 1..Len(typed) /\ Len(typed) \in Nat
           /\ DOMAIN typed' = DOMAIN typed \cup {Len(typed) + 1}
           /\ \A n \in DOMAIN typed : typed'[n] = typed[n]
           /\ typed'[Len(typed) + 1] = i
           /\ Cardinality(TypedBy(i.lease)) \in Nat
           /\ Cardinality(TypedBy(i.lease)') = Cardinality(TypedBy(i.lease)) + 1
<1>1. DOMAIN typed = 1..Len(typed) /\ Len(typed) \in Nat  BY LenProperties
<1>2. /\ typed' \in Seq(Input) /\ Len(typed') = Len(typed) + 1
      /\ \A n \in 1..Len(typed) : typed'[n] = typed[n]
      /\ typed'[Len(typed) + 1] = i
  BY AppendProperties
<1>3. DOMAIN typed' = DOMAIN typed \cup {Len(typed) + 1}
  <2>1. DOMAIN typed' = 1..(Len(typed) + 1)  BY <1>2, LenProperties
  <2> QED  BY <1>1, <2>1
<1>4. TypedBy(i.lease)' = TypedBy(i.lease) \cup {Len(typed) + 1} /\ Len(typed) + 1 \notin TypedBy(i.lease)
  BY <1>1, <1>2, <1>3 DEF TypedBy
<1>5. IsFiniteSet(TypedBy(i.lease))
  <2>1. IsFiniteSet(1..Len(typed)) /\ TypedBy(i.lease) \subseteq 1..Len(typed)  BY <1>1, FS_Interval DEF TypedBy
  <2> QED  BY <2>1, FS_Subset
<1>6. Cardinality(TypedBy(i.lease)) \in Nat  BY <1>5, FS_CardinalityType
<1>7. Cardinality(TypedBy(i.lease)') = Cardinality(TypedBy(i.lease)) + 1  BY <1>4, <1>5, FS_AddElement
<1> QED  BY <1>1, <1>2, <1>3, <1>6, <1>7

\* The next input of a lease is numbered as it is counted.
LEMMA OrderKept ==
    ASSUME typed \in Seq(Input), NEW i \in Input, typed' = Append(typed, i), TypedInOrder,
           i.seq = Cardinality(TypedBy(i.lease)) + 1
    PROVE  TypedInOrder'
<1> SUFFICES ASSUME NEW n \in DOMAIN typed'
             PROVE  typed'[n].seq = Cardinality({m \in 1..n : typed'[m].lease = typed'[n].lease})
  BY DEF TypedInOrder
<1>1. CASE n = Len(typed) + 1
  <2>1. {m \in 1..n : typed'[m].lease = typed'[n].lease} = TypedBy(i.lease)'  BY <1>1, Typing DEF TypedBy
  <2> QED  BY <1>1, <2>1, Typing
<1>2. CASE n \in DOMAIN typed
  <2>1. \A m \in 1..n : m \in DOMAIN typed  BY <1>2, Typing
  <2>2. {m \in 1..n : typed'[m].lease = typed'[n].lease} = {m \in 1..n : typed[m].lease = typed[n].lease}
    BY <1>2, <2>1, Typing
  <2> QED  BY <1>2, <2>2, Typing DEF TypedInOrder
<1> QED  BY <1>1, <1>2, Typing

\* Every step keeps the types.
LEMMA WriterTypesKept ==
    ASSUME WriterTypeOK, LeaseInv, WriterNext
    PROVE  WriterTypeOK'
<1>1. ASSUME LeaseRunsOut PROVE WriterTypeOK'  BY <1>1 DEF LeaseRunsOut, WriterTypeOK
<1>2. ASSUME NEW c \in Writers, RequestWriter(c) PROVE WriterTypeOK'
  <2>1. CASE Current # NoLease /\ Current.epoch = EpochOf[c]  BY <1>2, <2>1, SettledKept DEF RequestWriter, WriterTypeOK
  <2>2. CASE ~(Current # NoLease /\ Current.epoch = EpochOf[c])
    <3>1. /\ drawn < MaxWriterLease /\ drawn' = drawn + 1 /\ drawn \in Nat
          /\ active' = [lease |-> drawn + 1, epoch |-> EpochOf[c], writer |-> c, next |-> 1, acked |-> <<>>]
      BY <1>2, <2>2, WriterBounds DEF RequestWriter, WriterTypeOK
    <3>2. drawn' \in 0..MaxWriterLease /\ drawn + 1 \in 1..drawn' /\ 1 \in 1..(MaxInput + 1)  BY <3>1, WriterBounds
    <3>3. <<>> \in [Window(1) -> Payloads]  BY DEF Window
    <3>4. tombstones' \in [Leases -> Reasons \cup {"none"}]
      BY <1>2, <2>2, PolledStones DEF RequestWriter, Buried, WriterTypeOK, Reasons
    <3>5. overdue' \in BOOLEAN  BY <1>2, <2>2 DEF RequestWriter
    <3> QED  BY <1>2, <3>1, <3>2, <3>3, <3>4, <3>5 DEF RequestWriter, WriterTypeOK
  <2> QED  BY <2>1, <2>2
<1>3. ASSUME NEW c \in Writers, CloseWriter(c) PROVE WriterTypeOK'
  <2>1. CASE active # NoLease /\ active.writer = c  BY <1>3, <2>1, EndKept DEF CloseWriter, WriterTypeOK, Reasons
  <2>2. CASE ~(active # NoLease /\ active.writer = c)  BY <1>3, <2>2 DEF CloseWriter, WriterTypeOK
  <2> QED  BY <2>1, <2>2
<1>4. ASSUME NEW c \in Writers, NEW l \in Leases, RenewWriter(c, l) PROVE WriterTypeOK'
  BY <1>4, SettledKept, EndKept DEF RenewWriter, WriterTypeOK, Reasons
<1>5. ASSUME NEW c \in Writers, NEW l \in Leases, ReleaseWriter(c, l) PROVE WriterTypeOK'
  BY <1>5, EndKept DEF ReleaseWriter, WriterTypeOK, Reasons
<1>6. ASSUME NEW c \in Writers, NEW i \in Input, TypeInput(c, i) PROVE WriterTypeOK'
  <2>1. active # NoLease /\ ~overdue /\ Current = active /\ i.seq = active.next
    BY <1>6 DEF TypeInput, Holds, Expected, Current
  <2>2. /\ active.lease \in 1..drawn /\ active.writer \in Writers /\ active.next \in 1..(MaxInput + 1)
        /\ active' = [lease |-> active.lease, epoch |-> EpochOf[active.writer], writer |-> active.writer,
                       next |-> active.next + 1, acked |-> Remembered(active.acked, i.seq, i.payload)]
    <3>1. PICK l \in 1..drawn, d \in Writers, n \in 1..(MaxInput + 1) : \E a \in [Window(n) -> Payloads] :
             active = [lease |-> l, epoch |-> EpochOf[d], writer |-> d, next |-> n, acked |-> a]
      BY <2>1 DEF WriterTypeOK
    <3>2. PICK a \in [Window(n) -> Payloads] :
             active = [lease |-> l, epoch |-> EpochOf[d], writer |-> d, next |-> n, acked |-> a]
      BY <3>1
    <3>3. active' = [active EXCEPT !.next = n + 1, !.acked = Remembered(a, i.seq, i.payload)]
      BY <1>6, <2>1, <3>2 DEF TypeInput
    <3> QED  BY <3>2, <3>3
  <2>3. active.next + 1 \in 1..(MaxInput + 1)  BY <2>1, <2>2, WriterBounds DEF Input, Inputs
  <2>4. Remembered(active.acked, i.seq, i.payload) \in [Window(active.next + 1) -> Payloads]
    BY <2>1, <2>2, ActiveLease, RememberedWindow DEF Input
  <2>5. typed' \in Seq(Input) /\ acks' \subseteq Input  BY <1>6, AppendProperties DEF TypeInput, WriterTypeOK
  <2>6. /\ overdue' \in BOOLEAN /\ drawn' = drawn /\ drawn' \in 0..MaxWriterLease
        /\ tombstones' \in [Leases -> Reasons \cup {"none"}] /\ linked' \subseteq Writers
    BY <1>6 DEF TypeInput, WriterTypeOK
  <2>7. \E l \in 1..drawn', d \in Writers, n \in 1..(MaxInput + 1) : \E a \in [Window(n) -> Payloads] :
            active' = [lease |-> l, epoch |-> EpochOf[d], writer |-> d, next |-> n, acked |-> a]
    BY <2>2, <2>3, <2>4, <2>6
  <2> QED  BY <2>5, <2>6, <2>7 DEF WriterTypeOK
<1>7. ASSUME NEW c \in Writers, NEW i \in Input, TypeFails(c, i) PROVE WriterTypeOK'
  <2>1. typed' \in Seq(Input)  BY <1>7, AppendProperties DEF TypeFails, WriterTypeOK
  <2> QED  BY <1>7, <2>1, EndKept DEF TypeFails, WriterTypeOK, Reasons
<1>8. ASSUME NEW c \in Writers, NEW i \in Input, RepeatInput(c, i) PROVE WriterTypeOK'
  BY <1>8, SettledKept, EndKept DEF RepeatInput, WriterTypeOK, Reasons
<1>9. ASSUME NEW c \in Writers, NEW i \in Input, RefuseInput(c, i) PROVE WriterTypeOK'
  BY <1>9, SettledKept DEF RefuseInput, WriterTypeOK
<1> QED  BY <1>1, <1>2, <1>3, <1>4, <1>5, <1>6, <1>7, <1>8, <1>9 DEF WriterNext

\* A lease counts what it types, and remembers what it has typed.
LEMMA LeasesKept ==
    ASSUME WriterTypeOK, LeaseInv, WriterNext
    PROVE  LeaseInv'
<1>1. ASSUME LeaseRunsOut PROVE LeaseInv'  BY <1>1 DEF LeaseRunsOut, LeaseInv, TypedBy
<1>2. ASSUME NEW c \in Writers, RequestWriter(c) PROVE LeaseInv'
  <2>1. CASE Current # NoLease /\ Current.epoch = EpochOf[c]  BY <1>2, <2>1, SettledKept DEF RequestWriter
  <2>2. CASE ~(Current # NoLease /\ Current.epoch = EpochOf[c])
    <3>1. /\ drawn + 1 \in Leases /\ drawn' = drawn + 1 /\ drawn \in Nat /\ typed' = typed
          /\ active' = [lease |-> drawn + 1, epoch |-> EpochOf[c], writer |-> c, next |-> 1, acked |-> <<>>]
      BY <1>2, <2>2, WriterBounds DEF RequestWriter, WriterTypeOK, Leases
    <3>2. \A l \in Leases : l > drawn + 1 => tombstones'[l] = "none"
      <4> SUFFICES ASSUME NEW l \in Leases, l > drawn + 1 PROVE tombstones'[l] = "none"  OBVIOUS
      <4>1. l # active.lease /\ l > drawn  BY <3>1, ActiveLease DEF NoLease, Leases
      <4>2. Current = NoLease \/ Current = active  BY DEF Current
      <4> QED  BY <1>2, <2>2, <4>1, <4>2, PolledStones DEF RequestWriter, Buried, LeaseInv, WriterTypeOK
    <3>3. \A n \in DOMAIN typed : typed[n].lease <= drawn /\ typed[n].lease \in Nat
      <4>1. \A n \in DOMAIN typed : typed[n] \in Input  BY LenProperties DEF WriterTypeOK
      <4> QED  BY <4>1 DEF LeaseInv, Input, Leases
    <3>4. {n \in DOMAIN typed' : typed'[n].lease = active'.lease} = {}  BY <3>1, <3>3
    <3>5. Cardinality({n \in DOMAIN typed' : typed'[n].lease = active'.lease}) = 0  BY <3>4, FS_EmptySet
    <3>6. tombstones'[drawn + 1] = "none"
      <4>1. drawn + 1 # active.lease /\ drawn + 1 > drawn  BY <3>1, ActiveLease DEF NoLease
      <4>2. Current = NoLease \/ Current = active  BY DEF Current
      <4> QED  BY <1>2, <2>2, <3>1, <4>1, <4>2, PolledStones DEF RequestWriter, Buried, LeaseInv, WriterTypeOK
    <3>7. \A n \in DOMAIN typed' : typed'[n].lease <= drawn'  BY <3>1, <3>3
    <3>8. DOMAIN active'.acked = {}  BY <3>1
    <3> QED  BY <3>1, <3>2, <3>5, <3>8, <3>6, <3>7 DEF LeaseInv, TypedBy
  <2> QED  BY <2>1, <2>2
<1>3. ASSUME NEW c \in Writers, CloseWriter(c) PROVE LeaseInv'
  BY <1>3, EndKept DEF CloseWriter, LeaseInv, TypedBy, Reasons
<1>4. ASSUME NEW c \in Writers, NEW l \in Leases, RenewWriter(c, l) PROVE LeaseInv'
  BY <1>4, SettledKept, EndKept DEF RenewWriter, Reasons
<1>5. ASSUME NEW c \in Writers, NEW l \in Leases, ReleaseWriter(c, l) PROVE LeaseInv'
  BY <1>5, EndKept DEF ReleaseWriter, Reasons
<1>6. ASSUME NEW c \in Writers, NEW i \in Input, TypeInput(c, i) PROVE LeaseInv'
  <2>1. /\ active # NoLease /\ ~overdue /\ Current = active /\ i.seq = active.next /\ active.lease = i.lease
        /\ typed' = Append(typed, i) /\ UNCHANGED <<tombstones, drawn>>
    BY <1>6 DEF TypeInput, Holds, Expected, Current
  <2>2. /\ active'.lease = i.lease /\ active'.next = i.seq + 1
        /\ active'.acked = Remembered(active.acked, i.seq, i.payload)
    BY <1>6, <2>1, ActiveLease DEF TypeInput
  <2>3. /\ DOMAIN typed' = DOMAIN typed \cup {Len(typed) + 1}
        /\ \A n \in DOMAIN typed : typed'[n] = typed[n]
        /\ typed'[Len(typed) + 1] = i
        /\ Cardinality(TypedBy(i.lease)') = Cardinality(TypedBy(i.lease)) + 1
    BY <2>1, Typing DEF WriterTypeOK
  <2>4. i.lease \in 1..drawn /\ i = [lease |-> i.lease, seq |-> i.seq, payload |-> i.payload]
    BY <2>1, ActiveLease DEF Input
  <2>5. \A n \in DOMAIN typed' : typed'[n].lease <= drawn  BY <2>3, <2>4 DEF LeaseInv, WriterTypeOK
  <2>6. active'.next = Cardinality(TypedBy(i.lease)') + 1
    <3>1. i.seq = Cardinality(TypedBy(i.lease)) + 1  BY <2>1 DEF LeaseInv
    <3> QED  BY <2>2, <2>3, <3>1
  <2>7. \A s \in DOMAIN active'.acked : \E n \in DOMAIN typed' :
            typed'[n] = [lease |-> active'.lease, seq |-> s, payload |-> active'.acked[s]]
    <3> SUFFICES ASSUME NEW s \in DOMAIN active'.acked
                 PROVE  \E n \in DOMAIN typed' : typed'[n] = [lease |-> i.lease, seq |-> s, payload |-> active'.acked[s]]
      BY <2>2
    <3>1. CASE s = i.seq
      <4>1. active'.acked[s] = i.payload  BY <2>2, <3>1 DEF Remembered
      <4> QED  BY <2>3, <2>4, <3>1, <4>1
    <3>2. CASE s # i.seq
      <4>1. s \in DOMAIN active.acked /\ active'.acked[s] = active.acked[s]  BY <2>2, <3>2 DEF Remembered
      <4> QED  BY <2>1, <2>3, <4>1 DEF LeaseInv
    <3> QED  BY <3>1, <3>2
  <2> QED  BY <2>1, <2>2, <2>5, <2>6, <2>7 DEF LeaseInv, TypedBy
<1>7. ASSUME NEW c \in Writers, NEW i \in Input, TypeFails(c, i) PROVE LeaseInv'
  <2>1. /\ active # NoLease /\ ~overdue /\ active.lease = i.lease /\ active' = NoLease /\ drawn' = drawn
        /\ tombstones' = [tombstones EXCEPT ![active.lease] = "Released"]
    BY <1>7 DEF TypeFails, Holds, Current, End, Polled
  <2>2. active.lease \in 1..drawn  BY <2>1, ActiveLease
  <2>3. \A n \in DOMAIN typed' : typed'[n].lease <= drawn
    <3>1. CASE typed' = typed  BY <3>1 DEF LeaseInv
    <3>2. CASE typed' = Append(typed, i)
      <4>1. /\ DOMAIN typed' = DOMAIN typed \cup {Len(typed) + 1} /\ typed'[Len(typed) + 1] = i
            /\ \A n \in DOMAIN typed : typed'[n] = typed[n]
        BY <3>2, Typing DEF WriterTypeOK
      <4> QED  BY <2>1, <2>2, <4>1 DEF LeaseInv, WriterTypeOK
    <3> QED  BY <1>7, <3>1, <3>2 DEF TypeFails
  <2> QED  BY <2>1, <2>2, <2>3 DEF LeaseInv, WriterTypeOK
<1>8. ASSUME NEW c \in Writers, NEW i \in Input, RepeatInput(c, i) PROVE LeaseInv'
  BY <1>8, SettledKept, EndKept DEF RepeatInput, Reasons
<1>9. ASSUME NEW c \in Writers, NEW i \in Input, RefuseInput(c, i) PROVE LeaseInv'  BY <1>9, SettledKept DEF RefuseInput
<1> QED  BY <1>1, <1>2, <1>3, <1>4, <1>5, <1>6, <1>7, <1>8, <1>9 DEF WriterNext

\* Only the input that the active lease expects is typed.
LEMMA OrderedKept ==
    ASSUME WriterTypeOK, LeaseInv, TypedInOrder, WriterNext
    PROVE  TypedInOrder'
<1>1. ASSUME LeaseRunsOut PROVE TypedInOrder'  BY <1>1 DEF LeaseRunsOut, TypedInOrder
<1>2. ASSUME NEW c \in Writers, RequestWriter(c) PROVE TypedInOrder'  BY <1>2 DEF RequestWriter, TypedInOrder
<1>3. ASSUME NEW c \in Writers, CloseWriter(c) PROVE TypedInOrder'  BY <1>3 DEF CloseWriter, TypedInOrder
<1>4. ASSUME NEW c \in Writers, NEW l \in Leases, RenewWriter(c, l) PROVE TypedInOrder'
  BY <1>4 DEF RenewWriter, TypedInOrder
<1>5. ASSUME NEW c \in Writers, NEW l \in Leases, ReleaseWriter(c, l) PROVE TypedInOrder'
  BY <1>5 DEF ReleaseWriter, TypedInOrder
<1>6. ASSUME NEW c \in Writers, NEW i \in Input, TypeInput(c, i) PROVE TypedInOrder'
  <2>1. i.seq = Cardinality(TypedBy(i.lease)) + 1  BY <1>6 DEF TypeInput, Holds, Expected, Current, LeaseInv
  <2> QED  BY <1>6, <2>1, OrderKept DEF TypeInput, WriterTypeOK
<1>7. ASSUME NEW c \in Writers, NEW i \in Input, TypeFails(c, i) PROVE TypedInOrder'
  <2>1. i.seq = Cardinality(TypedBy(i.lease)) + 1  BY <1>7 DEF TypeFails, Holds, Expected, Current, LeaseInv
  <2>2. CASE typed' = typed  BY <2>2 DEF TypedInOrder
  <2>3. CASE typed' = Append(typed, i)  BY <2>3, <2>1, OrderKept DEF WriterTypeOK
  <2> QED  BY <1>7, <2>2, <2>3 DEF TypeFails
<1>8. ASSUME NEW c \in Writers, NEW i \in Input, RepeatInput(c, i) PROVE TypedInOrder'
  BY <1>8 DEF RepeatInput, TypedInOrder
<1>9. ASSUME NEW c \in Writers, NEW i \in Input, RefuseInput(c, i) PROVE TypedInOrder'
  BY <1>9 DEF RefuseInput, TypedInOrder
<1> QED  BY <1>1, <1>2, <1>3, <1>4, <1>5, <1>6, <1>7, <1>8, <1>9 DEF WriterNext

\* What is acknowledged was typed, then or before.
LEMMA AckedKept ==
    ASSUME WriterTypeOK, LeaseInv, AckedIsTyped, WriterNext
    PROVE  AckedIsTyped'
<1>1. ASSUME LeaseRunsOut PROVE AckedIsTyped'  BY <1>1 DEF LeaseRunsOut, AckedIsTyped
<1>2. ASSUME NEW c \in Writers, RequestWriter(c) PROVE AckedIsTyped'  BY <1>2 DEF RequestWriter, AckedIsTyped
<1>3. ASSUME NEW c \in Writers, CloseWriter(c) PROVE AckedIsTyped'  BY <1>3 DEF CloseWriter, AckedIsTyped
<1>4. ASSUME NEW c \in Writers, NEW l \in Leases, RenewWriter(c, l) PROVE AckedIsTyped'
  BY <1>4 DEF RenewWriter, AckedIsTyped
<1>5. ASSUME NEW c \in Writers, NEW l \in Leases, ReleaseWriter(c, l) PROVE AckedIsTyped'
  BY <1>5 DEF ReleaseWriter, AckedIsTyped
<1>6. ASSUME NEW c \in Writers, NEW i \in Input, TypeInput(c, i) PROVE AckedIsTyped'
  BY <1>6 DEF TypeInput, AckedIsTyped
<1>7. ASSUME NEW c \in Writers, NEW i \in Input, TypeFails(c, i) PROVE AckedIsTyped'
  BY <1>7 DEF TypeFails, AckedIsTyped
<1>8. ASSUME NEW c \in Writers, NEW i \in Input, RepeatInput(c, i) PROVE AckedIsTyped'
  <2>1. CASE AckAgain(i)
    <3>1. /\ active # NoLease /\ active.lease = i.lease /\ i.seq \in DOMAIN active.acked
          /\ active.acked[i.seq] = i.payload
      BY <1>8, <2>1 DEF RepeatInput, Holds, Current, AckAgain
    <3>2. i = [lease |-> i.lease, seq |-> i.seq, payload |-> i.payload]  BY DEF Input
    <3>3. \E n \in DOMAIN typed : typed[n] = i  BY <3>1, <3>2 DEF LeaseInv
    <3> QED  BY <1>8, <2>1, <3>3 DEF RepeatInput, AckedIsTyped
  <2>2. CASE ~AckAgain(i)  BY <1>8, <2>2 DEF RepeatInput, AckedIsTyped
  <2> QED  BY <2>1, <2>2
<1>9. ASSUME NEW c \in Writers, NEW i \in Input, RefuseInput(c, i) PROVE AckedIsTyped'
  BY <1>9 DEF RefuseInput, AckedIsTyped
<1> QED  BY <1>1, <1>2, <1>3, <1>4, <1>5, <1>6, <1>7, <1>8, <1>9 DEF WriterNext

\* The invariant is inductive.
THEOREM WriterInductive == WriterSpec => []WriterInv
<1>1. WriterInit => WriterInv
  <2> SUFFICES ASSUME WriterInit PROVE WriterInv  OBVIOUS
  <2>1. typed = <<>> /\ typed \in Seq(Input) /\ DOMAIN typed = {}
    <3>1. typed = <<>> /\ typed \in Seq(Input) /\ Len(<<>>) = 0  BY EmptySeq DEF WriterInit
    <3>2. DOMAIN typed = 1..0  BY <3>1, LenProperties
    <3> QED  BY <3>1, <3>2
  <2>2. WriterTypeOK
    <3>1. 0 \in 0..MaxWriterLease  BY WriterBounds
    <3> QED  BY <2>1, <3>1 DEF WriterInit, WriterTypeOK
  <2>3. LeaseInv /\ TypedInOrder /\ AckedIsTyped  BY <2>1 DEF WriterInit, LeaseInv, TypedInOrder, AckedIsTyped
  <2> QED  BY <2>2, <2>3 DEF WriterInv
<1>2. WriterInv /\ [WriterNext]_writerVars => WriterInv'
  <2> SUFFICES ASSUME WriterInv, [WriterNext]_writerVars PROVE WriterInv'  OBVIOUS
  <2>1. CASE WriterNext  BY <2>1, WriterTypesKept, LeasesKept, OrderedKept, AckedKept DEF WriterInv
  <2>2. CASE UNCHANGED writerVars
    BY <2>2 DEF writerVars, WriterInv, WriterTypeOK, LeaseInv, TypedBy, TypedInOrder, AckedIsTyped
  <2> QED  BY <2>1, <2>2
<1> QED  BY <1>1, <1>2, PTL DEF WriterSpec

\* Retries, reordering and takeovers included, and however many leases, inputs and connections
\* there are, the terminal receives what was acknowledged, in order, once.
THEOREM WritersTypeOnce == WriterSpec => []WriterSafety
<1>1. WriterInv => WriterSafety  BY DEF WriterInv, WriterSafety
<1> QED  BY <1>1, WriterInductive, PTL

\* A lease that was revoked, has run out or was taken over types nothing more.
THEOREM EndedLeasesType == WriterSpec => EndedTypesNothing
<1> DEFINE Quiet == \A n \in DOMAIN typed' : n > Len(typed) =>
                       LET l == typed'[n].lease IN tombstones[l] = "none" /\ ~(overdue /\ active.lease = l)
<1>1. ASSUME WriterInv, WriterNext PROVE Quiet
  <2>0. WriterTypeOK /\ LeaseInv /\ typed \in Seq(Input) /\ DOMAIN typed = 1..Len(typed) /\ Len(typed) \in Nat
    BY <1>1, LenProperties DEF WriterInv, WriterTypeOK
  <2>1. CASE typed' = typed  BY <2>0, <2>1
  <2>2. ASSUME NEW i \in Input, typed' = Append(typed, i), active # NoLease, ~overdue, active.lease = i.lease PROVE Quiet
    BY <2>0, <2>2, Typing DEF LeaseInv
  <2>3. ASSUME NEW c \in Writers, NEW i \in Input, TypeInput(c, i) \/ TypeFails(c, i) PROVE Quiet
    BY <2>1, <2>2, <2>3 DEF TypeInput, TypeFails, Holds, Current
  <2> QED  BY <1>1, <2>1, <2>3 DEF WriterNext, LeaseRunsOut, RequestWriter, CloseWriter, RenewWriter, ReleaseWriter,
      RepeatInput, RefuseInput
<1>2. ASSUME UNCHANGED writerVars, WriterInv PROVE Quiet  BY <1>2 DEF writerVars
<1>3. WriterInv /\ [WriterNext]_writerVars => [Quiet]_writerVars  BY <1>1
<1> QED  BY <1>3, WriterInductive, PTL DEF WriterSpec, EndedTypesNothing

----
(* The cancel fence.                                                       *)

\* A driver that has passed the gate.
Inside(d) == pc[d] \notin {"idle", "gate"}
Stopping(d) == pc[d] \in {"stop"} \cup Answers

\* What a driver may rely on at each of its steps.
ThreadOK(d) ==
    /\ Inside(d) => Cmd(d) \in Commands
    /\ Inside(d) /\ pc[d] # "service" => Open(Cmd(d))
    /\ Stopping(d) => at[d] \in Runs /\ target[Cmd(d)][at[d]] = "stopping"
    /\ pc[d] = "confirmed" => proc[at[d]] = "dead"
    /\ pc[d] = "target" => intent[Cmd(d)] = "reserved"
    /\ pc[d] = "service" => intent[Cmd(d)] = "reserved" /\ Cmd(d) \in receipts
ThreadsOK == pc[Core] # "gate" /\ \A d \in Drivers : ThreadOK(d)

\* One driver per command; requests drive only while the Core serves, the recovery only before.
Exclusive ==
    /\ \A d, e \in Drivers : Inside(d) /\ Inside(e) /\ Cmd(d) = Cmd(e) => d = e
    /\ core # "recovering" => pc[Core] = "idle"
    /\ core # "serving" => \A q \in Requests : pc[q] = "idle"

\* The rows of the fence, and the two properties that rest on them.
OneOpen == \A c, e \in Commands : Open(c) /\ Open(e) => c = e
FenceRows ==
    \A c \in Commands :
        /\ fence[c] = "finalized" <=> c \in receipts
        /\ c \in receipts => quoted[c] = "stale"
        /\ fence[c] = "none" => \A r \in Runs : target[c][r] = "none"
        /\ Open(c) => \A r \in Runs : target[c][r] = "confirmed" => proc[r] = "dead"
FenceInv == OneOpen /\ FenceRows /\ FenceFreezes /\ CancelledIsStopped

\* The intents, by how far the Core is up.
IntentsOK ==
    \A c \in Commands :
        /\ intent[c] = "revoked" => c \notin receipts
        /\ intent[c] = "applied" => c \in receipts
        /\ c \in receipts => intent[c] \in {"reserved", "applied"}
        /\ core \in {"reconciled", "started"} => intent[c] # "reserved"
        /\ core = "recovering" /\ intent[c] = "reserved" =>
              recovery = c /\ pc[Core] \in {"target", "service"}

\* A stop that has been made is recorded, or its driver is about to record it.
StopsOK ==
    \A c \in Commands, r \in Runs :
        /\ stops[c][r] \in {0, 1}
        /\ stops[c][r] = 1 =>
              \/ target[c][r] \in Answers
              \/ \E d \in Drivers : pc[d] \in Answers /\ Cmd(d) = c /\ at[d] = r

\* The handler of a report has a run that was dispatched.
HandlerOK == exitAt # "idle" => exitOf \in Runs /\ run[exitOf] # "unborn"

Inv ==
    /\ TypeOK /\ ThreadsOK /\ Exclusive /\ FenceInv /\ IntentsOK /\ StopsOK /\ FenceHasDriver
    /\ HandlerOK /\ AppliedIsDurable

\* The steps of the handler.
Handling == (\E r \in Runs : Report(r)) \/ ReportRun \/ ReportTask


----
(* Each part of the invariant is preserved by every step.  In all of these *)
(* lemmas there is one step per action.                                    *)

\* The command of a request, and of a driver past the gate.
LEMMA Commanded ==
    ASSUME ThreadsOK
    PROVE  /\ \A q \in Requests : q \in Drivers /\ q # Core /\ Cmd(q) = CmdOf[q] /\ CmdOf[q] \in Commands
           /\ \A d \in Drivers : Inside(d) => Cmd(d) \in Commands
           /\ \A d \in Drivers : d # Core => d \in Requests
BY RequestsAssumption DEF ThreadsOK, ThreadOK, Drivers, Cmd

\* What the end of a driver does to the types.
Results == {"none", "applied", "expired", "conflict", "fenced"}
CoreStates == {"down", "reconciled", "started", "recovering", "serving"}
\* A driver that ends leaves everything its type.
LEMMA AnswerType ==
    ASSUME TypeOK, NEW d \in Drivers, NEW a \in Results, Answer(d, a)
    PROVE  /\ pc' \in [Drivers -> PCs] /\ at' = at
           /\ sent' \in [Requests -> 0..MaxEpoch]
           /\ recovery' \in Commands \cup {"none"}
           /\ result' \in [Requests -> Results] /\ core' \in CoreStates
<1> USE DEF TypeOK, Results, CoreStates
<1>1. pc' \in [Drivers -> PCs] /\ at' = at  BY DEF Answer, Goto, PCs
<1>2. CASE d = Core  BY <1>1, <1>2 DEF Answer
<1>3. CASE d # Core
  <2>1. d \in Requests  BY <1>3 DEF Drivers
  <2>2. sent' \in [Requests -> 0..MaxEpoch]  BY <1>3, <2>1, BoundsAssumption DEF Answer
  <2>3. result' \in [Requests -> Results] /\ recovery' = recovery /\ core' = core  BY <1>3, <2>1 DEF Answer
  <2> QED  BY <1>1, <2>2, <2>3
<1> QED  BY <1>2, <1>3

\* Every step keeps the types.
LEMMA TypeStep ==
    ASSUME TypeOK, ThreadsOK, Next
    PROVE  TypeOK'
<1> USE DEF TypeOK, PCs, Answers, FenceOpen, RunStatus, store, observers, threads, handler, NoRun
<1>0. Core \in Drivers  BY DEF Drivers
<1>1. ASSUME NEW r \in Runs, Dispatch(r) PROVE TypeOK'  BY <1>1 DEF Dispatch, Outdate
<1>2. ASSUME NEW r \in Runs, Launch(r) PROVE TypeOK'  BY <1>2 DEF Launch
<1>3. ASSUME NEW r \in Runs, Exit(r) PROVE TypeOK'  BY <1>3 DEF Exit
<1>4. ASSUME Handling PROVE TypeOK'
  <2>1. ASSUME NEW r \in Runs, Report(r) PROVE TypeOK'  BY <2>1 DEF Report
  <2>2. ASSUME ReportRun PROVE TypeOK'
    <3>1. run' \in [Runs -> RunStatus]  BY <2>2 DEF ReportRun
    <3>2. quoted' \in [Commands -> {"none", "current", "stale"}]  BY <2>2 DEF ReportRun, Outdate
    <3> QED  BY <2>2, <3>1, <3>2 DEF ReportRun
  <2>3. ASSUME ReportTask PROVE TypeOK'
    <3>1. exitAt' \in {"idle", "attend"} /\ exitOf' \in Runs \cup {NoRun}  BY <2>3 DEF ReportTask
    <3>2. task' \in {task, "needs-you"} /\ quoted' \in [Commands -> {"none", "current", "stale"}]
      BY <2>3 DEF ReportTask, Outdate
    <3> QED  BY <2>3, <3>1, <3>2 DEF ReportTask
  <2> QED  BY <1>4, <2>1, <2>2, <2>3 DEF Handling
<1>5. ASSUME NEW r \in Runs, Settle(r) PROVE TypeOK'  BY <1>5 DEF Settle, Outdate
<1>6. ASSUME Takeover PROVE TypeOK'  BY <1>6, BoundsAssumption DEF Takeover
<1>7. ASSUME NEW S \in SUBSET Runs, Crash(S) PROVE TypeOK'  BY <1>7, BoundsAssumption DEF Crash
<1>8. ASSUME NEW q \in Requests, Send(q) PROVE TypeOK'
  <2>1. q \in Drivers /\ CmdOf[q] \in Commands  BY Commanded
  <2>2. CASE Replayable(CmdOf[q])
    <3>1. Answer(q, "applied") /\ UNCHANGED <<handler, quoted, task, run, fence, target, receipts, intent, proc, epoch, stops, crashes>>
      BY <1>8, <2>2 DEF Send
    <3> QED  BY <2>1, <3>1, AnswerType DEF Results, CoreStates
  <2>3. CASE ~Replayable(CmdOf[q])
    <3>0. /\ pc' = [pc EXCEPT ![q] = "gate"]
          /\ sent' = [sent EXCEPT ![q] = epoch]
          /\ quoted' = [quoted EXCEPT ![CmdOf[q]] = IF @ = "none" THEN "current" ELSE @]
          /\ UNCHANGED <<result, core, at, recovery>>
          /\ UNCHANGED <<handler, task, run, fence, target, receipts, intent, proc, epoch, stops, crashes>>
      BY <1>8, <2>3 DEF Send, Goto
    <3>1. pc' \in [Drivers -> PCs]  BY <3>0
    <3>2. sent' \in [Requests -> 0..MaxEpoch]  BY <3>0, BoundsAssumption
    <3>3. quoted' \in [Commands -> {"none", "current", "stale"}]  BY <2>1, <3>0
    <3> QED  BY <3>0, <3>1, <3>2, <3>3
  <2> QED  BY <2>2, <2>3
<1>9. ASSUME NEW q \in Requests, Reserve(q) PROVE TypeOK'
  <2>1. q \in Drivers /\ q # Core /\ Cmd(q) \in Commands  BY Commanded
  <2>2. /\ pc' \in [Drivers -> PCs] /\ at' = at
        /\ sent' \in [Requests -> 0..MaxEpoch]
        /\ recovery' \in Commands \cup {"none"}
        /\ result' \in [Requests -> Results] /\ core' \in CoreStates
    <3>1. CASE Refused(q)
      <4>1. PICK a \in Results : Answer(q, a)  BY <3>1 DEF Refused, Results
      <4> QED  BY <2>1, <4>1, AnswerType
    <3>2. CASE Admitted(q)  BY <2>1, <3>2 DEF Admitted, Goto, Results, CoreStates
    <3> QED  BY <1>9, <3>1, <3>2 DEF Reserve
  <2>3. fence' \in [Commands -> {"none", "finalized"} \cup FenceOpen]  BY <1>9, <2>1 DEF Reserve, NewFence
  <2>4. target' \in [Commands -> [Runs -> {"none", "pending", "stopping"} \cup Answers]]
    <3> DEFINE row == [r \in Runs |-> IF r \in ActiveRuns THEN "pending" ELSE "none"]
    <3>1. row \in [Runs -> {"none", "pending", "stopping"} \cup Answers]  OBVIOUS
    <3>2. target' = target \/ target' = [target EXCEPT ![Cmd(q)] = row]  BY <1>9 DEF Reserve, NewFence
    <3> HIDE DEF row
    <3> QED  BY <2>1, <3>1, <3>2
  <2>5. UNCHANGED <<handler, task, run, receipts, quoted, intent, proc, epoch, stops, crashes>>  BY <1>9 DEF Reserve
  <2> QED  BY <2>2, <2>3, <2>4, <2>5 DEF Results, CoreStates
<1>10. ASSUME NEW d \in Drivers, NEW r \in Runs, Claim(d, r) PROVE TypeOK'
  <2>1. Cmd(d) \in Commands  BY <1>10, Commanded DEF Claim, Inside
  <2> QED  BY <1>10, <2>1 DEF Claim, Goto
<1>11. ASSUME NEW d \in Drivers, NEW a \in Answers, Stop(d, a) PROVE TypeOK'
  <2>1. Cmd(d) \in Commands /\ at[d] \in Runs  BY <1>11, Commanded DEF Stop, Inside, Stopping, ThreadsOK, ThreadOK
  <2>2. proc' \in [Runs -> {"none", "launching", "alive", "dead"}]  BY <1>11, <2>1 DEF Stop, StopProcess
  <2>3. pc' \in [Drivers -> PCs]  BY <1>11 DEF Stop, Goto
  <2>4. stops[Cmd(d)] \in [Runs -> Nat]  BY <2>1
  <2>5. [stops[Cmd(d)] EXCEPT ![at[d]] = @ + 1] \in [Runs -> Nat]  BY <2>1, <2>4
  <2>6. stops' = [stops EXCEPT ![Cmd(d)] = [stops[Cmd(d)] EXCEPT ![at[d]] = @ + 1]]  BY <1>11 DEF Stop
  <2>7. stops' \in [Commands -> [Runs -> Nat]]  BY <2>1, <2>5, <2>6
  <2>8. UNCHANGED <<handler, task, run, fence, target, receipts, quoted, intent, core, epoch, at, sent, recovery, result, crashes>>
    BY <1>11 DEF Stop
  <2> QED  BY <2>2, <2>3, <2>7, <2>8
<1>12. ASSUME NEW d \in Drivers, Record(d) PROVE TypeOK'
  <2>1. Cmd(d) \in Commands /\ at[d] \in Runs  BY <1>12, Commanded DEF Record, Inside, Stopping, ThreadsOK, ThreadOK
  <2> QED  BY <1>12, <2>1 DEF Record, Goto
<1>13. ASSUME NEW d \in Drivers, ReserveIntent(d) PROVE TypeOK'
  <2>1. Cmd(d) \in Commands  BY <1>13, Commanded DEF ReserveIntent, Inside
  <2>2. intent' \in [Commands -> {"none", "reserved", "applied", "revoked"}]  BY <1>13, <2>1 DEF ReserveIntent
  <2>3. CASE Answer(d, "expired")  BY <1>13, <2>2, <2>3, AnswerType DEF ReserveIntent, Results, CoreStates
  <2>4. CASE ~Answer(d, "expired")
    <3>1. /\ pc' = [pc EXCEPT ![d] = "target"] /\ UNCHANGED <<result, core, at, sent, recovery>>
          /\ UNCHANGED <<handler, store, proc, epoch, stops, crashes>>
      BY <1>13, <2>4 DEF ReserveIntent, Goto
    <3>2. pc' \in [Drivers -> PCs]  BY <3>1 DEF PCs
    <3> QED  BY <2>2, <3>1, <3>2
  <2> QED  BY <2>3, <2>4
<1>14. ASSUME NEW d \in Drivers, Expire(d) PROVE TypeOK'
  <2>1. Cmd(d) \in Commands  BY <1>14, Commanded DEF Expire, Inside
  <2>2. intent' \in [Commands -> {"none", "reserved", "applied", "revoked"}]  BY <1>14, <2>1 DEF Expire
  <2> QED  BY <1>14, <2>2, AnswerType DEF Expire, Results, CoreStates
<1>15. ASSUME NEW d \in Drivers, Finalise(d) PROVE TypeOK'
  <2>1. Cmd(d) \in Commands  BY <1>15, Commanded DEF Finalise, Inside
  <2> QED  BY <1>15, <2>1 DEF Finalise, Outdate, Goto, Attend
<1>16. ASSUME NEW d \in Drivers, CommitService(d) PROVE TypeOK'
  <2>1. Cmd(d) \in Commands  BY <1>16, Commanded DEF CommitService, Inside
  <2>2. intent' \in [Commands -> {"none", "reserved", "applied", "revoked"}]  BY <1>16, <2>1 DEF CommitService
  <2> QED  BY <1>16, <2>2, AnswerType DEF CommitService, Results, CoreStates
<1>17. ASSUME Reconcile PROVE TypeOK'  BY <1>17 DEF Reconcile, Verdict
<1>18. ASSUME NEW known \in SUBSET Runs, Start(known) PROVE TypeOK'  BY <1>18 DEF Start, Outdate, Attend
<1>19. ASSUME Register PROVE TypeOK'  BY <1>0, <1>19 DEF Register, Goto
<1> QED  BY <1>1, <1>2, <1>3, <1>4, <1>5, <1>6, <1>7, <1>8, <1>9, <1>10, <1>11, <1>12,
            <1>13, <1>14, <1>15, <1>16, <1>17, <1>18, <1>19 DEF Next, World, Handling, Drive, Opening


\* The end of a driver leaves the others as they are.
LEMMA Ending ==
    ASSUME TypeOK, NEW d \in Drivers, NEW a, Answer(d, a)
    PROVE  /\ pc'[d] = "idle" /\ pc' = [pc EXCEPT ![d] = "idle"]
           /\ pc'[Core] # "idle" => pc'[Core] = pc[Core]
           /\ \A e \in Drivers : e # d => pc'[e] = pc[e] /\ at'[e] = at[e] /\ Cmd(e)' = Cmd(e)
<1>0. Core \in Drivers  BY DEF Drivers
<1>1. pc' = [pc EXCEPT ![d] = "idle"] /\ at' = at  BY DEF Answer, Goto
<1>2. \A e \in Drivers : e # d => Cmd(e)' = Cmd(e)  BY DEF Answer, Cmd
<1> QED  BY <1>0, <1>1, <1>2 DEF TypeOK

\* A driver is undisturbed when its own place and the rows it relies on are.
LEMMA Bystander ==
    ASSUME TypeOK, NEW e \in Drivers, ThreadOK(e),
           pc'[e] = pc[e], at'[e] = at[e], Cmd(e)' = Cmd(e),
           Inside(e) =>
              /\ fence[Cmd(e)] \in FenceOpen /\ pc[e] # "service" => fence'[Cmd(e)] \in FenceOpen
              /\ Stopping(e) => target'[Cmd(e)][at[e]] = "stopping"
              /\ pc[e] \in {"target", "service"} => intent'[Cmd(e)] = "reserved"
              /\ pc[e] = "service" => Cmd(e) \in receipts'
              /\ pc[e] = "confirmed" => proc'[at[e]] = "dead"
    PROVE  ThreadOK(e)'
BY DEF ThreadOK, Inside, Stopping, Open, Answers

\* A step that touches no thread and no open fence, and brings no process back to life.
LEMMA Elsewhere ==
    ASSUME TypeOK, ThreadsOK, UNCHANGED <<threads, fence, target, intent>>,
           receipts \subseteq receipts', \A r \in Runs : proc[r] = "dead" => proc'[r] = "dead"
    PROVE  ThreadsOK'
<1>1. ASSUME NEW e \in Drivers PROVE ThreadOK(e)'
  <2>1. ThreadOK(e)  BY DEF ThreadsOK
  <2>2. Cmd(e)' = Cmd(e) /\ pc'[e] = pc[e] /\ at'[e] = at[e]  BY DEF Cmd, threads
  <2> QED  BY <2>1, <2>2, Bystander DEF ThreadOK, Open, Stopping, Inside, Answers
<1> QED  BY <1>1 DEF ThreadsOK, threads

\* Every step keeps what the drivers rely on.
LEMMA ThreadsStep ==
    ASSUME TypeOK, ThreadsOK, Exclusive, OneOpen, Next
    PROVE  ThreadsOK'
<1>0. Core \in Drivers /\ Core \notin Requests /\ \A q \in Requests : q \in Drivers /\ q # Core
  BY RequestsAssumption DEF Drivers
<1>1. ASSUME NEW r \in Runs, Dispatch(r) PROVE ThreadsOK'
  <2>1. UNCHANGED <<pc, at, recovery, fence, target, intent, receipts>>  BY <1>1 DEF Dispatch, threads
  <2>2. ASSUME NEW e \in Drivers PROVE ThreadOK(e)'
    <3>1. ThreadOK(e) /\ Cmd(e)' = Cmd(e) /\ pc'[e] = pc[e] /\ at'[e] = at[e]  BY <2>1 DEF ThreadsOK, Cmd
    <3>2. Inside(e) => pc[e] = "service"  BY <1>1, <3>1 DEF Dispatch, Unfenced, Fenced, ThreadOK
    <3> QED  BY <2>1, <3>1, <3>2, Bystander DEF ThreadOK, Stopping, Inside, Answers
  <2> QED  BY <2>1, <2>2 DEF ThreadsOK
<1>2. ASSUME NEW r \in Runs, Launch(r) PROVE ThreadsOK'  BY <1>2, Elsewhere DEF Launch, store, TypeOK
<1>3. ASSUME NEW r \in Runs, Exit(r) PROVE ThreadsOK'  BY <1>3, Elsewhere DEF Exit, store, TypeOK
<1>4. ASSUME Handling PROVE ThreadsOK'  BY <1>4, Elsewhere DEF Handling, Report, ReportRun, ReportTask, store
<1>5. ASSUME NEW r \in Runs, Settle(r) PROVE ThreadsOK'  BY <1>5, Elsewhere DEF Settle
<1>6. ASSUME Takeover PROVE ThreadsOK'  BY <1>6, Elsewhere DEF Takeover, store
<1>7. ASSUME NEW S \in SUBSET Runs, Crash(S) PROVE ThreadsOK'
  <2>1. \A e \in Drivers : pc'[e] = "idle"  BY <1>7 DEF Crash
  <2> QED  BY <1>0, <2>1 DEF ThreadsOK, ThreadOK, Inside, Stopping, Answers
<1>8. ASSUME NEW q \in Requests, Send(q) PROVE ThreadsOK'
  <2>1. UNCHANGED <<fence, target, intent, receipts, proc>>  BY <1>8 DEF Send
  <2>2. pc'[q] \in {"idle", "gate"} /\ pc'[Core] # "gate"
    <3>1. CASE Answer(q, "applied")  BY <1>0, <3>1, Ending DEF ThreadsOK
    <3>2. CASE Goto(q, "gate")  BY <1>0, <3>2 DEF Goto, TypeOK, ThreadsOK
    <3> QED  BY <1>8, <3>1, <3>2 DEF Send
  <2>3. \A e \in Drivers : e # q => pc'[e] = pc[e] /\ at'[e] = at[e] /\ Cmd(e)' = Cmd(e)
    <3>1. CASE Answer(q, "applied")  BY <1>0, <3>1, Ending
    <3>2. CASE Goto(q, "gate") /\ UNCHANGED <<at, recovery>>  BY <1>0, <3>2 DEF Goto, TypeOK, Cmd
    <3> QED  BY <1>8, <3>1, <3>2 DEF Send
  <2>4. ASSUME NEW e \in Drivers PROVE ThreadOK(e)'
    <3>1. CASE e = q  BY <2>2, <3>1 DEF ThreadOK, Inside, Stopping, Answers
    <3>2. CASE e # q
      <4>1. ThreadOK(e) /\ pc'[e] = pc[e] /\ at'[e] = at[e] /\ Cmd(e)' = Cmd(e)  BY <2>3, <3>2 DEF ThreadsOK
      <4> QED  BY <2>1, <4>1, Bystander DEF ThreadOK, Stopping, Inside, Answers, Open
    <3> QED  BY <3>1, <3>2
  <2> QED  BY <2>2, <2>4 DEF ThreadsOK
<1>9. ASSUME NEW q \in Requests, Reserve(q) PROVE ThreadsOK'
  <2> DEFINE c == CmdOf[q]
  <2>0. /\ c \in Commands /\ Cmd(q) = c /\ Cmd(q)' = c /\ pc[q] = "gate" /\ q \in Drivers
        /\ fence \in [Commands -> {"none", "finalized"} \cup FenceOpen]
        /\ target \in [Commands -> [Runs -> {"none", "pending", "stopping"} \cup Answers]]
    BY <1>0, <1>9, RequestsAssumption DEF Cmd, Reserve, TypeOK
  <2>1. UNCHANGED <<intent, receipts, proc>>  BY <1>9 DEF Reserve
  <2>2. /\ \A e \in Drivers : e # q => pc'[e] = pc[e] /\ at'[e] = at[e] /\ Cmd(e)' = Cmd(e)
        /\ pc'[Core] # "gate"
        /\ pc'[q] = "idle" \/ (pc'[q] = "targets" /\ Admitted(q))
    <3>1. CASE Refused(q)
      <4>1. PICK a : Answer(q, a)  BY <3>1 DEF Refused
      <4>2. q \in Drivers /\ pc[Core] # "gate"  BY <2>0 DEF ThreadsOK
      <4>3. /\ pc'[q] = "idle" /\ (pc'[Core] # "idle" => pc'[Core] = pc[Core])
            /\ \A e \in Drivers : e # q => pc'[e] = pc[e] /\ at'[e] = at[e] /\ Cmd(e)' = Cmd(e)
        BY <4>1, <4>2, Ending
      <4> QED  BY <4>2, <4>3
    <3>2. CASE Admitted(q)  BY <1>0, <2>0, <3>2 DEF Admitted, Goto, TypeOK, Cmd, ThreadsOK
    <3> QED  BY <1>9, <3>1, <3>2 DEF Reserve
  <2>3. \A b \in Commands : b # c => fence'[b] = fence[b] /\ target'[b] = target[b]  BY <1>9, <2>0 DEF Reserve, NewFence
  <2>4. fence[c] \in FenceOpen => fence'[c] = fence[c] /\ target' = target
    BY <1>9, <2>0 DEF Reserve, NewFence, Open, Admitted
  <2>5. Admitted(q) => fence'[c] \in FenceOpen \/ Refused(q)  BY <1>9, <2>0 DEF Reserve, NewFence, Open, FenceOpen
  <2>6. pc'[q] = "targets" => fence'[c] \in FenceOpen
    <3>1. ASSUME pc'[q] = "targets" PROVE ~Refused(q)
      <4>1. ASSUME NEW a, Answer(q, a) PROVE FALSE  BY <2>0, <3>1, <4>1, Ending
      <4> QED  BY <4>1 DEF Refused
    <3> QED  BY <2>2, <2>5, <3>1
  <2>7. ASSUME NEW e \in Drivers PROVE ThreadOK(e)'
    <3>1. CASE e = q  BY <2>0, <2>2, <2>6, <3>1 DEF ThreadOK, Inside, Stopping, Answers, Open
    <3>2. CASE e # q
      <4>1. ThreadOK(e) /\ pc'[e] = pc[e] /\ at'[e] = at[e] /\ Cmd(e)' = Cmd(e)  BY <2>2, <3>2 DEF ThreadsOK
      <4>2. Inside(e) => Cmd(e) \in Commands  BY <4>1 DEF ThreadOK
      <4>3. Inside(e) => /\ fence[Cmd(e)] \in FenceOpen /\ pc[e] # "service" => fence'[Cmd(e)] \in FenceOpen
                         /\ Stopping(e) => target'[Cmd(e)][at[e]] = "stopping"
        BY <2>3, <2>4, <4>1, <4>2 DEF ThreadOK, Stopping, Inside, Answers, Open
      <4> QED  BY <2>1, <4>1, <4>3, Bystander DEF ThreadOK
    <3> QED  BY <3>1, <3>2
  <2> QED  BY <2>2, <2>7 DEF ThreadsOK
<1>10. ASSUME NEW d \in Drivers, NEW r \in Runs, Claim(d, r) PROVE ThreadsOK'
  <2> DEFINE c == Cmd(d)
  <2>1. ThreadOK(d) /\ Inside(d) /\ c \in Commands /\ fence[c] \in FenceOpen
    BY <1>10 DEF ThreadsOK, ThreadOK, Claim, Inside, Open
  <2>2. /\ UNCHANGED <<intent, receipts, proc, recovery>>
        /\ pc' = [pc EXCEPT ![d] = "stop"] /\ at' = [at EXCEPT ![d] = r]
        /\ target' = [target EXCEPT ![c][r] = "stopping"]
        /\ \A e \in Drivers : Cmd(e)' = Cmd(e)
    BY <1>10 DEF Claim, Goto, Cmd
  <2>3. \A b \in Commands : fence[b] \in FenceOpen => fence'[b] \in FenceOpen
    BY <1>10, <2>1 DEF Claim, TypeOK, FenceOpen
  <2>4. \A b \in Commands : b # c => target'[b] = target[b]  BY <2>1, <2>2 DEF TypeOK
  <2>5. target'[c][r] = "stopping"  BY <2>1, <2>2 DEF TypeOK
  <2> HIDE DEF c
  <2>6. ASSUME NEW e \in Drivers PROVE ThreadOK(e)'
    <3>1. CASE e = d  BY <2>1, <2>2, <2>3, <2>5, <3>1 DEF ThreadOK, Inside, Stopping, Answers, Open, TypeOK, c
    <3>2. CASE e # d
      <4>1. ThreadOK(e) /\ pc'[e] = pc[e] /\ at'[e] = at[e] /\ Cmd(e)' = Cmd(e)  BY <2>2, <3>2 DEF ThreadsOK, TypeOK
      <4>2. Inside(e) => Cmd(e) \in Commands /\ Cmd(e) # c  BY <2>1, <3>2, <4>1 DEF ThreadOK, Exclusive, c
      <4>3. Inside(e) => /\ fence[Cmd(e)] \in FenceOpen /\ pc[e] # "service" => fence'[Cmd(e)] \in FenceOpen
                         /\ Stopping(e) => target'[Cmd(e)][at[e]] = "stopping"
        BY <2>3, <2>4, <4>1, <4>2 DEF ThreadOK
      <4> QED  BY <2>2, <4>1, <4>3, Bystander DEF ThreadOK
    <3> QED  BY <3>1, <3>2
  <2> QED  BY <1>0, <2>2, <2>6 DEF ThreadsOK, TypeOK
<1>11. ASSUME NEW d \in Drivers, NEW a \in Answers, Stop(d, a) PROVE ThreadsOK'
  <2>1. /\ UNCHANGED <<fence, target, intent, receipts, at, recovery>>
        /\ pc' = [pc EXCEPT ![d] = a] /\ pc[d] = "stop"
        /\ \A e \in Drivers : Cmd(e)' = Cmd(e)
    BY <1>11 DEF Stop, Goto, Cmd, store
  <2>2. ThreadOK(d) /\ Stopping(d) /\ at[d] \in Runs  BY <2>1 DEF ThreadsOK, ThreadOK, Stopping
  <2>3. \A r \in Runs : proc[r] = "dead" => proc'[r] = "dead"  BY <1>11, <2>2 DEF Stop, StopProcess, TypeOK
  <2>4. a = "confirmed" => proc'[at[d]] = "dead"  BY <1>11, <2>2 DEF Stop, StopProcess, TypeOK
  <2>5. ASSUME NEW e \in Drivers PROVE ThreadOK(e)'
    <3>1. CASE e = d  BY <2>1, <2>2, <2>4, <3>1 DEF ThreadOK, Inside, Stopping, Answers, Open, TypeOK
    <3>2. CASE e # d
      <4>1. ThreadOK(e) /\ pc'[e] = pc[e] /\ at'[e] = at[e] /\ Cmd(e)' = Cmd(e)  BY <2>1, <3>2 DEF ThreadsOK, TypeOK
      <4> QED  BY <2>1, <2>3, <4>1, Bystander DEF ThreadOK, Inside, Stopping, Answers, Open
    <3> QED  BY <3>1, <3>2
  <2> QED  BY <1>0, <2>1, <2>5 DEF ThreadsOK, TypeOK, Answers
<1>12. ASSUME NEW d \in Drivers, Record(d) PROVE ThreadsOK'
  <2> DEFINE c == Cmd(d)
  <2>1. ThreadOK(d) /\ Inside(d) /\ c \in Commands /\ fence[c] \in FenceOpen /\ at[d] \in Runs
    BY <1>12 DEF ThreadsOK, ThreadOK, Record, Inside, Stopping, Open, Answers
  <2>2. /\ UNCHANGED <<intent, receipts, proc, recovery>>
        /\ pc' = [pc EXCEPT ![d] = "targets"] /\ at' = [at EXCEPT ![d] = NoRun]
        /\ target' = [target EXCEPT ![c][at[d]] = pc[d]]
        /\ \A e \in Drivers : Cmd(e)' = Cmd(e)
    BY <1>12 DEF Record, Goto, Cmd
  <2>3. \A b \in Commands : fence[b] \in FenceOpen => fence'[b] \in FenceOpen
    BY <1>12, <2>1 DEF Record, TypeOK, FenceOpen
  <2>4. \A b \in Commands : b # c => target'[b] = target[b]  BY <2>1, <2>2 DEF TypeOK
  <2> HIDE DEF c
  <2>5. ASSUME NEW e \in Drivers PROVE ThreadOK(e)'
    <3>1. CASE e = d  BY <2>1, <2>2, <2>3, <3>1 DEF ThreadOK, Inside, Stopping, Answers, Open, TypeOK, c
    <3>2. CASE e # d
      <4>1. ThreadOK(e) /\ pc'[e] = pc[e] /\ at'[e] = at[e] /\ Cmd(e)' = Cmd(e)  BY <2>2, <3>2 DEF ThreadsOK, TypeOK
      <4>2. Inside(e) => Cmd(e) \in Commands /\ Cmd(e) # c  BY <2>1, <3>2, <4>1 DEF ThreadOK, Exclusive, c
      <4>3. Inside(e) => /\ fence[Cmd(e)] \in FenceOpen /\ pc[e] # "service" => fence'[Cmd(e)] \in FenceOpen
                         /\ Stopping(e) => target'[Cmd(e)][at[e]] = "stopping"
        BY <2>3, <2>4, <4>1, <4>2 DEF ThreadOK
      <4> QED  BY <2>2, <4>1, <4>3, Bystander DEF ThreadOK
    <3> QED  BY <3>1, <3>2
  <2> QED  BY <1>0, <2>2, <2>5 DEF ThreadsOK, TypeOK
<1>13. ASSUME NEW d \in Drivers, ReserveIntent(d) PROVE ThreadsOK'
  <2>1. ThreadOK(d) /\ Inside(d) /\ Cmd(d) \in Commands  BY <1>13 DEF ThreadsOK, ThreadOK, ReserveIntent, Inside
  <2>2. UNCHANGED <<fence, target, receipts, proc>>  BY <1>13 DEF ReserveIntent, store
  <2>3. /\ \A e \in Drivers : e # d => pc'[e] = pc[e] /\ at'[e] = at[e] /\ Cmd(e)' = Cmd(e)
        /\ pc'[Core] # "gate"
        /\ \/ pc'[d] = "idle"
           \/ pc'[d] = "target" /\ intent'[Cmd(d)] = "reserved" /\ Cmd(d)' = Cmd(d)
    <3>1. CASE Answer(d, "expired")  BY <3>1, Ending DEF ThreadsOK
    <3>2. CASE ~Answer(d, "expired")
      <4>1. /\ pc' = [pc EXCEPT ![d] = "target"] /\ UNCHANGED <<at, recovery>>
            /\ intent' = [intent EXCEPT ![Cmd(d)] = "reserved"]
        BY <1>13, <3>2 DEF ReserveIntent, Goto
      <4> QED  BY <1>0, <2>1, <4>1 DEF TypeOK, Cmd, ThreadsOK
    <3> QED  BY <3>1, <3>2
  <2>4. \A b \in Commands : b # Cmd(d) => intent'[b] = intent[b]  BY <1>13, <2>1 DEF ReserveIntent, TypeOK
  <2>5. ASSUME NEW e \in Drivers PROVE ThreadOK(e)'
    <3>1. CASE e = d  BY <2>1, <2>2, <2>3, <3>1, <1>13 DEF ThreadOK, Inside, Stopping, Answers, Open, ReserveIntent
    <3>2. CASE e # d
      <4>1. ThreadOK(e) /\ pc'[e] = pc[e] /\ at'[e] = at[e] /\ Cmd(e)' = Cmd(e)  BY <2>3, <3>2 DEF ThreadsOK
      <4>2. Inside(e) => Cmd(e) \in Commands /\ Cmd(e) # Cmd(d)  BY <2>1, <3>2, <4>1 DEF ThreadOK, Exclusive
      <4> QED  BY <2>2, <2>4, <4>1, <4>2, Bystander DEF ThreadOK, Inside, Stopping, Answers, Open
    <3> QED  BY <3>1, <3>2
  <2> QED  BY <2>3, <2>5 DEF ThreadsOK
<1>14. ASSUME NEW d \in Drivers, Expire(d) PROVE ThreadsOK'
  <2>1. ThreadOK(d) /\ Inside(d) /\ Cmd(d) \in Commands  BY <1>14 DEF ThreadsOK, ThreadOK, Expire, Inside
  <2>2. /\ UNCHANGED <<fence, target, receipts, proc>>
        /\ Answer(d, "expired")
        /\ intent' = [intent EXCEPT ![Cmd(d)] = "revoked"]
    BY <1>14 DEF Expire, store
  <2>3. /\ \A e \in Drivers : e # d => pc'[e] = pc[e] /\ at'[e] = at[e] /\ Cmd(e)' = Cmd(e)
        /\ pc'[Core] # "gate" /\ pc'[d] = "idle"
    BY <2>2, Ending DEF ThreadsOK
  <2>4. \A b \in Commands : b # Cmd(d) => intent'[b] = intent[b]  BY <2>1, <2>2 DEF TypeOK
  <2>5. ASSUME NEW e \in Drivers PROVE ThreadOK(e)'
    <3>1. CASE e = d  BY <2>3, <3>1 DEF ThreadOK, Inside, Stopping, Answers
    <3>2. CASE e # d
      <4>1. ThreadOK(e) /\ pc'[e] = pc[e] /\ at'[e] = at[e] /\ Cmd(e)' = Cmd(e)  BY <2>3, <3>2 DEF ThreadsOK
      <4>2. Inside(e) => Cmd(e) \in Commands /\ Cmd(e) # Cmd(d)  BY <2>1, <3>2, <4>1 DEF ThreadOK, Exclusive
      <4> QED  BY <2>2, <2>4, <4>1, <4>2, Bystander DEF ThreadOK, Inside, Stopping, Answers, Open
    <3> QED  BY <3>1, <3>2
  <2> QED  BY <2>3, <2>5 DEF ThreadsOK
<1>15. ASSUME NEW d \in Drivers, Finalise(d) PROVE ThreadsOK'
  <2> DEFINE c == Cmd(d)
  <2>1. ThreadOK(d) /\ Inside(d) /\ c \in Commands /\ intent[c] = "reserved"
    BY <1>15 DEF ThreadsOK, ThreadOK, Finalise, Inside
  <2>2. /\ UNCHANGED <<target, intent, proc, at, recovery>>
        /\ pc' = [pc EXCEPT ![d] = "service"] /\ receipts' = receipts \cup {c}
        /\ fence' = [fence EXCEPT ![c] = "finalized"]
        /\ \A e \in Drivers : Cmd(e)' = Cmd(e)
    BY <1>15 DEF Finalise, Goto, Cmd
  <2>3. \A b \in Commands : b # c => fence'[b] = fence[b]  BY <2>1, <2>2 DEF TypeOK
  <2> HIDE DEF c
  <2>4. ASSUME NEW e \in Drivers PROVE ThreadOK(e)'
    <3>1. CASE e = d  BY <2>1, <2>2, <3>1 DEF ThreadOK, Inside, Stopping, Answers, TypeOK, c
    <3>2. CASE e # d
      <4>1. ThreadOK(e) /\ pc'[e] = pc[e] /\ at'[e] = at[e] /\ Cmd(e)' = Cmd(e)  BY <2>2, <3>2 DEF ThreadsOK, TypeOK
      <4>2. Inside(e) => Cmd(e) \in Commands /\ Cmd(e) # c  BY <2>1, <3>2, <4>1 DEF ThreadOK, Exclusive, c
      <4>3. Inside(e) /\ fence[Cmd(e)] \in FenceOpen => fence'[Cmd(e)] \in FenceOpen  BY <2>3, <4>2
      <4> QED  BY <2>2, <4>1, <4>3, Bystander DEF ThreadOK, Inside, Stopping, Answers
    <3> QED  BY <3>1, <3>2
  <2> QED  BY <1>0, <2>2, <2>4 DEF ThreadsOK, TypeOK
<1>16. ASSUME NEW d \in Drivers, CommitService(d) PROVE ThreadsOK'
  <2>1. ThreadOK(d) /\ Inside(d) /\ Cmd(d) \in Commands  BY <1>16 DEF ThreadsOK, ThreadOK, CommitService, Inside
  <2>2. /\ UNCHANGED <<fence, target, receipts, proc>>
        /\ Answer(d, "applied")
        /\ intent' = [intent EXCEPT ![Cmd(d)] = "applied"]
    BY <1>16 DEF CommitService, store
  <2>3. /\ \A e \in Drivers : e # d => pc'[e] = pc[e] /\ at'[e] = at[e] /\ Cmd(e)' = Cmd(e)
        /\ pc'[Core] # "gate" /\ pc'[d] = "idle"
    BY <2>2, Ending DEF ThreadsOK
  <2>4. \A b \in Commands : b # Cmd(d) => intent'[b] = intent[b]  BY <2>1, <2>2 DEF TypeOK
  <2>5. ASSUME NEW e \in Drivers PROVE ThreadOK(e)'
    <3>1. CASE e = d  BY <2>3, <3>1 DEF ThreadOK, Inside, Stopping, Answers
    <3>2. CASE e # d
      <4>1. ThreadOK(e) /\ pc'[e] = pc[e] /\ at'[e] = at[e] /\ Cmd(e)' = Cmd(e)  BY <2>3, <3>2 DEF ThreadsOK
      <4>2. Inside(e) => Cmd(e) \in Commands /\ Cmd(e) # Cmd(d)  BY <2>1, <3>2, <4>1 DEF ThreadOK, Exclusive
      <4> QED  BY <2>2, <2>4, <4>1, <4>2, Bystander DEF ThreadOK, Inside, Stopping, Answers, Open
    <3> QED  BY <3>1, <3>2
  <2> QED  BY <2>3, <2>5 DEF ThreadsOK
<1>17. ASSUME Reconcile PROVE ThreadsOK'
  <2>1. UNCHANGED <<pc, at, recovery, fence, target, receipts, proc>>  BY <1>17 DEF Reconcile, store, threads
  <2>2. \A e \in Drivers : pc[e] = "idle"  BY <1>17 DEF Reconcile, Exclusive, Drivers
  <2> QED  BY <1>0, <2>1, <2>2 DEF ThreadsOK, ThreadOK, Inside, Stopping, Answers
<1>18. ASSUME NEW known \in SUBSET Runs, Start(known) PROVE ThreadsOK'  BY <1>18, Elsewhere DEF Start
<1>19. ASSUME Register PROVE ThreadsOK'
  <2>1. CASE Fenced
    <3>1. PICK c \in Commands : Open(c) /\ recovery' = c  BY <1>19, <2>1 DEF Register
    <3>2. /\ UNCHANGED <<fence, target, receipts, intent, proc, at>>
          /\ pc' = [pc EXCEPT ![Core] = "targets"]
      BY <1>19, <2>1 DEF Register, store, Goto
    <3>3. \A e \in Drivers : e # Core => pc[e] = "idle"  BY <1>19 DEF Register, Exclusive, Drivers
    <3>4. ASSUME NEW e \in Drivers PROVE ThreadOK(e)'
      BY <1>0, <3>1, <3>2, <3>3 DEF ThreadOK, Inside, Stopping, Answers, Cmd, Open, TypeOK
    <3> QED  BY <1>0, <3>2, <3>4 DEF ThreadsOK, TypeOK
  <2>2. CASE ~Fenced  BY <1>19, <2>2, Elsewhere DEF Register, store, threads
  <2> QED  BY <2>1, <2>2
<1> QED  BY <1>1, <1>2, <1>3, <1>4, <1>5, <1>6, <1>7, <1>8, <1>9, <1>10, <1>11, <1>12,
            <1>13, <1>14, <1>15, <1>16, <1>17, <1>18, <1>19 DEF Next, World, Handling, Drive, Opening

\* The end of a driver keeps the drivers apart.
LEMMA EndingExclusive ==
    ASSUME TypeOK, ThreadsOK, Exclusive, NEW d \in Drivers, NEW a, Answer(d, a), pc[d] # "idle" \/ d # Core
    PROVE  Exclusive'
<1>1. /\ pc'[d] = "idle" /\ pc' = [pc EXCEPT ![d] = "idle"]
      /\ \A e \in Drivers : e # d => pc'[e] = pc[e] /\ Cmd(e)' = Cmd(e)
  BY Ending
<1>2. \A e, f \in Drivers : Inside(e)' /\ Inside(f)' /\ Cmd(e)' = Cmd(f)' => e = f  BY <1>1 DEF Exclusive, Inside
<1>3. CASE d = Core
  <2>1. core = "recovering" /\ core' # "serving" /\ core' # "recovering"  BY <1>3 DEF Exclusive, Answer
  <2> QED  BY <1>1, <1>2, <1>3, <2>1, RequestsAssumption DEF Exclusive, Drivers
<1>4. CASE d # Core
  <2>1. core' = core /\ d \in Requests /\ Core \in Drivers /\ \A q \in Requests : q \in Drivers
    BY <1>4 DEF Answer, Drivers
  <2> QED  BY <1>1, <1>2, <1>4, <2>1 DEF Exclusive
<1> QED  BY <1>3, <1>4

\* A driver that goes on inside keeps the drivers apart.
LEMMA GoingOn ==
    ASSUME TypeOK, Exclusive, NEW d \in Drivers, NEW p, Inside(d), p \notin {"idle", "gate"},
           pc' = [pc EXCEPT ![d] = p], UNCHANGED <<core, recovery>>
    PROVE  Exclusive'
<1>1. \A e \in Drivers : (Inside(e)' => Inside(e)) /\ Cmd(e)' = Cmd(e)  BY DEF Inside, Cmd, TypeOK
<1>2. \A e \in Drivers : pc[e] = "idle" => pc'[e] = "idle"  BY DEF Inside, TypeOK
<1> QED  BY <1>1, <1>2 DEF Exclusive, Drivers

\* Every step keeps the drivers apart.
LEMMA ExclusiveStep ==
    ASSUME TypeOK, ThreadsOK, Exclusive, Next
    PROVE  Exclusive'
<1>0. Core \in Drivers /\ Core \notin Requests /\ \A q \in Requests : q \in Drivers /\ q # Core
  BY RequestsAssumption DEF Drivers
<1>1. ASSUME UNCHANGED <<pc, recovery, core>> PROVE Exclusive'  BY <1>1 DEF Exclusive, Inside, Cmd
<1>2. ASSUME (\E r \in Runs : Dispatch(r) \/ Launch(r) \/ Exit(r) \/ Settle(r)) \/ Handling
      PROVE Exclusive'
  BY <1>1, <1>2 DEF Dispatch, Launch, Exit, Settle, Handling, Report, ReportRun, ReportTask, threads, store
<1>3. ASSUME Takeover PROVE Exclusive'  BY <1>1, <1>3 DEF Takeover, threads
<1>4. ASSUME NEW S \in SUBSET Runs, Crash(S) PROVE Exclusive'  BY <1>0, <1>4 DEF Crash, Exclusive, Inside
<1>5. ASSUME NEW q \in Requests, Send(q) PROVE Exclusive'
  <2>1. CASE Answer(q, "applied")  BY <1>0, <2>1, EndingExclusive
  <2>2. CASE ~Answer(q, "applied")
    <3>1. pc' = [pc EXCEPT ![q] = "gate"] /\ UNCHANGED <<core, recovery>> /\ core = "serving"
      BY <1>5, <2>2 DEF Send, Goto
    <3>2. \A e \in Drivers : (Inside(e)' => Inside(e)) /\ Cmd(e)' = Cmd(e)  BY <3>1 DEF Inside, Cmd, TypeOK
    <3> QED  BY <1>0, <3>1, <3>2 DEF Exclusive, TypeOK
  <2> QED  BY <2>1, <2>2
<1>6. ASSUME NEW q \in Requests, Reserve(q) PROVE Exclusive'
  <2>1. CASE Refused(q)
    <3>1. PICK a : Answer(q, a)  BY <2>1 DEF Refused
    <3>2. q \in Drivers /\ q # Core  BY <1>0
    <3> QED  BY <3>1, <3>2, EndingExclusive
  <2>2. CASE Admitted(q)
    <3>1. pc' = [pc EXCEPT ![q] = "targets"] /\ UNCHANGED <<core, recovery>> /\ pc[q] = "gate"
      BY <1>6, <2>2 DEF Reserve, Admitted, Goto
    <3>2. core = "serving" /\ pc[Core] = "idle"  BY <3>1 DEF Exclusive
    <3>3. \A e \in Drivers : e # q /\ Inside(e)' => e \in Requests /\ Inside(e)
      BY <3>1, <3>2 DEF Inside, Drivers, TypeOK
    <3>4. \A e \in Drivers : e \in Requests /\ Inside(e) => Cmd(e) # Cmd(q)
      BY <1>0, <1>6 DEF Reserve, GateFree, Inside, Cmd
    <3>5. \A e \in Drivers : Cmd(e)' = Cmd(e)  BY <3>1 DEF Cmd
    <3>6. \A e, f \in Drivers : Inside(e)' /\ Inside(f)' /\ Cmd(e)' = Cmd(f)' => e = f
      BY <3>3, <3>4, <3>5 DEF Exclusive
    <3>7. pc'[Core] = "idle"  BY <1>0, <3>1, <3>2 DEF TypeOK
    <3> QED  BY <3>1, <3>2, <3>6, <3>7 DEF Exclusive
  <2> QED  BY <1>6, <2>1, <2>2 DEF Reserve
<1>7. ASSUME NEW d \in Drivers, NEW r \in Runs, Claim(d, r) PROVE Exclusive'  BY <1>7, GoingOn DEF Claim, Goto, Inside
<1>8. ASSUME NEW d \in Drivers, NEW a \in Answers, Stop(d, a) PROVE Exclusive'
  BY <1>8, GoingOn DEF Stop, Goto, Inside, Answers
<1>9. ASSUME NEW d \in Drivers, Record(d) PROVE Exclusive'  BY <1>9, GoingOn DEF Record, Goto, Inside, Answers
<1>10. ASSUME NEW d \in Drivers, ReserveIntent(d) PROVE Exclusive'
  <2>1. CASE Answer(d, "expired")  BY <1>10, <2>1, EndingExclusive DEF ReserveIntent
  <2>2. CASE ~Answer(d, "expired")  BY <1>10, <2>2, GoingOn DEF ReserveIntent, Goto, Inside
  <2> QED  BY <2>1, <2>2
<1>11. ASSUME NEW d \in Drivers, Expire(d) PROVE Exclusive'  BY <1>11, EndingExclusive DEF Expire
<1>12. ASSUME NEW d \in Drivers, Finalise(d) PROVE Exclusive'  BY <1>12, GoingOn DEF Finalise, Goto, Inside
<1>13. ASSUME NEW d \in Drivers, CommitService(d) PROVE Exclusive'  BY <1>13, EndingExclusive DEF CommitService
<1>14. ASSUME Reconcile PROVE Exclusive'  BY <1>14 DEF Reconcile, threads, Exclusive, Inside, Cmd
<1>15. ASSUME NEW known \in SUBSET Runs, Start(known) PROVE Exclusive'
  <2>1. UNCHANGED <<pc, recovery>> /\ core = "reconciled" /\ core' \in {"started", "down"}  BY <1>15 DEF Start, threads
  <2> QED  BY <2>1 DEF Exclusive, Inside, Cmd
<1>16. ASSUME Register PROVE Exclusive'
  <2>1. core = "started" /\ pc[Core] = "idle" /\ \A q \in Requests : pc[q] = "idle"  BY <1>16 DEF Register, Exclusive
  <2>2. CASE Fenced
    <3>1. pc' = [pc EXCEPT ![Core] = "targets"] /\ core' = "recovering"  BY <1>16, <2>2 DEF Register, Goto
    <3>2. \A e \in Drivers : Inside(e)' => e = Core  BY <2>1, <3>1 DEF Inside, Drivers, TypeOK
    <3> QED  BY <1>0, <2>1, <3>1, <3>2 DEF Exclusive, TypeOK
  <2>3. CASE ~Fenced  BY <1>16, <2>1, <2>3 DEF Register, Exclusive, Inside, Cmd
  <2> QED  BY <2>2, <2>3
<1> QED  BY <1>2, <1>3, <1>4, <1>5, <1>6, <1>7, <1>8, <1>9, <1>10, <1>11, <1>12, <1>13,
            <1>14, <1>15, <1>16 DEF Next, World, Handling, Drive, Opening

\* A step that touches no row of a fence keeps the rows right if it writes nothing of the
\* task, ...
LEMMA QuietStep ==
    ASSUME TypeOK, FenceInv, UNCHANGED <<fence, target, receipts, run>>,
           \A c \in Commands : quoted[c] # "none" => quoted'[c] = quoted[c],
           \A r \in Runs : proc[r] = "dead" => proc'[r] = "dead"
    PROVE  FenceInv'
<1>1. OneOpen' /\ CancelledIsStopped'  BY DEF FenceInv, OneOpen, Open, CancelledIsStopped
<1>2. FenceRows'  BY DEF FenceInv, FenceRows, Open
<1>3. FenceFreezes'  BY DEF FenceInv, FenceFreezes, Open, ActiveRuns
<1> QED  BY <1>1, <1>2, <1>3 DEF FenceInv

\* ... and, if it does, because there is no open fence.
LEMMA WritingStep ==
    ASSUME TypeOK, FenceInv, Unfenced, Outdate, UNCHANGED <<fence, target, receipts>>, CancelledIsStopped'
    PROVE  FenceInv'
<1>1. \A c \in Commands : ~Open(c) /\ ~Open(c)'  BY DEF Unfenced, Fenced, Open
<1>2. FenceRows'
  <2>1. \A c \in Commands : c \in receipts => quoted'[c] = "stale"  BY DEF FenceInv, FenceRows, Outdate
  <2> QED  BY <1>1, <2>1 DEF FenceInv, FenceRows
<1> QED  BY <1>1, <1>2 DEF FenceInv, OneOpen, FenceFreezes

\* A driver moves one target of its open fence on: the rest of the fence stays as it is.
LEMMA RowChange ==
    ASSUME TypeOK, FenceInv, NEW c \in Commands, NEW r \in Runs, NEW a \in {"stopping"} \cup Answers,
           fence[c] \in FenceOpen, fence'[c] \in FenceOpen,
           UNCHANGED <<run, receipts, quoted, proc>>,
           \A b \in Commands : b # c => fence'[b] = fence[b] /\ target'[b] = target[b],
           \A s \in Runs : target'[c][s] = IF s = r THEN a ELSE target[c][s],
           target[c][r] \in {"pending", "stopping"}, a = "confirmed" => proc[r] = "dead"
    PROVE  FenceInv'
<1>1. OneOpen'  BY DEF FenceInv, OneOpen, Open
<1>2. FenceRows'
  <2>1. ASSUME NEW b \in Commands, b # c
        PROVE  /\ fence'[b] = "finalized" <=> b \in receipts'
               /\ b \in receipts' => quoted'[b] = "stale"
               /\ fence'[b] = "none" => \A s \in Runs : target'[b][s] = "none"
               /\ Open(b)' => \A s \in Runs : target'[b][s] = "confirmed" => proc'[s] = "dead"
    BY <2>1 DEF FenceInv, FenceRows, Open
  <2>2. fence'[c] # "finalized" /\ fence'[c] # "none" /\ c \notin receipts'  BY DEF FenceOpen, FenceInv, FenceRows
  <2>3. \A s \in Runs : target'[c][s] = "confirmed" => proc'[s] = "dead"  BY DEF FenceInv, FenceRows, Open
  <2> QED  BY <2>1, <2>2, <2>3 DEF FenceRows
<1>3. FenceFreezes'
  <2>1. ActiveRuns' = ActiveRuns  BY DEF ActiveRuns
  <2>2. \A s \in Runs : target'[c][s] # "none" <=> target[c][s] # "none"  BY DEF Answers
  <2>3. {s \in Runs : target'[c][s] # "none"} = {s \in Runs : target[c][s] # "none"}  BY <2>2
  <2> QED  BY <2>1, <2>3 DEF FenceInv, FenceFreezes, Open
<1>4. CancelledIsStopped'  BY DEF FenceInv, CancelledIsStopped
<1> QED  BY <1>1, <1>2, <1>3, <1>4 DEF FenceInv

\* Every step keeps the rows of the fences right.
LEMMA FenceStep ==
    ASSUME TypeOK, ThreadsOK, Exclusive, FenceInv, Next
    PROVE  FenceInv'
<1>1. ASSUME NEW r \in Runs, Dispatch(r) PROVE FenceInv'
  <2>1. CancelledIsStopped'  BY <1>1 DEF Dispatch, FenceInv, CancelledIsStopped, TypeOK
  <2> QED  BY <1>1, <2>1, WritingStep DEF Dispatch
<1>2. ASSUME NEW r \in Runs, Launch(r) \/ Exit(r) PROVE FenceInv'  BY <1>2, QuietStep DEF Launch, Exit, store, TypeOK
<1>3. ASSUME NEW r \in Runs, Settle(r) PROVE FenceInv'
  <2>1. CancelledIsStopped'  BY <1>3 DEF Settle, FenceInv, CancelledIsStopped, TypeOK
  <2> QED  BY <1>3, <2>1, WritingStep DEF Settle
<1>4. ASSUME Handling PROVE FenceInv'
  <2>1. UNCHANGED <<fence, target, receipts, proc>>  BY <1>4 DEF Handling, Report, ReportRun, ReportTask, store
  <2>2. CASE UNCHANGED <<run, quoted>>  BY <2>1, <2>2, QuietStep
  <2>3. CASE Unfenced /\ Outdate
    <3>1. CancelledIsStopped'
      BY <1>4, <2>1 DEF Handling, Report, ReportRun, ReportTask, store, FenceInv, CancelledIsStopped, TypeOK
    <3> QED  BY <2>1, <2>3, <3>1, WritingStep
  <2> QED  BY <1>4, <2>2, <2>3 DEF Handling, Report, ReportRun, ReportTask, store
<1>5. ASSUME Takeover PROVE FenceInv'  BY <1>5, QuietStep DEF Takeover, store
<1>6. ASSUME NEW S \in SUBSET Runs, Crash(S) PROVE FenceInv'  BY <1>6, QuietStep DEF Crash, store, TypeOK
<1>7. ASSUME NEW q \in Requests, Send(q) PROVE FenceInv'
  <2>1. \A c \in Commands : quoted[c] # "none" => quoted'[c] = quoted[c]  BY <1>7 DEF Send, TypeOK
  <2> QED  BY <1>7, <2>1, QuietStep DEF Send
<1>8. ASSUME NEW q \in Requests, Reserve(q) PROVE FenceInv'
  <2> DEFINE c == CmdOf[q]
  <2>1. /\ c \in Commands /\ Cmd(q) = c
        /\ UNCHANGED <<task, run, receipts, quoted, intent, proc>>
    BY <1>8, RequestsAssumption DEF Reserve, Cmd
  <2>2. CASE UNCHANGED <<fence, target>>  BY <2>1, <2>2, QuietStep
  <2>3. CASE Admitted(q) /\ ~Open(c) /\ NewFence(c)
    <3>1. quoted[c] = "current" /\ Unfenced  BY <2>1, <2>3 DEF Admitted, Unfenced
    <3>2. fence[c] \notin FenceOpen /\ fence'[c] \in FenceOpen /\ c \notin receipts
      BY <2>1, <2>3, <3>1 DEF NewFence, Open, FenceOpen, TypeOK, FenceInv, FenceRows
    <3>3. \A b \in Commands : b # c => fence'[b] = fence[b] /\ target'[b] = target[b] /\ ~Open(b)'
      BY <2>1, <2>3, <3>1 DEF NewFence, TypeOK, Unfenced, Fenced, Open
    <3>4. \A r \in Runs : target'[c][r] = IF r \in ActiveRuns THEN "pending" ELSE "none"
      BY <2>1, <2>3 DEF NewFence, TypeOK
    <3> HIDE DEF c
    <3>5. OneOpen'  BY <3>3 DEF OneOpen
    <3>6. FenceRows'
      <4>1. ASSUME NEW b \in Commands, b # c
            PROVE  /\ fence'[b] = "finalized" <=> b \in receipts'
                   /\ b \in receipts' => quoted'[b] = "stale"
                   /\ fence'[b] = "none" => \A r \in Runs : target'[b][r] = "none"
        BY <2>1, <3>3, <4>1 DEF FenceInv, FenceRows
      <4>2. /\ fence'[c] # "finalized" /\ fence'[c] # "none" /\ c \notin receipts'
            /\ \A r \in Runs : target'[c][r] # "confirmed"
        BY <2>1, <3>2, <3>4 DEF FenceOpen
      <4> QED  BY <3>3, <4>1, <4>2 DEF FenceRows
    <3>7. FenceFreezes'
      <4>1. {r \in Runs : target'[c][r] # "none"} = ActiveRuns  BY <3>4 DEF ActiveRuns
      <4>2. ActiveRuns' = ActiveRuns  BY <2>1 DEF ActiveRuns
      <4> QED  BY <2>1, <3>1, <3>3, <4>1, <4>2 DEF FenceFreezes
    <3>8. CancelledIsStopped'  BY <2>1 DEF FenceInv, CancelledIsStopped
    <3> QED  BY <3>5, <3>6, <3>7, <3>8 DEF FenceInv
  <2> QED  BY <1>8, <2>1, <2>2, <2>3 DEF Reserve
<1>9. ASSUME NEW d \in Drivers, NEW r \in Runs, Claim(d, r) PROVE FenceInv'
  <2> DEFINE c == Cmd(d)
  <2>1. c \in Commands /\ fence[c] \in FenceOpen  BY <1>9 DEF ThreadsOK, ThreadOK, Claim, Inside, Open
  <2>2. UNCHANGED <<run, receipts, quoted, proc>> /\ fence'[c] \in FenceOpen  BY <1>9, <2>1 DEF Claim, TypeOK, FenceOpen
  <2>3. \A b \in Commands : b # c => fence'[b] = fence[b] /\ target'[b] = target[b]  BY <1>9, <2>1 DEF Claim, TypeOK
  <2>4. \A s \in Runs : target'[c][s] = IF s = r THEN "stopping" ELSE target[c][s]  BY <1>9, <2>1 DEF Claim, TypeOK
  <2>5. target[c][r] \in {"pending", "stopping"}  BY <1>9 DEF Claim, OpenTargets
  <2> QED  BY <2>1, <2>2, <2>3, <2>4, <2>5, RowChange
<1>10. ASSUME NEW d \in Drivers, NEW a \in Answers, Stop(d, a) PROVE FenceInv'
  <2>1. at[d] \in Runs  BY <1>10 DEF ThreadsOK, ThreadOK, Stopping, Stop
  <2> QED  BY <1>10, <2>1, QuietStep DEF Stop, StopProcess, store, TypeOK
<1>11. ASSUME NEW d \in Drivers, Record(d) PROVE FenceInv'
  <2> DEFINE c == Cmd(d)
  <2>1. /\ c \in Commands /\ fence[c] \in FenceOpen /\ at[d] \in Runs /\ target[c][at[d]] = "stopping"
        /\ pc[d] = "confirmed" => proc[at[d]] = "dead"
    BY <1>11 DEF ThreadsOK, ThreadOK, Record, Inside, Stopping, Open, Answers
  <2>2. UNCHANGED <<run, receipts, quoted, proc>> /\ fence'[c] \in FenceOpen
    BY <1>11, <2>1 DEF Record, TypeOK, FenceOpen
  <2>3. \A b \in Commands : b # c => fence'[b] = fence[b] /\ target'[b] = target[b]  BY <1>11, <2>1 DEF Record, TypeOK
  <2>4. \A s \in Runs : target'[c][s] = IF s = at[d] THEN pc[d] ELSE target[c][s]  BY <1>11, <2>1 DEF Record, TypeOK
  <2>5. pc[d] \in Answers  BY <1>11 DEF Record
  <2> QED  BY <2>1, <2>2, <2>3, <2>4, <2>5, RowChange DEF Answers
<1>12. ASSUME NEW d \in Drivers, ReserveIntent(d) \/ Expire(d) \/ CommitService(d) PROVE FenceInv'
  BY <1>12, QuietStep DEF ReserveIntent, Expire, CommitService, store
<1>13. ASSUME NEW d \in Drivers, Finalise(d) PROVE FenceInv'
  <2>0. PICK c \in Commands : c = Cmd(d)  BY <1>13 DEF ThreadsOK, ThreadOK, Finalise, Inside
  <2>1. fence[c] \in FenceOpen  BY <1>13, <2>0 DEF ThreadsOK, ThreadOK, Finalise, Inside, Open
  <2>2. /\ UNCHANGED <<target, proc>> /\ receipts' = receipts \cup {c}
        /\ \A b \in Commands : fence'[b] = IF b = c THEN "finalized" ELSE fence[b]
    BY <1>13, <2>0, <2>1 DEF Finalise, TypeOK
  <2>3. \A b \in Commands : b # c => ~Open(b) /\ ~Open(b)'  BY <2>1, <2>2 DEF FenceInv, OneOpen, Open
  <2>4. ~Open(c)'  BY <2>1, <2>2 DEF Open, FenceOpen
  <2>5. \A b \in Commands : b \in receipts' => quoted'[b] = "stale"
    BY <1>13, <2>0, <2>1, <2>2 DEF Finalise, Outdate, FenceInv, FenceRows, FenceFreezes, Open
  <2>6. CancelledIsStopped'
    <3>1. \A r \in Runs : r \in Confirmed(c) => proc[r] = "dead"  BY <2>1 DEF Confirmed, FenceInv, FenceRows, Open
    <3>2. \A r \in Runs : run'[r] = "cancelled" => r \in Confirmed(c) \/ run[r] = "cancelled"
      BY <1>13, <2>0 DEF Finalise
    <3> QED  BY <2>2, <3>1, <3>2 DEF FenceInv, CancelledIsStopped
  <2>7. FenceRows'  BY <2>1, <2>2, <2>3, <2>4, <2>5 DEF FenceInv, FenceRows, FenceOpen
  <2> QED  BY <2>3, <2>4, <2>6, <2>7 DEF FenceInv, OneOpen, FenceFreezes
<1>14. ASSUME Reconcile PROVE FenceInv'  BY <1>14, QuietStep DEF Reconcile, store
<1>15. ASSUME NEW known \in SUBSET Runs, Start(known) PROVE FenceInv'
  <2>1. CASE UNCHANGED <<run, quoted>>  BY <1>15, <2>1, QuietStep DEF Start
  <2>2. CASE Unfenced /\ Outdate /\ \A r \in Runs : run'[r] = "cancelled" => run[r] = "cancelled"
    BY <1>15, <2>2, WritingStep DEF Start, FenceInv, CancelledIsStopped
  <2>3. (\A r \in Runs : run'[r] = "cancelled" => run[r] = "cancelled") \/ run' = run  BY <1>15 DEF Start, TypeOK
  <2> QED  BY <1>15, <2>1, <2>2, <2>3 DEF Start, Unfenced
<1>16. ASSUME Register PROVE FenceInv'  BY <1>16, QuietStep DEF Register, store
<1> QED  BY <1>1, <1>2, <1>3, <1>5, <1>6, <1>7, <1>8, <1>9, <1>10, <1>11, <1>12, <1>13, <1>14,
            <1>15, <1>16, <1>4 DEF Next, World, Handling, Drive, Opening

\* Every step keeps the two stores in agreement.
LEMMA IntentsStep ==
    ASSUME TypeOK, ThreadsOK, Exclusive, FenceInv, IntentsOK, Next
    PROVE  IntentsOK'
<1>0. Core \in Drivers /\ Core \notin Requests /\ \A q \in Requests : q \in Drivers /\ q # Core
  BY RequestsAssumption DEF Drivers
<1>1. ASSUME UNCHANGED <<intent, receipts>>,
             core' = core \/ core' \in {"down", "serving"},
             core' = "recovering" => UNCHANGED recovery /\ pc'[Core] = pc[Core]
      PROVE IntentsOK'
  BY <1>1 DEF IntentsOK
<1>2. ASSUME NEW d \in Drivers, Inside(d) PROVE core = IF d = Core THEN "recovering" ELSE "serving"
  BY <1>2 DEF Exclusive, Inside, Drivers
<1>3. ASSUME (\E r \in Runs : Dispatch(r) \/ Launch(r) \/ Exit(r) \/ Settle(r)) \/ Handling
      PROVE IntentsOK'
  BY <1>1, <1>3 DEF Dispatch, Launch, Exit, Settle, Handling, Report, ReportRun, ReportTask, store, threads
<1>4. ASSUME Takeover PROVE IntentsOK'  BY <1>1, <1>4 DEF Takeover, store, threads
<1>5. ASSUME NEW S \in SUBSET Runs, Crash(S) PROVE IntentsOK'  BY <1>1, <1>5 DEF Crash, store
<1>6. ASSUME NEW q \in Requests, Send(q) PROVE IntentsOK'
  <2>1. UNCHANGED <<intent, receipts>> /\ core = "serving" /\ core' = core  BY <1>0, <1>6 DEF Send, Answer
  <2> QED  BY <1>1, <2>1
<1>7. ASSUME NEW q \in Requests, Reserve(q) PROVE IntentsOK'
  <2>1. UNCHANGED <<intent, receipts>> /\ core' = core /\ core = "serving"
    BY <1>0, <1>7 DEF Reserve, Refused, Admitted, Answer, Exclusive
  <2> QED  BY <1>1, <2>1
<1>8. ASSUME NEW d \in Drivers,
             (\E r \in Runs : Claim(d, r)) \/ (\E a \in Answers : Stop(d, a)) \/ Record(d)
      PROVE IntentsOK'
  <2>1. UNCHANGED <<intent, receipts, core, recovery>> /\ Inside(d)
    BY <1>8 DEF Claim, Stop, Record, store, Inside, Answers
  <2>2. core = "recovering" => d = Core /\ pc[Core] \notin {"target", "service"}
    BY <1>2, <1>8, <2>1 DEF Claim, Stop, Record, Answers
  <2> QED  BY <2>1, <2>2 DEF IntentsOK
<1>9. ASSUME NEW d \in Drivers, ReserveIntent(d) PROVE IntentsOK'
  <2>0. Inside(d)  BY <1>9 DEF ReserveIntent, Inside
  <2>1. PICK c \in Commands : c = Cmd(d)  BY <2>0 DEF ThreadsOK, ThreadOK
  <2>2. c \notin receipts
    <3>1. fence[c] \in FenceOpen  BY <1>9, <2>1 DEF ReserveIntent, ThreadsOK, ThreadOK, Inside, Open
    <3> QED  BY <3>1 DEF FenceInv, FenceRows, FenceOpen
  <2>3. CASE Answer(d, "expired") /\ UNCHANGED intent
    <3>1. UNCHANGED receipts /\ (core' = core \/ core' = "down")  BY <1>9, <2>3 DEF Answer, ReserveIntent, store
    <3>2. core' = "recovering" => FALSE  BY <1>2, <2>0, <2>3 DEF Answer
    <3> QED  BY <1>1, <2>3, <3>1, <3>2
  <2>4. CASE ~(Answer(d, "expired") /\ UNCHANGED intent)
    <3>1. /\ intent' = [intent EXCEPT ![c] = "reserved"] /\ pc' = [pc EXCEPT ![d] = "target"]
          /\ UNCHANGED <<receipts, core, recovery>>
      BY <1>9, <2>1, <2>4 DEF ReserveIntent, Goto, store
    <3>2. core = "recovering" => recovery = c /\ pc'[Core] = "target"  BY <1>0, <1>2, <2>0, <2>1, <3>1 DEF Cmd, TypeOK
    <3>3. core \in {"recovering", "serving"}  BY <1>2, <2>0
    <3>4. core = "recovering" => \A b \in Commands : intent[b] # "reserved"
      BY <1>2, <1>9, <2>0 DEF IntentsOK, ReserveIntent
    <3> QED  BY <2>2, <3>1, <3>2, <3>3, <3>4 DEF IntentsOK, TypeOK
  <2> QED  BY <2>3, <2>4
<1>10. ASSUME NEW d \in Drivers, Expire(d) PROVE IntentsOK'
  <2>0. Inside(d) /\ d # Core  BY <1>10 DEF Expire, Inside, Stale
  <2>1. PICK c \in Commands : c = Cmd(d)  BY <2>0 DEF ThreadsOK, ThreadOK
  <2>2. c \notin receipts
    <3>1. fence[c] \in FenceOpen  BY <1>10, <2>1 DEF Expire, ThreadsOK, ThreadOK, Inside, Open
    <3> QED  BY <3>1 DEF FenceInv, FenceRows, FenceOpen
  <2>3. intent' = [intent EXCEPT ![c] = "revoked"] /\ UNCHANGED receipts /\ core' = "serving"
    BY <1>2, <1>10, <2>0, <2>1 DEF Expire, Answer, store
  <2> QED  BY <2>2, <2>3 DEF IntentsOK, TypeOK
<1>11. ASSUME NEW d \in Drivers, Finalise(d) PROVE IntentsOK'
  <2>0. Inside(d)  BY <1>11 DEF Finalise, Inside
  <2>1. PICK c \in Commands : c = Cmd(d)  BY <2>0 DEF ThreadsOK, ThreadOK
  <2>2. intent[c] = "reserved"  BY <1>11, <2>1 DEF Finalise, ThreadsOK, ThreadOK
  <2>3. /\ UNCHANGED <<intent, core, recovery>> /\ receipts' = receipts \cup {c}
        /\ pc' = [pc EXCEPT ![d] = "service"]
    BY <1>11, <2>1 DEF Finalise, Goto
  <2>4. core = "recovering" => recovery = c /\ pc'[Core] = "service"  BY <1>0, <1>2, <2>0, <2>1, <2>3 DEF Cmd, TypeOK
  <2> QED  BY <2>2, <2>3, <2>4 DEF IntentsOK
<1>12. ASSUME NEW d \in Drivers, CommitService(d) PROVE IntentsOK'
  <2>0. Inside(d)  BY <1>12 DEF CommitService, Inside
  <2>1. PICK c \in Commands : c = Cmd(d)  BY <2>0 DEF ThreadsOK, ThreadOK
  <2>2. c \in receipts  BY <1>12, <2>1 DEF CommitService, ThreadsOK, ThreadOK
  <2>3. intent' = [intent EXCEPT ![c] = "applied"] /\ UNCHANGED receipts  BY <1>12, <2>1 DEF CommitService, store
  <2>4. CASE d = Core
    <3>1. core = "recovering" /\ core' = "started" /\ recovery = c
      BY <1>2, <1>12, <2>0, <2>1, <2>4 DEF CommitService, Answer, Cmd
    <3> QED  BY <2>2, <2>3, <3>1 DEF IntentsOK, TypeOK
  <2>5. CASE d # Core
    <3>1. core' = "serving"  BY <1>2, <1>12, <2>0, <2>5 DEF CommitService, Answer
    <3> QED  BY <2>2, <2>3, <3>1 DEF IntentsOK, TypeOK
  <2> QED  BY <2>4, <2>5
<1>13. ASSUME Reconcile PROVE IntentsOK'
  <2>1. /\ UNCHANGED receipts /\ core' = "reconciled"
        /\ \A c \in Commands : intent'[c] = IF intent[c] = "reserved" THEN Verdict(c) ELSE intent[c]
    BY <1>13 DEF Reconcile, store
  <2> QED  BY <2>1 DEF IntentsOK, Verdict
<1>14. ASSUME NEW known \in SUBSET Runs, Start(known) PROVE IntentsOK'
  <2>1. UNCHANGED <<intent, receipts>> /\ core = "reconciled" /\ core' \in {"started", "down"}  BY <1>14 DEF Start
  <2> QED  BY <2>1 DEF IntentsOK
<1>15. ASSUME Register PROVE IntentsOK'
  <2>1. UNCHANGED <<intent, receipts>> /\ core = "started" /\ core' \in {"recovering", "serving"}
    BY <1>15 DEF Register, store
  <2> QED  BY <2>1 DEF IntentsOK
<1> QED  BY <1>3, <1>4, <1>5, <1>6, <1>7, <1>8, <1>9, <1>10, <1>11, <1>12, <1>13, <1>14, <1>15 DEF Next, World,
    Handling, Drive, Opening

\* A step that makes no stop and loses no answer.
LEMMA NoStop ==
    ASSUME StopsOK, UNCHANGED stops,
           \A c \in Commands, r \in Runs : target[c][r] \in Answers => target'[c][r] \in Answers,
           \A e \in Drivers : pc[e] \in Answers =>
              pc'[e] = pc[e] /\ at'[e] = at[e] /\ Cmd(e)' = Cmd(e)
    PROVE  StopsOK'
<1>1. ASSUME NEW c \in Commands, NEW r \in Runs, stops[c][r] = 1
      PROVE  \/ target'[c][r] \in Answers
             \/ \E d \in Drivers : pc'[d] \in Answers /\ Cmd(d)' = c /\ at'[d] = r
  BY <1>1 DEF StopsOK
<1> QED  BY <1>1 DEF StopsOK

\* Every step keeps the count of the stops.
LEMMA StopsStep ==
    ASSUME TypeOK, ThreadsOK, Exclusive, FenceInv, StopsOK, Next
    PROVE  StopsOK'
<1>0. Core \in Drivers /\ Core \notin Requests /\ \A q \in Requests : q \in Drivers /\ q # Core
  BY RequestsAssumption DEF Drivers
<1>1. ASSUME UNCHANGED <<target, stops, pc, at, recovery>> PROVE StopsOK'  BY <1>1, NoStop DEF Cmd
<1>2. ASSUME NEW d \in Drivers, NEW a, Answer(d, a), pc[d] \notin Answers, UNCHANGED <<target, stops>>
      PROVE StopsOK'
  <2>1. \A e \in Drivers : pc[e] \in Answers => pc'[e] = pc[e] /\ at'[e] = at[e] /\ Cmd(e)' = Cmd(e)  BY <1>2, Ending
  <2> QED  BY <1>2, <2>1, NoStop
<1>3. ASSUME NEW d \in Drivers, NEW p, pc' = [pc EXCEPT ![d] = p], pc[d] \notin Answers,
             UNCHANGED <<target, stops, at, recovery>>
      PROVE StopsOK'
  <2>1. \A e \in Drivers : pc[e] \in Answers => pc'[e] = pc[e] /\ at'[e] = at[e] /\ Cmd(e)' = Cmd(e)
    BY <1>3 DEF Cmd, TypeOK
  <2> QED  BY <1>3, <2>1, NoStop
<1>4. ASSUME (\E r \in Runs : Dispatch(r) \/ Launch(r) \/ Exit(r) \/ Settle(r)) \/ Handling
      PROVE StopsOK'
  BY <1>1, <1>4 DEF Dispatch, Launch, Exit, Settle, Handling, Report, ReportRun, ReportTask, store, threads, observers
<1>5. ASSUME Takeover PROVE StopsOK'  BY <1>1, <1>5 DEF Takeover, store, threads, observers
<1>6. ASSUME NEW S \in SUBSET Runs, Crash(S) PROVE StopsOK'  BY <1>6 DEF Crash, StopsOK
<1>7. ASSUME NEW q \in Requests, Send(q) PROVE StopsOK'
  <2>1. UNCHANGED <<target, stops>> /\ pc[q] \notin Answers  BY <1>7 DEF Send, Answers
  <2>2. CASE Answer(q, "applied")  BY <1>0, <1>2, <2>1, <2>2
  <2>3. CASE ~Answer(q, "applied")  BY <1>0, <1>3, <1>7, <2>1, <2>3 DEF Send, Goto
  <2> QED  BY <2>2, <2>3
<1>8. ASSUME NEW q \in Requests, Reserve(q) PROVE StopsOK'
  <2>0. pc[q] \notin Answers /\ q \in Drivers /\ UNCHANGED stops  BY <1>0, <1>8 DEF Reserve, Answers
  <2>1. CASE Refused(q) /\ UNCHANGED <<fence, target>>
    <3>1. PICK a : Answer(q, a)  BY <2>1 DEF Refused
    <3> QED  BY <1>2, <2>0, <2>1, <3>1
  <2>2. CASE Admitted(q)
    <3>1. pc' = [pc EXCEPT ![q] = "targets"] /\ UNCHANGED <<at, recovery>>  BY <2>2 DEF Admitted, Goto
    <3>2. CASE UNCHANGED target  BY <1>3, <2>0, <3>1, <3>2
    <3>3. CASE ~Open(CmdOf[q]) /\ NewFence(CmdOf[q])
      <4>1. PICK c \in Commands : c = CmdOf[q] /\ c = Cmd(q)  BY <1>0, RequestsAssumption DEF Cmd
      <4>2. \A r \in Runs : target[c][r] = "none"
        <5>1. c \notin receipts  BY <2>2, <4>1 DEF Admitted, FenceInv, FenceRows
        <5>2. fence[c] = "none"  BY <3>3, <4>1, <5>1 DEF Open, FenceInv, FenceRows, TypeOK
        <5> QED  BY <5>2 DEF FenceInv, FenceRows
      <4>3. \A b \in Commands : b # c => target'[b] = target[b]  BY <3>3, <4>1 DEF NewFence, TypeOK
      <4>4. \A b \in Commands, r \in Runs : target[b][r] \in Answers => target'[b][r] \in Answers
        BY <4>2, <4>3 DEF Answers
      <4>5. \A e \in Drivers : pc[e] \in Answers => pc'[e] = pc[e] /\ at'[e] = at[e] /\ Cmd(e)' = Cmd(e)
        BY <2>0, <3>1 DEF Cmd, TypeOK
      <4> QED  BY <2>0, <4>4, <4>5, NoStop
    <3>4. Cmd(q) = CmdOf[q]  BY <1>0 DEF Cmd
    <3> QED  BY <1>2, <1>8, <2>0, <2>1, <3>2, <3>3, <3>4 DEF Reserve
  <2> QED  BY <1>8, <2>1, <2>2 DEF Reserve
<1>9. ASSUME NEW d \in Drivers, NEW r \in Runs, Claim(d, r) PROVE StopsOK'
  <2>1. PICK c \in Commands : c = Cmd(d)  BY <1>9 DEF Claim, ThreadsOK, ThreadOK, Inside
  <2>2. target[c][r] \notin Answers  BY <1>9, <2>1 DEF Claim, OpenTargets, Answers
  <2>3. \A b \in Commands, s \in Runs : target[b][s] \in Answers => target'[b][s] \in Answers
    BY <1>9, <2>1, <2>2 DEF Claim, TypeOK
  <2>4. \A e \in Drivers : pc[e] \in Answers => pc'[e] = pc[e] /\ at'[e] = at[e] /\ Cmd(e)' = Cmd(e)
    BY <1>9 DEF Claim, Goto, Answers, Cmd, TypeOK
  <2>5. UNCHANGED stops  BY <1>9 DEF Claim, observers
  <2> QED  BY <2>3, <2>4, <2>5, NoStop
<1>10. ASSUME NEW d \in Drivers, NEW a \in Answers, Stop(d, a) PROVE StopsOK'
  <2>1. PICK c \in Commands : c = Cmd(d)  BY <1>10 DEF Stop, ThreadsOK, ThreadOK, Inside
  <2>2. PICK r \in Runs : r = at[d] /\ target[c][r] = "stopping"  BY <1>10, <2>1 DEF Stop, ThreadsOK, ThreadOK, Stopping
  <2>3. stops[c][r] = 0
    <3>1. ASSUME NEW e \in Drivers, pc[e] \in Answers, Cmd(e) = c PROVE FALSE
      <4>1. Inside(e) /\ Inside(d) /\ pc[d] = "stop"  BY <1>10, <3>1 DEF Stop, Inside, Answers
      <4> QED  BY <2>1, <3>1, <4>1 DEF Exclusive, Answers
    <3> QED  BY <2>2, <3>1 DEF StopsOK, Answers
  <2>4. /\ \A b \in Commands, s \in Runs :
              stops'[b][s] = IF b = c /\ s = r THEN 1 ELSE stops[b][s]
        /\ UNCHANGED <<target, at, recovery>> /\ pc' = [pc EXCEPT ![d] = a] /\ pc[d] = "stop"
    <3>1. stops' = [stops EXCEPT ![c] = [stops[c] EXCEPT ![r] = stops[c][r] + 1]]  BY <1>10, <2>1, <2>2 DEF Stop
    <3> QED  BY <1>10, <2>3, <3>1 DEF Stop, Goto, TypeOK, store
  <2>5. pc'[d] \in Answers /\ Cmd(d)' = c /\ at'[d] = r  BY <2>1, <2>2, <2>4 DEF TypeOK, Cmd
  <2>6. \A e \in Drivers : pc[e] \in Answers => pc'[e] = pc[e] /\ at'[e] = at[e] /\ Cmd(e)' = Cmd(e)
    BY <2>4 DEF Cmd, TypeOK, Answers
  <2>7. ASSUME NEW b \in Commands, NEW s \in Runs, stops'[b][s] = 1
        PROVE  \/ target'[b][s] \in Answers
               \/ \E e \in Drivers : pc'[e] \in Answers /\ Cmd(e)' = b /\ at'[e] = s
    <3>1. CASE b = c /\ s = r  BY <2>5, <3>1
    <3>2. CASE ~(b = c /\ s = r)  BY <2>4, <2>6, <2>7, <3>2 DEF StopsOK
    <3> QED  BY <3>1, <3>2
  <2> QED  BY <2>4, <2>7 DEF StopsOK
<1>11. ASSUME NEW d \in Drivers, Record(d) PROVE StopsOK'
  <2>1. PICK c \in Commands : c = Cmd(d)  BY <1>11 DEF Record, ThreadsOK, ThreadOK, Inside, Answers
  <2>2. at[d] \in Runs /\ pc[d] \in Answers  BY <1>11 DEF Record, ThreadsOK, ThreadOK, Stopping
  <2>3. /\ \A b \in Commands, s \in Runs :
              target'[b][s] = IF b = c /\ s = at[d] THEN pc[d] ELSE target[b][s]
        /\ UNCHANGED stops
    BY <1>11, <2>1, <2>2 DEF Record, TypeOK, observers
  <2>4. \A e \in Drivers : e # d => pc'[e] = pc[e] /\ at'[e] = at[e] /\ Cmd(e)' = Cmd(e)
    BY <1>11 DEF Record, Goto, TypeOK, Cmd
  <2>5. ASSUME NEW b \in Commands, NEW s \in Runs, stops'[b][s] = 1
        PROVE  \/ target'[b][s] \in Answers
               \/ \E e \in Drivers : pc'[e] \in Answers /\ Cmd(e)' = b /\ at'[e] = s
    <3>1. CASE target[b][s] \in Answers  BY <2>2, <2>3, <3>1
    <3>2. ASSUME NEW e \in Drivers, pc[e] \in Answers, Cmd(e) = b, at[e] = s
          PROVE  \/ target'[b][s] \in Answers
                 \/ \E f \in Drivers : pc'[f] \in Answers /\ Cmd(f)' = b /\ at'[f] = s
      BY <2>1, <2>2, <2>3, <2>4, <3>2
    <3> QED  BY <2>3, <2>5, <3>1, <3>2 DEF StopsOK
  <2> QED  BY <2>3, <2>5 DEF StopsOK
<1>12. ASSUME NEW d \in Drivers, ReserveIntent(d) PROVE StopsOK'
  <2>1. UNCHANGED <<target, stops>> /\ pc[d] \notin Answers  BY <1>12 DEF ReserveIntent, store, Answers
  <2>2. CASE Answer(d, "expired")  BY <1>2, <2>1, <2>2
  <2>3. CASE ~Answer(d, "expired")  BY <1>3, <1>12, <2>1, <2>3 DEF ReserveIntent, Goto
  <2> QED  BY <2>2, <2>3
<1>13. ASSUME NEW d \in Drivers, Expire(d) \/ CommitService(d) PROVE StopsOK'
  BY <1>2, <1>13 DEF Expire, CommitService, store, Answers
<1>14. ASSUME NEW d \in Drivers, Finalise(d) PROVE StopsOK'  BY <1>3, <1>14 DEF Finalise, Goto, observers, Answers
<1>15. ASSUME Reconcile PROVE StopsOK'  BY <1>1, <1>15 DEF Reconcile, store, threads, observers
<1>16. ASSUME NEW known \in SUBSET Runs, Start(known) PROVE StopsOK'  BY <1>1, <1>16 DEF Start, threads, observers
<1>17. ASSUME Register PROVE StopsOK'
  <2>1. UNCHANGED <<target, stops>> /\ \A e \in Drivers : pc[e] = "idle"
    BY <1>17 DEF Register, store, observers, Exclusive, Drivers
  <2> QED  BY <2>1, NoStop DEF Answers
<1> QED  BY <1>4, <1>5, <1>6, <1>7, <1>8, <1>9, <1>10, <1>11, <1>12, <1>13, <1>14, <1>15, <1>16,
            <1>17 DEF Next, World, Handling, Drive, Opening

\* A step after which every driver goes on, or its fence needs none.
LEMMA DriverKept ==
    ASSUME FenceHasDriver, core' = "serving" => core = "serving",
           \A c \in Commands : fence'[c] \in FenceOpen => fence[c] \in FenceOpen,
           \A c \in Commands : intent[c] = "revoked" => intent'[c] = "revoked",
           \A q \in Requests : pc[q] \notin {"idle", "gate"} =>
              \/ pc'[q] \notin {"idle", "gate"}
              \/ fence'[CmdOf[q]] \notin FenceOpen
              \/ intent'[CmdOf[q]] = "revoked"
    PROVE  FenceHasDriver'
BY DEF FenceHasDriver, Open

\* While the Core serves, every step keeps a driver for an open fence.
LEMMA FenceHasDriverStep ==
    ASSUME TypeOK, ThreadsOK, Exclusive, FenceInv, FenceHasDriver, Next
    PROVE  FenceHasDriver'
<1>0. Core \in Drivers /\ Core \notin Requests /\ \A q \in Requests : q \in Drivers /\ q # Core
  BY RequestsAssumption DEF Drivers
<1>1. ASSUME UNCHANGED <<fence, intent, pc>>, core' = "serving" => core = "serving" PROVE FenceHasDriver'
  BY <1>1, DriverKept
<1>2. ASSUME (\E r \in Runs : Dispatch(r) \/ Launch(r) \/ Exit(r) \/ Settle(r)) \/ Handling
      PROVE FenceHasDriver'
  BY <1>1, <1>2 DEF Dispatch, Launch, Exit, Settle, Handling, Report, ReportRun, ReportTask, store, threads
<1>3. ASSUME Takeover PROVE FenceHasDriver'  BY <1>1, <1>3 DEF Takeover, store, threads
<1>4. ASSUME NEW S \in SUBSET Runs, Crash(S) PROVE FenceHasDriver'  BY <1>4 DEF Crash, FenceHasDriver
<1>5. ASSUME NEW q \in Requests, Send(q) PROVE FenceHasDriver'
  <2>1. UNCHANGED <<fence, intent>> /\ pc[q] = "idle" /\ core' = core  BY <1>0, <1>5 DEF Send, Answer
  <2>2. \A s \in Requests : s # q => pc'[s] = pc[s]
    <3>1. CASE Answer(q, "applied")  BY <1>0, <3>1, Ending
    <3>2. CASE ~Answer(q, "applied")  BY <1>0, <1>5, <3>2 DEF Send, Goto, TypeOK
    <3> QED  BY <3>1, <3>2
  <2> QED  BY <2>1, <2>2, DriverKept
<1>6. ASSUME NEW q \in Requests, Reserve(q) PROVE FenceHasDriver'
  <2>1. UNCHANGED intent /\ pc[q] = "gate" /\ core' = core /\ Cmd(q) = CmdOf[q]
    BY <1>0, <1>6 DEF Reserve, Refused, Admitted, Answer, Cmd
  <2>2. CASE Refused(q) /\ UNCHANGED fence
    <3>1. PICK a : Answer(q, a)  BY <2>2 DEF Refused
    <3>2. \A s \in Requests : s # q => pc'[s] = pc[s]  BY <1>0, <3>1, Ending
    <3> QED  BY <2>1, <2>2, <3>2, DriverKept
  <2>3. CASE Admitted(q)
    <3>1. pc' = [pc EXCEPT ![q] = "targets"]  BY <2>3 DEF Admitted, Goto
    <3>2. \A c \in Commands : c # CmdOf[q] => fence'[c] = fence[c]  BY <1>6, <2>1 DEF Reserve, NewFence, TypeOK
    <3>3. \A s \in Requests : pc[s] \notin {"idle", "gate"} => pc'[s] = pc[s]  BY <1>0, <2>1, <3>1 DEF TypeOK
    <3>4. pc'[q] = "targets"  BY <1>0, <3>1 DEF TypeOK
    <3> QED  BY <2>1, <3>2, <3>3, <3>4 DEF FenceHasDriver, Open
  <2> QED  BY <1>6, <2>2, <2>3 DEF Reserve
<1>7. ASSUME NEW d \in Drivers, NEW p, pc' = [pc EXCEPT ![d] = p], p \notin {"idle", "gate"},
             UNCHANGED <<core, intent>>,
             \A c \in Commands : fence'[c] \in FenceOpen => fence[c] \in FenceOpen
      PROVE FenceHasDriver'
  <2>1. \A q \in Requests : pc[q] \notin {"idle", "gate"} => pc'[q] \notin {"idle", "gate"}  BY <1>0, <1>7 DEF TypeOK
  <2> QED  BY <1>7, <2>1, DriverKept
<1>8. ASSUME NEW d \in Drivers, NEW r \in Runs, Claim(d, r) PROVE FenceHasDriver'
  <2>1. Open(Cmd(d))  BY <1>8 DEF Claim, ThreadsOK, ThreadOK, Inside
  <2>2. \A c \in Commands : fence'[c] \in FenceOpen => fence[c] \in FenceOpen  BY <1>8, <2>1 DEF Claim, Open, TypeOK
  <2> QED  BY <1>7, <1>8, <2>2 DEF Claim, Goto
<1>9. ASSUME NEW d \in Drivers, NEW a \in Answers, Stop(d, a) PROVE FenceHasDriver'
  BY <1>7, <1>9 DEF Stop, Goto, store, Answers
<1>10. ASSUME NEW d \in Drivers, Record(d) PROVE FenceHasDriver'
  <2>1. Open(Cmd(d))  BY <1>10 DEF Record, ThreadsOK, ThreadOK, Inside, Answers
  <2>2. \A c \in Commands : fence'[c] \in FenceOpen => fence[c] \in FenceOpen  BY <1>10, <2>1 DEF Record, Open, TypeOK
  <2> QED  BY <1>7, <1>10, <2>2 DEF Record, Goto
<1>11. ASSUME NEW d \in Drivers, NEW a, Answer(d, a), Inside(d), UNCHANGED fence,
              \A c \in Commands : intent[c] = "revoked" => intent'[c] = "revoked",
              fence[Cmd(d)] \in FenceOpen => intent'[Cmd(d)] = "revoked"
      PROVE FenceHasDriver'
  <2>1. core' = "serving" => core = "serving"  BY <1>11 DEF Answer
  <2>2. \A q \in Requests : q # d => pc'[q] = pc[q]  BY <1>0, <1>11, Ending
  <2>3. d \in Requests => Cmd(d) = CmdOf[d]  BY <1>0 DEF Cmd
  <2> QED  BY <1>11, <2>1, <2>2, <2>3, DriverKept
<1>12. ASSUME NEW d \in Drivers, ReserveIntent(d) PROVE FenceHasDriver'
  <2>1. Inside(d) /\ UNCHANGED fence  BY <1>12 DEF ReserveIntent, Inside, store
  <2>2. CASE Answer(d, "expired") /\ intent[Cmd(d)] = "revoked" /\ UNCHANGED intent  BY <1>11, <2>1, <2>2
  <2>3. CASE /\ intent[Cmd(d)] # "revoked" /\ pc' = [pc EXCEPT ![d] = "target"] /\ UNCHANGED core
             /\ intent' = [intent EXCEPT ![Cmd(d)] = "reserved"]
    <3>1. \A c \in Commands : intent[c] = "revoked" => intent'[c] = "revoked"  BY <2>3 DEF TypeOK
    <3>2. \A q \in Requests : pc[q] \notin {"idle", "gate"} => pc'[q] \notin {"idle", "gate"}  BY <1>0, <2>3 DEF TypeOK
    <3> QED  BY <2>1, <2>3, <3>1, <3>2, DriverKept
  <2> QED  BY <1>12, <2>2, <2>3 DEF ReserveIntent, Goto
<1>13. ASSUME NEW d \in Drivers, Expire(d) PROVE FenceHasDriver'
  <2>1. Inside(d) /\ UNCHANGED fence /\ Answer(d, "expired") /\ Cmd(d) \in Commands
    BY <1>13 DEF Expire, Inside, store, ThreadsOK, ThreadOK
  <2>2. intent'[Cmd(d)] = "revoked" /\ \A c \in Commands : intent[c] = "revoked" => intent'[c] = "revoked"
    BY <1>13, <2>1 DEF Expire, TypeOK
  <2> QED  BY <1>11, <2>1, <2>2
<1>14. ASSUME NEW d \in Drivers, CommitService(d) PROVE FenceHasDriver'
  <2>1. /\ Inside(d) /\ UNCHANGED fence /\ Answer(d, "applied") /\ Cmd(d) \in Commands
        /\ intent[Cmd(d)] = "reserved" /\ Cmd(d) \in receipts
    BY <1>14 DEF CommitService, Inside, store, ThreadsOK, ThreadOK
  <2>2. fence[Cmd(d)] \notin FenceOpen  BY <2>1 DEF FenceInv, FenceRows, FenceOpen
  <2>3. \A c \in Commands : intent[c] = "revoked" => intent'[c] = "revoked"  BY <1>14, <2>1 DEF CommitService, TypeOK
  <2> QED  BY <1>11, <2>1, <2>2, <2>3
<1>15. ASSUME NEW d \in Drivers, Finalise(d) PROVE FenceHasDriver'
  <2>1. \A c \in Commands : fence'[c] \in FenceOpen => fence[c] \in FenceOpen  BY <1>15 DEF Finalise, FenceOpen, TypeOK
  <2> QED  BY <1>7, <1>15, <2>1 DEF Finalise, Goto
<1>16. ASSUME Reconcile PROVE FenceHasDriver'  BY <1>16 DEF Reconcile, FenceHasDriver
<1>17. ASSUME NEW known \in SUBSET Runs, Start(known) PROVE FenceHasDriver'  BY <1>17 DEF Start, FenceHasDriver
<1>18. ASSUME Register PROVE FenceHasDriver'  BY <1>18 DEF Register, FenceHasDriver, Fenced, Open, store
<1> QED  BY <1>2, <1>3, <1>4, <1>5, <1>6, <1>8, <1>9, <1>10, <1>12, <1>13, <1>14, <1>15, <1>16,
            <1>17, <1>18 DEF Next, World, Handling, Drive, Opening

----
\* Every step leaves the handler a run that was dispatched.
LEMMA HandlerStep ==
    ASSUME TypeOK, HandlerOK, Next
    PROVE  HandlerOK'
<1>1. ASSUME UNCHANGED handler,
             \A r \in Runs : run[r] # "unborn" => run'[r] # "unborn"
      PROVE HandlerOK'
  BY <1>1 DEF HandlerOK, handler
<1>2. ASSUME NEW r \in Runs, Dispatch(r) \/ Launch(r) \/ Exit(r) \/ Settle(r) PROVE HandlerOK'
  BY <1>1, <1>2 DEF Dispatch, Launch, Exit, Settle, store, TypeOK
<1>3. ASSUME NEW r \in Runs, Report(r) PROVE HandlerOK'  BY <1>3 DEF Report, HandlerOK, RunActive, store
<1>4. ASSUME ReportRun PROVE HandlerOK'  BY <1>4 DEF ReportRun, HandlerOK, TypeOK
<1>5. ASSUME ReportTask PROVE HandlerOK'  BY <1>5 DEF ReportTask, HandlerOK
<1>6. ASSUME Takeover PROVE HandlerOK'  BY <1>1, <1>6 DEF Takeover, store
<1>7. ASSUME NEW S \in SUBSET Runs, Crash(S) PROVE HandlerOK'  BY <1>7 DEF Crash, HandlerOK
<1>8. ASSUME NEW q \in Requests, Send(q) \/ Reserve(q) PROVE HandlerOK'  BY <1>1, <1>8 DEF Send, Reserve
<1>9. ASSUME NEW d \in Drivers, Drive(d) PROVE HandlerOK'
  <2>1. CASE Finalise(d)  BY <1>1, <2>1 DEF Finalise, RunActive, ActiveRuns
  <2>2. CASE ~Finalise(d)
    BY <1>1, <1>9, <2>2 DEF Drive, Claim, Stop, Record, ReserveIntent, Expire, CommitService, store
  <2> QED  BY <2>1, <2>2
<1>10. ASSUME Reconcile \/ Register PROVE HandlerOK'  BY <1>1, <1>10 DEF Reconcile, Register, store
<1>11. ASSUME NEW known \in SUBSET Runs, Start(known) PROVE HandlerOK'  BY <1>1, <1>11 DEF Start
<1> QED  BY <1>2, <1>3, <1>4, <1>5, <1>6, <1>7, <1>8, <1>9, <1>10, <1>11 DEF Next, World, Opening

\* Only a receipt is ever answered "applied".
LEMMA AnswersStep ==
    ASSUME TypeOK, ThreadsOK, AppliedIsDurable, Next
    PROVE  AppliedIsDurable'
<1>0. \A q \in Requests : Cmd(q) = CmdOf[q]  BY Commanded
<1>1. ASSUME UNCHANGED result, receipts \subseteq receipts' PROVE AppliedIsDurable'  BY <1>1 DEF AppliedIsDurable
<1>2. ASSUME NEW d \in Drivers, NEW a, Answer(d, a), UNCHANGED receipts,
             a = "applied" /\ d # Core => CmdOf[d] \in receipts
      PROVE AppliedIsDurable'
  BY <1>2 DEF Answer, AppliedIsDurable, TypeOK
<1>3. ASSUME NEW r \in Runs, Dispatch(r) \/ Launch(r) \/ Exit(r) \/ Settle(r) PROVE AppliedIsDurable'
  BY <1>1, <1>3 DEF Dispatch, Launch, Exit, Settle, store, observers
<1>4. ASSUME Handling \/ Takeover PROVE AppliedIsDurable'
  BY <1>1, <1>4 DEF Handling, Report, ReportRun, ReportTask, Takeover, store, observers
<1>5. ASSUME NEW S \in SUBSET Runs, Crash(S) PROVE AppliedIsDurable'  BY <1>1, <1>5 DEF Crash, store
<1>6. ASSUME NEW q \in Requests, Send(q) PROVE AppliedIsDurable'
  <2>1. UNCHANGED receipts /\ q \in Drivers  BY <1>6 DEF Send, Drivers
  <2>2. CASE Replayable(CmdOf[q]) /\ Answer(q, "applied")  BY <1>2, <2>1, <2>2 DEF Replayable
  <2>3. CASE UNCHANGED result  BY <1>1, <2>1, <2>3
  <2> QED  BY <1>6, <2>2, <2>3 DEF Send
<1>7. ASSUME NEW q \in Requests, Reserve(q) PROVE AppliedIsDurable'
  <2>1. UNCHANGED receipts /\ q \in Drivers  BY <1>7 DEF Reserve, Drivers
  <2>2. CASE Refused(q)  BY <1>2, <2>1, <2>2 DEF Refused
  <2>3. CASE UNCHANGED result  BY <1>1, <2>1, <2>3
  <2> QED  BY <1>7, <2>2, <2>3 DEF Reserve, Admitted
<1>8. ASSUME NEW d \in Drivers, Answer(d, "expired"), UNCHANGED receipts PROVE AppliedIsDurable'  BY <1>2, <1>8
<1>9. ASSUME NEW d \in Drivers, CommitService(d) PROVE AppliedIsDurable'
  <2>1. d # Core => CmdOf[d] \in receipts  BY <1>0, <1>9, Commanded DEF CommitService, ThreadsOK, ThreadOK
  <2> QED  BY <1>2, <1>9, <2>1 DEF CommitService, store
<1>10. ASSUME NEW d \in Drivers, Drive(d) PROVE AppliedIsDurable'
  <2>1. CASE CommitService(d)  BY <1>9, <2>1
  <2>2. CASE Answer(d, "expired") /\ UNCHANGED receipts  BY <1>8, <2>2
  <2>3. CASE UNCHANGED result /\ receipts \subseteq receipts'  BY <1>1, <2>3
  <2> QED  BY <1>10, <2>1, <2>2, <2>3 DEF Drive, Claim, Stop, Record, ReserveIntent, Expire, Finalise, store, observers
<1>11. ASSUME Opening PROVE AppliedIsDurable'  BY <1>1, <1>11 DEF Opening, Reconcile, Register, Start, store, observers
<1> QED  BY <1>3, <1>4, <1>5, <1>6, <1>7, <1>10, <1>11 DEF Next, World, Handling

----
(* The theorems.                                                           *)

\* A step that changes nothing.
LEMMA Stutter ==
    ASSUME Inv, UNCHANGED vars
    PROVE  Inv'
<1> USE DEF Inv, vars, store, threads, handler, observers
<1>1. TypeOK'  BY DEF TypeOK
<1>2. ThreadsOK' /\ Exclusive'  BY DEF ThreadsOK, ThreadOK, Exclusive, Inside, Stopping, Open, Cmd
<1>3. FenceInv' /\ IntentsOK'
  BY DEF FenceInv, OneOpen, FenceRows, FenceFreezes, CancelledIsStopped, Open, ActiveRuns, IntentsOK
<1>4. StopsOK' /\ FenceHasDriver'  BY DEF StopsOK, FenceHasDriver, Open, Cmd
<1>5. HandlerOK' /\ AppliedIsDurable'  BY DEF HandlerOK, AppliedIsDurable
<1> QED  BY <1>1, <1>2, <1>3, <1>4, <1>5

\* The first state of a Core with no fence.
LEMMA Initially ==
    ASSUME Init
    PROVE  Inv
<1> USE DEF Init
<1>1. TypeOK  BY BoundsAssumption DEF TypeOK, RunStatus, FenceOpen, Answers, PCs, NoRun
<1>2. ThreadsOK /\ Exclusive
  BY RequestsAssumption DEF ThreadsOK, ThreadOK, Exclusive, Inside, Stopping, Answers, Drivers
<1>3. FenceInv  BY DEF FenceInv, OneOpen, FenceRows, FenceFreezes, CancelledIsStopped, Open, FenceOpen
<1>4. IntentsOK /\ StopsOK /\ FenceHasDriver /\ HandlerOK /\ AppliedIsDurable
  BY DEF IntentsOK, StopsOK, FenceHasDriver, Open, FenceOpen, HandlerOK, AppliedIsDurable
<1> QED  BY <1>1, <1>2, <1>3, <1>4 DEF Inv

\* No step of the saga, its world or a crash breaks the invariant.
LEMMA InvStep ==
    ASSUME Inv, Next
    PROVE  Inv'
<1>1. TypeOK /\ ThreadsOK /\ Exclusive /\ FenceInv /\ IntentsOK /\ StopsOK /\ FenceHasDriver
      /\ HandlerOK /\ AppliedIsDurable
  BY DEF Inv
<1>2. OneOpen  BY <1>1 DEF FenceInv
<1>3. TypeOK' /\ ThreadsOK' /\ Exclusive'  BY <1>1, <1>2, TypeStep, ThreadsStep, ExclusiveStep
<1>4. FenceInv' /\ IntentsOK'  BY <1>1, FenceStep, IntentsStep
<1>5. StopsOK' /\ FenceHasDriver' /\ HandlerOK' /\ AppliedIsDurable'
  BY <1>1, StopsStep, FenceHasDriverStep, HandlerStep, AnswersStep
<1> QED  BY <1>3, <1>4, <1>5 DEF Inv

\* The inductive invariant of the cancel saga: every part of it rests on the others.
THEOREM Inductive == Spec => []Inv
<1>1. Init => Inv  BY Initially
<1>2. Inv /\ [Next]_vars => Inv'  BY InvStep, Stutter
<1> QED  BY <1>1, <1>2, PTL DEF Spec

\* Every variable keeps its type, the runs and the answers of targets included.
THEOREM TypeCorrect == Spec => []TypeOK
<1>1. Inv => TypeOK  BY DEF Inv
<1> QED  BY <1>1, Inductive, PTL

\* What was checked when a fence was reserved holds until it is finalised, whatever
\* commands, agents and recoveries do meanwhile (schema.rs 974-1105, store.rs 754-826).
THEOREM FenceFreezesAlways == Spec => []FenceFreezes
<1>1. Inv => FenceFreezes  BY DEF Inv, FenceInv
<1> QED  BY <1>1, Inductive, PTL

\* No process belongs to a run that is recorded as cancelled (store.rs 754-826).
THEOREM CancelledIsStoppedAlways == Spec => []CancelledIsStopped
<1>1. Inv => CancelledIsStopped  BY DEF Inv, FenceInv
<1> QED  BY <1>1, Inductive, PTL

\* However many requests carry a command id, a target is asked to stop once in one life of
\* the Core (kernel.rs 1475-1527).
THEOREM StoppedOnceAlways == Spec => []StoppedOnce
<1>1. Inv => StoppedOnce  BY DEF Inv, StopsOK, StoppedOnce
<1> QED  BY <1>1, Inductive, PTL

\* The verdicts of the service store and the receipts of the project store never
\* contradict one another, across crashes between their commits (command.rs 731-911).
THEOREM StoresAgreeAlways == Spec => []StoresAgree
<1>1. Inv => StoresAgree  BY DEF Inv, IntentsOK, StoresAgree
<1> QED  BY <1>1, Inductive, PTL

\* A Core that serves has a request on every open fence, or a revoked command behind it.
THEOREM FenceHasDriverAlways == Spec => []FenceHasDriver
<1>1. Inv => FenceHasDriver  BY DEF Inv
<1> QED  BY <1>1, Inductive, PTL

\* What a client was told is applied is applied (command.rs 624-635, kernel.rs 3093-3098).
THEOREM AppliedIsDurableAlways == Spec => []AppliedIsDurable
<1>1. Inv => AppliedIsDurable  BY DEF Inv
<1> QED  BY <1>1, Inductive, PTL

----
(* The refinement of AtomicCancel: Finalise is the Cancel, and everything  *)
(* else a driver does is invisible but for the processes it ends.          *)

\* Only some processes end.
LEMMA EndsStep ==
    ASSUME TypeOK, NEW S \in SUBSET Runs, \A r \in S : proc[r] \in {"launching", "alive"},
           proc' = [r \in Runs |-> IF r \in S THEN "dead" ELSE proc[r]],
           UNCHANGED <<task, run, receipts>>
    PROVE  Atomic!Next
BY DEF Atomic!Next, Atomic!Process, Atomic!Ends

\* Every step maps to a step or a stutter of AtomicCancel.
LEMMA AtomicStep ==
    ASSUME Inv, Next
    PROVE  [Atomic!Next]_Atomic!vars
<1>0. TypeOK /\ ThreadsOK /\ Exclusive /\ FenceInv /\ HandlerOK  BY DEF Inv
<1>1. ASSUME UNCHANGED <<task, run, proc, receipts>> PROVE [Atomic!Next]_Atomic!vars  BY <1>1 DEF Atomic!vars
<1>2. ASSUME NEW r \in Runs, Dispatch(r) PROVE Atomic!Next  BY <1>2 DEF Dispatch, Atomic!Next, Atomic!Dispatch
<1>3. ASSUME NEW r \in Runs, Launch(r) PROVE Atomic!Next
  BY <1>3 DEF Launch, store, Atomic!Next, Atomic!Process, Atomic!Starts
<1>4. ASSUME NEW r \in Runs, Exit(r) PROVE Atomic!Next
  <2>1. proc' = [s \in Runs |-> IF s \in {r} THEN "dead" ELSE proc[s]]  BY <1>0, <1>4 DEF Exit, TypeOK
  <2> QED  BY <1>0, <1>4, <2>1, EndsStep DEF Exit, store
<1>5. ASSUME Handling PROVE [Atomic!Next]_Atomic!vars
  <2>1. ASSUME NEW r \in Runs, Report(r) PROVE [Atomic!Next]_Atomic!vars  BY <1>1, <2>1 DEF Report, store
  <2>2. CASE ReportRun /\ Unfenced
    <3>1. PICK r \in Runs : r = exitOf /\ run[r] # "unborn"  BY <1>0, <2>2 DEF ReportRun, HandlerOK
    <3>2. Atomic!Report(r)  BY <2>2, <3>1 DEF ReportRun, Atomic!Report
    <3> QED  BY <3>2 DEF Atomic!Next
  <2>3. CASE ReportRun /\ ~Unfenced  BY <1>1, <2>3 DEF ReportRun
  <2>4. CASE ReportTask
    <3>1. CASE task' = "needs-you"  BY <2>4, <3>1 DEF ReportTask, Atomic!Next, Atomic!Attention
    <3>2. CASE task' = task  BY <1>1, <2>4, <3>2 DEF ReportTask
    <3> QED  BY <2>4, <3>1, <3>2 DEF ReportTask
  <2> QED  BY <1>5, <2>1, <2>2, <2>3, <2>4 DEF Handling
<1>6. ASSUME NEW r \in Runs, Settle(r) PROVE Atomic!Next
  BY <1>6 DEF Settle, RunActive, Atomic!Next, Atomic!Settle, Atomic!RunActive
<1>7. ASSUME Takeover PROVE [Atomic!Next]_Atomic!vars  BY <1>1, <1>7 DEF Takeover, store
<1>8. ASSUME NEW S \in SUBSET Runs, Crash(S) PROVE Atomic!Next
  <2> DEFINE E == S \cup {r \in Runs : proc[r] = "launching"}
  <2>1. proc' = [r \in Runs |-> IF r \in E THEN "dead" ELSE proc[r]]  BY <1>8 DEF Crash
  <2>2. E \in SUBSET Runs /\ \A r \in E : proc[r] \in {"launching", "alive"}  BY <1>8 DEF Crash
  <2>3. UNCHANGED <<task, run, receipts>>  BY <1>8 DEF Crash, store
  <2> HIDE DEF E
  <2> QED  BY <1>0, <2>1, <2>2, <2>3, EndsStep
<1>9. ASSUME NEW q \in Requests, Send(q) \/ Reserve(q) PROVE [Atomic!Next]_Atomic!vars  BY <1>1, <1>9 DEF Send, Reserve
<1>10. ASSUME NEW d \in Drivers, (\E r \in Runs : Claim(d, r)) \/ Record(d) \/ ReserveIntent(d) \/ Expire(d) \/ CommitService(d)
       PROVE [Atomic!Next]_Atomic!vars
  BY <1>1, <1>10 DEF Claim, Record, ReserveIntent, Expire, CommitService, store
<1>11. ASSUME NEW d \in Drivers, NEW a \in Answers, Stop(d, a) PROVE [Atomic!Next]_Atomic!vars
  <2>1. PICK r \in Runs : r = at[d]  BY <1>0, <1>11 DEF ThreadsOK, ThreadOK, Stop, Stopping
  <2>2. UNCHANGED <<task, run, receipts>>  BY <1>11 DEF Stop, store
  <2>3. CASE proc[r] = "alive" /\ proc' = [proc EXCEPT ![r] = "dead"]
    <3>1. proc' = [s \in Runs |-> IF s \in {r} THEN "dead" ELSE proc[s]]  BY <1>0, <2>3 DEF TypeOK
    <3> QED  BY <1>0, <2>2, <2>3, <3>1, EndsStep
  <2>4. CASE proc[r] = "dead" /\ proc' = [proc EXCEPT ![r] = "dead"]
    <3>1. proc' = proc  BY <1>0, <2>4 DEF TypeOK
    <3> QED  BY <1>1, <2>2, <3>1
  <2>5. CASE UNCHANGED proc  BY <1>1, <2>2, <2>5
  <2> QED  BY <1>11, <2>1, <2>3, <2>4, <2>5 DEF Stop, StopProcess
<1>12. ASSUME NEW d \in Drivers, Finalise(d) PROVE Atomic!Next
  <2>1. PICK c \in Commands : c = Cmd(d)  BY <1>0, <1>12 DEF Finalise, ThreadsOK, ThreadOK, Inside
  <2>2. PICK K \in SUBSET Runs : K = Confirmed(c)  BY DEF Confirmed
  <2>3. Open(c) /\ c \notin receipts  BY <1>12, <2>1 DEF Finalise, Open, FenceOpen
  <2>4. \A r \in K : proc[r] = "dead"  BY <1>0, <2>2, <2>3 DEF FenceInv, FenceRows, Confirmed
  <2>5. K \subseteq ActiveRuns  BY <1>0, <2>2, <2>3 DEF FenceInv, FenceFreezes, Confirmed
  <2>6. ActiveRuns = Atomic!ActiveRuns  BY DEF ActiveRuns, RunActive, Atomic!ActiveRuns, Atomic!RunActive
  <2>7. /\ run' = [r \in Runs |-> IF r \in K THEN "cancelled"
                                  ELSE IF r \in ActiveRuns THEN "interrupted" ELSE run[r]]
        /\ task' = IF K = ActiveRuns THEN "cancelled" ELSE Atomic!Attend(task)
        /\ receipts' = receipts \cup {c} /\ UNCHANGED proc
    BY <1>12, <2>1, <2>2 DEF Finalise, Attend, Atomic!Attend
  <2>8. Atomic!Cancel(c, K)  BY <2>3, <2>4, <2>5, <2>6, <2>7 DEF Atomic!Cancel
  <2> QED  BY <2>8 DEF Atomic!Next
<1>13. ASSUME Reconcile \/ Register PROVE [Atomic!Next]_Atomic!vars  BY <1>1, <1>13 DEF Reconcile, Register, store
<1>14. ASSUME NEW known \in SUBSET Runs, Start(known) PROVE [Atomic!Next]_Atomic!vars
  <2>1. UNCHANGED <<receipts, proc>>  BY <1>14 DEF Start
  <2>2. CASE UNCHANGED <<task, run>>  BY <1>1, <2>1, <2>2
  <2>3. CASE /\ run' = [r \in Runs |-> IF run[r] = "running" /\ r \notin known
                                       THEN "interrupted" ELSE run[r]]
             /\ task' = Attend(task)
    <3> DEFINE S == {r \in Runs : run[r] = "running" /\ r \notin known}
    <3>1. run' = [r \in Runs |-> IF r \in S THEN "interrupted" ELSE run[r]]  BY <2>3
    <3>2. S \in SUBSET Runs /\ \A r \in S : run[r] = "running"  OBVIOUS
    <3> HIDE DEF S
    <3>3. Atomic!Lose(S)  BY <2>1, <2>3, <3>1, <3>2 DEF Atomic!Lose, Atomic!Attend, Attend
    <3> QED  BY <3>2, <3>3 DEF Atomic!Next
  <2> QED  BY <1>14, <2>2, <2>3 DEF Start
<1> QED  BY <1>2, <1>3, <1>4, <1>5, <1>6, <1>7, <1>8, <1>9, <1>10, <1>11, <1>12, <1>13, <1>14 DEF Next, World, Handling,
    Drive, Opening

\* The saga implements a Cancel that happens at one instant, with crashes, takeovers and
\* resent requests in between.
THEOREM Refinement == Spec => AtomicSpec
<1>1. Init => Atomic!Init  BY DEF Init, Atomic!Init
<1>2. Inv /\ [Next]_vars => [Atomic!Next]_Atomic!vars
  <2>1. ASSUME UNCHANGED vars PROVE UNCHANGED Atomic!vars  BY <2>1 DEF vars, store, Atomic!vars
  <2> QED  BY <2>1, AtomicStep
<1> QED  BY <1>1, <1>2, Inductive, PTL DEF Spec, AtomicSpec, Atomic!Spec
=============================================================================
