--------------------------- MODULE CommandReceipts ---------------------------
(***************************************************************************)
(* One command, at most one effect (command.rs, reconcile.rs).  A command  *)
(* is reserved in the service store, takes effect in a project store       *)
(* together with its receipt, and is finished in the service store again.  *)
(*                                                                         *)
(* The command gate admits one dispatch, reconciliation or collection at a *)
(* time.  Takeovers of the controller lease and crashes come in between;   *)
(* a client resends a command as it was, under the same id; old intents    *)
(* and receipts are collected.  All commands expect a revision of one      *)
(* aggregate, and their effect moves it.                                   *)
(***************************************************************************)
EXTENDS Integers, FiniteSets

CONSTANTS
    Commands,       \* command ids
    Controllers,    \* clients that may hold the controller lease
    MaxAggregate,   \* bound: revisions of the aggregate
    MaxLeaseEpoch,  \* bound: epochs of the lease in one life of the core
    MaxLost,        \* bound: service transactions lost and crashes
    MaxCollections  \* bound: collections of receipts

ASSUME CommandAssumption ==
    /\ {MaxAggregate, MaxLeaseEpoch} \subseteq Nat \ {0}
    /\ {MaxLost, MaxCollections} \subseteq Nat

VARIABLES
    request,     \* what each command says: its client, its lease epoch, the revision it expects
    intent,      \* command_intent.state, "none" where there is no row
    receipt,     \* command_receipt: the revision the command led to, 0 where there is none
    aggregate,   \* the revision of the aggregate
    lease,       \* ControllerLeaseState
    gate,        \* the command dispatched behind the gate, after its reservation
    core,        \* "up", "down", or "recovering"
    effects,     \* observer: how often each command has taken effect
    disowned,   \* observer: commands that took effect, which the service store has lost sight of
    lost,        \* crashes and lost service transactions so far
    collections

commandVars == <<request, intent, receipt, aggregate, lease, gate, core, effects, disowned,
                 lost, collections>>

NoRequest == [client |-> "none", epoch |-> 0, expects |-> 0]
NoCommand == "none"
NoController == [epoch |-> 0, holder |-> "none"]
Refusals == {"failed", "revoked"}

CommandTypeOK ==
    /\ \A c \in Commands : request[c] = NoRequest \/
          request[c] \in [client : Controllers, epoch : 1..MaxLeaseEpoch,
                          expects : 1..MaxAggregate]
    /\ intent \in [Commands -> {"none", "reserved", "applied"} \cup Refusals]
    /\ receipt \in [Commands -> 0..MaxAggregate]
    /\ aggregate \in 1..MaxAggregate
    /\ lease.epoch \in 0..MaxLeaseEpoch /\ lease.holder \in Controllers \cup {"none"}
    /\ gate \in Commands \cup {NoCommand} /\ core \in {"up", "down", "recovering"}
    /\ effects \in [Commands -> Nat] /\ disowned \subseteq Commands
    /\ lost \in 0..MaxLost /\ collections \in 0..MaxCollections

CommandInit ==
    /\ request = [c \in Commands |-> NoRequest]
    /\ intent = [c \in Commands |-> "none"]
    /\ receipt = [c \in Commands |-> 0]
    /\ aggregate = 1 /\ lease = NoController
    /\ gate = NoCommand /\ core = "up"
    /\ effects = [c \in Commands |-> 0] /\ disowned = {}
    /\ lost = 0 /\ collections = 0

-----------------------------------------------------------------------------
(* Clients.                                                                *)

\* A grant makes the epoch of whoever held the lease before invalid.
GrantLease(who) ==
    /\ core = "up" /\ lease.epoch < MaxLeaseEpoch
    /\ lease' = [epoch |-> lease.epoch + 1, holder |-> who]
    /\ UNCHANGED <<request, intent, receipt, aggregate, gate, core, effects, disowned, lost,
                   collections>>

\* A client composes a command from what it has seen, which may be out of date.
Compose(c, seen) ==
    /\ request[c] = NoRequest /\ lease.holder # "none"
    /\ request' = [request EXCEPT ![c] = [client |-> lease.holder, epoch |-> lease.epoch,
                                          expects |-> seen]]
    /\ UNCHANGED <<intent, receipt, aggregate, lease, gate, core, effects, disowned, lost,
                   collections>>

-----------------------------------------------------------------------------
(* Dispatch: the reservation, then the guarded pair of transactions.       *)

\* A first try, or the same command again.  One that has been refused before stays refused.
ReserveIntent(c) ==
    /\ core = "up" /\ gate = NoCommand /\ request[c] # NoRequest
    /\ intent[c] \notin Refusals
    /\ gate' = c
    /\ intent' = [intent EXCEPT ![c] = IF @ = "none" THEN "reserved" ELSE @]
    /\ UNCHANGED <<request, receipt, aggregate, lease, core, effects, disowned, lost,
                   collections>>

HoldsByName(c) == request[c].client = lease.holder
HoldsLease(c) == request[c].client = lease.holder /\ request[c].epoch = lease.epoch

\* Only a reservation can be finished.
Finished(c, state) ==
    [intent EXCEPT ![c] = IF @ = "reserved" THEN state ELSE @]

\* The lease is checked in the transaction of the effect, before anything else.
LeaseExpired(c) ==
    /\ ~HoldsLease(c)
    /\ intent' = Finished(c, "revoked")
    /\ disowned' = IF intent[c] = "reserved" /\ receipt[c] # 0 THEN disowned \cup {c}
                   ELSE disowned
    /\ UNCHANGED <<receipt, aggregate, effects>>

AnswersUnfinished(c) == receipt[c] # 0 /\ intent[c] = "applied"
AnswersReceipt(c) == receipt[c] # 0

\* The receipt answers for the effect.
ReplayReceipt(c) ==
    /\ HoldsLease(c) /\ AnswersReceipt(c)
    /\ intent' = Finished(c, "applied")
    /\ UNCHANGED <<receipt, aggregate, effects, disowned>>

\* The service store says applied and the receipt is gone: an internal error.
ReceiptMissing(c) ==
    /\ HoldsLease(c) /\ ~AnswersReceipt(c) /\ intent[c] = "applied"
    /\ UNCHANGED <<intent, receipt, aggregate, effects, disowned>>

ExpectedNotAhead(c) == request[c].expects <= aggregate
ExpectedHolds(c) == request[c].expects = aggregate

RevisionConflict(c) ==
    /\ HoldsLease(c) /\ ~AnswersReceipt(c) /\ intent[c] = "reserved" /\ ~ExpectedHolds(c)
    /\ intent' = Finished(c, "failed")
    /\ UNCHANGED <<receipt, aggregate, effects, disowned>>

\* Effect and receipt are one transaction of the project store.
TakeEffect(c) ==
    /\ HoldsLease(c) /\ ~AnswersReceipt(c) /\ intent[c] = "reserved" /\ ExpectedHolds(c)
    /\ aggregate < MaxAggregate
    /\ aggregate' = aggregate + 1
    /\ receipt' = [receipt EXCEPT ![c] = aggregate + 1]
    /\ effects' = [effects EXCEPT ![c] = @ + 1]
    /\ intent' = Finished(c, "applied")
    /\ UNCHANGED disowned

DispatchGuarded(c) ==
    /\ core = "up" /\ gate = c
    /\ \/ LeaseExpired(c)
       \/ ReplayReceipt(c)
       \/ ReceiptMissing(c)
       \/ RevisionConflict(c)
       \/ TakeEffect(c)
    /\ gate' = NoCommand
    /\ UNCHANGED <<request, lease, core, lost, collections>>

\* The project store commits inside the service transaction, which may then be lost, with
\* the core or alone.
DispatchLost(c) ==
    /\ core = "up" /\ gate = c /\ lost < MaxLost
    /\ HoldsLease(c) /\ ~AnswersReceipt(c) /\ intent[c] = "reserved" /\ ExpectedHolds(c)
    /\ aggregate < MaxAggregate
    /\ aggregate' = aggregate + 1
    /\ receipt' = [receipt EXCEPT ![c] = aggregate + 1]
    /\ effects' = [effects EXCEPT ![c] = @ + 1]
    /\ gate' = NoCommand /\ lost' = lost + 1
    /\ \/ UNCHANGED <<lease, core>>
       \/ core' = "down" /\ lease' = NoController
    /\ UNCHANGED <<request, intent, disowned, collections>>

-----------------------------------------------------------------------------
(* Crash and recovery.                                                     *)

CoreFails ==
    /\ core # "down" /\ lost < MaxLost
    /\ core' = "down" /\ gate' = NoCommand /\ lease' = NoController /\ lost' = lost + 1
    /\ UNCHANGED <<request, intent, receipt, aggregate, effects, disowned, collections>>

CoreRecovers ==
    /\ core = "down" /\ core' = "recovering"
    /\ UNCHANGED <<request, intent, receipt, aggregate, lease, gate, effects, disowned, lost,
                   collections>>

RevokeReserved(c) == Finished(c, "revoked")

\* A reservation of an earlier life is finished by its receipt and never carried out.
ReconciledIntent(c) ==
    IF receipt[c] # 0 THEN Finished(c, "applied") ELSE Finished(c, "revoked")

\* One transaction for each intent: recovery may stop after any of them.
ReconcileIntent(c) ==
    /\ core = "recovering" /\ intent[c] = "reserved"
    /\ intent' = ReconciledIntent(c)
    /\ UNCHANGED <<request, receipt, aggregate, lease, gate, core, effects, disowned, lost,
                   collections>>

CoreReady ==
    /\ core = "recovering" /\ \A c \in Commands : intent[c] # "reserved"
    /\ core' = "up"
    /\ UNCHANGED <<request, intent, receipt, aggregate, lease, gate, effects, disowned, lost,
                   collections>>

-----------------------------------------------------------------------------
(* Collection, behind the same gate.                                       *)

\* Intents that are finished and old enough.
CollectIntents(old) ==
    /\ core = "up" /\ gate = NoCommand /\ collections < MaxCollections
    /\ old # {} /\ \A c \in old : intent[c] \in {"applied"} \cup Refusals
    /\ intent' = [c \in Commands |-> IF c \in old THEN "none" ELSE intent[c]]
    /\ disowned' = disowned \cup {c \in old : receipt[c] = 0 /\ intent[c] = "applied"}
    /\ collections' = collections + 1
    /\ UNCHANGED <<request, receipt, aggregate, lease, gate, core, effects, lost>>

\* The oldest receipts, by their age or because there are too many.
CollectReceipts(upto) ==
    /\ core = "up" /\ gate = NoCommand /\ collections < MaxCollections
    /\ \E c \in Commands : receipt[c] \in 1..upto
    /\ receipt' = [c \in Commands |-> IF receipt[c] <= upto THEN 0 ELSE receipt[c]]
    /\ disowned' = disowned \cup
          {c \in Commands : receipt[c] \in 1..upto /\ intent[c] # "applied"}
    /\ collections' = collections + 1
    /\ UNCHANGED <<request, intent, aggregate, lease, gate, core, effects, lost>>

CommandNext ==
    \/ \E who \in Controllers : GrantLease(who)
    \/ \E c \in Commands : \E seen \in 1..aggregate : Compose(c, seen)
    \/ \E c \in Commands : ReserveIntent(c)
    \/ \E c \in Commands : DispatchGuarded(c)
    \/ \E c \in Commands : DispatchLost(c)
    \/ CoreFails
    \/ CoreRecovers
    \/ \E c \in Commands : ReconcileIntent(c)
    \/ CoreReady
    \/ \E old \in SUBSET Commands : CollectIntents(old)
    \/ \E upto \in 1..aggregate : CollectReceipts(upto)

CommandSpec == CommandInit /\ [][CommandNext]_commandVars

-----------------------------------------------------------------------------
\* A command takes effect at most once, however often it is sent, whatever crashes and even
\* when its receipt has been collected in the meantime.
AtMostOneEffect == \A c \in Commands : effects[c] <= 1

\* What the service store has finished is what happened in the project store: an applied
\* command has taken effect, one that failed or was revoked has not, and a receipt is there
\* for an effect.  Left out are commands the service store has lost sight of: their finishing
\* was lost and they came again after a takeover, where the lease is checked before the
\* receipt, or both stores have collected what they knew.
FinishedAsItHappened ==
    \A c \in Commands :
        /\ intent[c] = "applied" \/ receipt[c] # 0 => effects[c] = 1
        /\ intent[c] \in Refusals /\ c \notin disowned => effects[c] = 0

\* Commands that have taken effect built on one another: no two were composed from the same
\* revision, so none has overwritten what its client had not seen.
NoLostUpdate ==
    /\ \A c, d \in Commands :
          c # d /\ effects[c] > 0 /\ effects[d] > 0 => request[c].expects # request[d].expects
    /\ aggregate = 1 + Cardinality({c \in Commands : effects[c] > 0})

\* A command takes effect once, is answered as it happened, and overwrites nothing unseen.
CommandSafety ==
    CommandTypeOK /\ AtMostOneEffect /\ FinishedAsItHappened /\ NoLostUpdate

\* Whoever has lost the lease changes nothing any more, even with a command it had sent and
\* reserved in time, and not after it has taken the lease again.
OnlyTheHolderActs ==
    [][\A c \in Commands : effects'[c] # effects[c] =>
          request[c].client = lease.holder /\ request[c].epoch = lease.epoch]_commandVars
=============================================================================
