------------------------------ MODULE OwnerLock ------------------------------
(***************************************************************************)
(* One core per user (singleton.rs).  The operating system's mutex decides *)
(* between cores; core.lock keeps the owner and its epoch, discovery.json  *)
(* shows the owner to clients and proves by its heartbeat that it is       *)
(* alive.  The epoch has a second home in the service store.               *)
(*                                                                         *)
(* Each core is one life of a process.  It may crash between any two       *)
(* steps; a publication may fail and is rolled back; the operating system  *)
(* may take the mutex from a core that still believes to own it; the user  *)
(* may remove a file; the process id of a dead core may belong to another  *)
(* process by now.                                                         *)
(***************************************************************************)
EXTENDS Integers, FiniteSets

CONSTANTS
    Cores,          \* lives of the core, numbered
    MaxOwnerFaults  \* bound: crashes, failures, lost files and lost mutexes

ASSUME OwnerAssumption == Cores \subseteq Nat \ {0} /\ MaxOwnerFaults \in Nat

VARIABLES
    place,      \* how far each core has come
    mutex,      \* the core that holds the mutex, or NoCore
    coreLock,   \* core.lock: who owned last, its epoch, and whether it was released
    discovery,  \* discovery.json: whose it is, and whether its heartbeat is recent
    meta,       \* meta.owner_epoch of the service store
    epoch,      \* the epoch each core was given, 0 before
    fenced,     \* cores that know they have been superseded
    former,     \* core.lock as it was before the publication under way
    filesLost,  \* observer: a record was removed by the user since the last acquisition
    ownerFaults

ownerVars == <<place, mutex, coreLock, discovery, meta, epoch, fenced, former, filesLost,
               ownerFaults>>

NoCore == 0
NoLock == [owner |-> NoCore, epoch |-> 0, released |-> TRUE]
NoDiscovery == [owner |-> NoCore, recent |-> FALSE]
\* owning, then freezing, draining and stores_closed on the way out
Serving == {"owning", "freezing", "draining", "closed"}
Acquiring == {"judging", "judged", "numbered", "publishing"}
Releasing == {"releasing", "removed"}
Alive == Serving \cup Acquiring \cup Releasing

OwnerTypeOK ==
    /\ place \in [Cores -> Alive \cup {"off", "gone"}]
    /\ mutex \in Cores \cup {NoCore}
    /\ coreLock.owner \in Cores \cup {NoCore} /\ coreLock.epoch \in Nat
    /\ coreLock.released \in BOOLEAN
    /\ discovery \in [owner : Cores \cup {NoCore}, recent : BOOLEAN]
    /\ meta \in Nat /\ epoch \in [Cores -> Nat] /\ fenced \subseteq Cores
    /\ filesLost \in BOOLEAN /\ ownerFaults \in 0..MaxOwnerFaults

OwnerInit ==
    /\ place = [c \in Cores |-> "off"]
    /\ mutex = NoCore /\ coreLock = NoLock /\ discovery = NoDiscovery
    /\ meta = 0 /\ epoch = [c \in Cores |-> 0]
    /\ fenced = {} /\ former = NoLock /\ filesLost = FALSE /\ ownerFaults = 0

-----------------------------------------------------------------------------
(* Acquisition: the mutex, the predecessor, the epoch, the two records.    *)

Moves(c, from, to) == place[c] = from /\ place' = [place EXCEPT ![c] = to]

\* A core that does not get the mutex ends before it has touched anything.
TakeMutex(c) ==
    /\ Moves(c, "off", "judging") /\ mutex = NoCore
    /\ mutex' = c
    /\ UNCHANGED <<coreLock, discovery, meta, epoch, fenced, former, filesLost, ownerFaults>>

\* Whether the predecessor's process id is taken: by itself, or by someone else.
PidAlive(c, reused) == place[c] \in Alive \/ reused
TrustsTheMutex(reused) == FALSE
OwnerActive(reused) ==
    /\ coreLock.owner # NoCore /\ ~coreLock.released
    /\ PidAlive(coreLock.owner, reused) /\ discovery.recent

YieldToPredecessor(c) ==
    /\ Moves(c, "judging", "gone")
    /\ \E reused \in BOOLEAN : OwnerActive(reused)
    /\ mutex' = NoCore
    /\ UNCHANGED <<coreLock, discovery, meta, epoch, fenced, former, filesLost, ownerFaults>>

JudgePredecessor(c) ==
    /\ Moves(c, "judging", "judged")
    /\ \E reused \in BOOLEAN : ~OwnerActive(reused)
    /\ former' = coreLock
    /\ UNCHANGED <<mutex, coreLock, discovery, meta, epoch, fenced, filesLost, ownerFaults>>

\* One transaction of the service store: above its own epoch and the predecessor's.
FloorOfTheRecord(stored, floor) == floor + 1
NextOwnerEpoch(stored, floor) == (IF stored > floor THEN stored ELSE floor) + 1

NextEpoch(c) ==
    /\ Moves(c, "judged", "numbered")
    /\ LET next == NextOwnerEpoch(meta, former.epoch)
       IN  meta' = next /\ epoch' = [epoch EXCEPT ![c] = next]
    /\ UNCHANGED <<mutex, coreLock, discovery, fenced, former, filesLost, ownerFaults>>

WriteLock(c) ==
    /\ Moves(c, "numbered", "publishing")
    /\ former' = coreLock
    /\ coreLock' = [owner |-> c, epoch |-> epoch[c], released |-> FALSE]
    /\ filesLost' = FALSE
    /\ UNCHANGED <<mutex, discovery, meta, epoch, fenced, ownerFaults>>

WriteDiscovery(c) ==
    /\ Moves(c, "publishing", "owning")
    /\ discovery' = [owner |-> c, recent |-> TRUE]
    /\ UNCHANGED <<mutex, coreLock, meta, epoch, fenced, former, filesLost, ownerFaults>>

Fault == ownerFaults < MaxOwnerFaults /\ ownerFaults' = ownerFaults + 1

\* The records are put back before the mutex goes; the epoch stays used.
PublishFails(c) ==
    /\ Moves(c, "publishing", "gone") /\ Fault
    /\ coreLock' = former
    /\ mutex' = NoCore
    /\ UNCHANGED <<discovery, meta, epoch, fenced, former, filesLost>>

-----------------------------------------------------------------------------
(* What an owner writes.  Each write is preceded by the same checks, and   *)
(* an owner that fails them is fenced for good.                            *)

HoldsRecord(c) ==
    coreLock.owner = c /\ coreLock.epoch = epoch[c] /\ ~coreLock.released
HoldsDiscovery(c) == discovery.owner \in {c, NoCore}

UncheckedPublish(c) == c \notin fenced
MayPublish(c) == mutex = c /\ c \notin fenced /\ HoldsRecord(c)

\* A heartbeat, or the port once it is known.
RefreshDiscovery(c) ==
    /\ place[c] \in Serving /\ MayPublish(c) /\ HoldsDiscovery(c)
    /\ discovery' = [owner |-> c, recent |-> TRUE]
    /\ UNCHANGED <<place, mutex, coreLock, meta, epoch, fenced, former, filesLost, ownerFaults>>

MarkSuperseded(c) ==
    /\ place[c] \in Serving /\ ~(MayPublish(c) /\ HoldsDiscovery(c))
    /\ fenced' = fenced \cup {c}
    /\ UNCHANGED <<place, mutex, coreLock, discovery, meta, epoch, former, filesLost, ownerFaults>>

\* Freezing, draining, closing the stores: each proves the one before.
ShutdownStep(c) ==
    /\ \/ Moves(c, "owning", "freezing")
       \/ Moves(c, "freezing", "draining")
       \/ Moves(c, "draining", "closed")
    /\ UNCHANGED <<mutex, coreLock, discovery, meta, epoch, fenced, former, filesLost, ownerFaults>>

\* Release: the lock record, discovery, and at last the mutex, with a publication permit
\* that keeps the mutex meanwhile.
ReleaseLock(c) ==
    /\ Moves(c, "closed", "releasing") /\ MayPublish(c)
    /\ former' = coreLock
    /\ coreLock' = [coreLock EXCEPT !.released = TRUE]
    /\ UNCHANGED <<mutex, discovery, meta, epoch, fenced, filesLost, ownerFaults>>

RemoveDiscovery(c) ==
    /\ Moves(c, "releasing", "removed")
    /\ discovery' = NoDiscovery
    /\ UNCHANGED <<mutex, coreLock, meta, epoch, fenced, former, filesLost, ownerFaults>>

NotPutBack(c) == coreLock
PutBack(c) == former

ReleaseFails(c) ==
    /\ Moves(c, "releasing", "closed") /\ Fault
    /\ coreLock' = PutBack(c)
    /\ UNCHANGED <<mutex, discovery, meta, epoch, fenced, former, filesLost>>

FreeMutex(c) == mutex' = IF mutex = c THEN NoCore ELSE mutex

DropMutex(c) ==
    /\ Moves(c, "removed", "gone") /\ FreeMutex(c)
    /\ UNCHANGED <<coreLock, discovery, meta, epoch, fenced, former, filesLost, ownerFaults>>

-----------------------------------------------------------------------------
(* What happens to a core.                                                 *)

\* A crash, or a drop without release, writes nothing.
CoreDies(c) ==
    /\ place[c] \in Alive /\ Fault
    /\ place' = [place EXCEPT ![c] = "gone"] /\ FreeMutex(c)
    /\ UNCHANGED <<coreLock, discovery, meta, epoch, fenced, former, filesLost>>

\* The operating system reclaims the mutex while no publication holds it.
MutexReclaimed ==
    /\ mutex # NoCore /\ place[mutex] \in Serving /\ Fault
    /\ mutex' = NoCore
    /\ UNCHANGED <<place, coreLock, discovery, meta, epoch, fenced, former, filesLost>>

RecordsLost ==
    /\ Fault /\ filesLost' = TRUE
    /\ \/ coreLock' = NoLock /\ UNCHANGED discovery
       \/ discovery' = NoDiscovery /\ UNCHANGED coreLock
    /\ UNCHANGED <<place, mutex, meta, epoch, fenced, former>>

\* Nobody has refreshed discovery for three heartbeats.
HeartbeatExpires ==
    /\ discovery.recent /\ discovery' = [discovery EXCEPT !.recent = FALSE]
    /\ UNCHANGED <<place, mutex, coreLock, meta, epoch, fenced, former, filesLost, ownerFaults>>

OwnerNext ==
    \/ \E c \in Cores : TakeMutex(c) \/ YieldToPredecessor(c) \/ JudgePredecessor(c)
    \/ \E c \in Cores : NextEpoch(c) \/ WriteLock(c) \/ WriteDiscovery(c) \/ PublishFails(c)
    \/ \E c \in Cores : RefreshDiscovery(c) \/ MarkSuperseded(c) \/ ShutdownStep(c)
    \/ \E c \in Cores : ReleaseLock(c) \/ RemoveDiscovery(c) \/ ReleaseFails(c) \/ DropMutex(c)
    \/ \E c \in Cores : CoreDies(c)
    \/ MutexReclaimed
    \/ RecordsLost
    \/ HeartbeatExpires

OwnerSpec == OwnerInit /\ [][OwnerNext]_ownerVars

-----------------------------------------------------------------------------
\* No epoch is given twice, even when core.lock is gone or a publication was taken back.
EpochsAreUnique ==
    \A c, d \in Cores : c # d /\ epoch[c] # 0 => epoch[c] # epoch[d]

\* While a core owns the mutex and its stores, the records are its own: no core that has
\* lost the mutex, and no failed release, has written over them.
RecordsFollowTheMutex ==
    mutex # NoCore /\ place[mutex] \in Serving /\ ~filesLost =>
        HoldsRecord(mutex) /\ discovery.owner = mutex

\* Only a core that no longer owns is fenced, unless a file was taken away under it.
FencedIsSuperseded == ~filesLost => mutex \notin fenced

\* One core owns the stores, and no other writes over its records.
OwnerSafety == OwnerTypeOK /\ EpochsAreUnique /\ RecordsFollowTheMutex /\ FencedIsSuperseded

\* A serving core whose heartbeat is recent is not displaced, even when the operating system
\* has given its mutex away and whatever process id was judged.
FreshOwnerStays ==
    [][\A c \in Cores :
          /\ coreLock.owner = c /\ place[c] \in Serving
          /\ discovery = [owner |-> c, recent |-> TRUE]
          => coreLock'.owner \in {c, NoCore}]_ownerVars
=============================================================================
