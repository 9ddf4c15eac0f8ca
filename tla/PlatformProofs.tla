--------------------------- MODULE PlatformProofs ---------------------------
(***************************************************************************)
(* Proofs about what the core stands on and what reaches it from outside,  *)
(* for any values of the constants that satisfy the modules' assumptions.  *)
(* OwnerLock: no epoch is given twice, the records belong to the core that *)
(* has the mutex, and a serving core that shows a recent heartbeat is not  *)
(* displaced.  RunCapability: a token is used on one run, only a token     *)
(* that was copied loses its run, and what a close has revoked is not used *)
(* again.  WebAccess: who writes from a browser is the controller.         *)
(* AgentPipe: an agent is told what was done, and it is done once.         *)
(* ProjectMount: a folder of one project is no root of another, and a      *)
(* store has one scheduler.  AdHocSession: a session ends alike in both    *)
(* its rows.  EntryLink: a nonce opens one session, and the link on disk   *)
(* lets the user in.                                                       *)
(***************************************************************************)
EXTENDS OwnerLock, RunCapability, WebAccess, AgentPipe, ProjectMount, AdHocSession, EntryLink,
        FiniteSetTheorems, SequenceTheorems, WellFoundedInduction, TLAPS

----
(* The owner.                                                              *)

USE OwnerAssumption DEF NoCore

LockRecords == [owner : Cores \cup {NoCore}, epoch : Nat, released : BOOLEAN]
Record(c) == [owner |-> c, epoch |-> epoch[c], released |-> FALSE]

OwnerTyping ==
    /\ place \in [Cores -> Alive \cup {"off", "gone"}]
    /\ mutex \in Cores \cup {NoCore}
    /\ coreLock \in LockRecords /\ former \in LockRecords
    /\ discovery \in [owner : Cores \cup {NoCore}, recent : BOOLEAN]
    /\ meta \in Nat /\ epoch \in [Cores -> Nat] /\ fenced \subseteq Cores
    /\ filesLost \in BOOLEAN /\ ownerFaults \in 0..MaxOwnerFaults

\* Between its first and its last record a core has the mutex.
MutexInv == \A c \in Cores : place[c] \in Acquiring \cup Releasing => mutex = c

\* An epoch that was given is not above the counter.
EpochInv == (\A c \in Cores : epoch[c] <= meta) /\ EpochsAreUnique

\* The records of a core that is publishing, releasing, or owns the mutex.
RecordInv ==
    /\ \A c \in Cores : place[c] = "publishing" =>
          coreLock \in {Record(c), NoLock} /\ (~filesLost => coreLock = Record(c))
    /\ \A c \in Cores : place[c] = "releasing" =>
          /\ former = Record(c) /\ coreLock.owner \in {c, NoCore}
          /\ ~filesLost => discovery.owner = c
    /\ RecordsFollowTheMutex

\* A core is fenced after it has owned.
FenceInv ==
    /\ \A c \in fenced : place[c] \notin {"off"} \cup Acquiring
    /\ FencedIsSuperseded

\* A record that says it was released is of a core that no longer serves.
ReleasedInv ==
    /\ \A c \in Cores : coreLock.owner = c /\ coreLock.released => place[c] \notin Serving
    /\ \A c, d \in Cores : place[d] = "publishing" /\ former.owner = c /\ former.released => place[c] \notin Serving

\* A predecessor that was judged inactive stays so until it is replaced.
JudgedInv ==
    \A d \in Cores : place[d] \in {"judged", "numbered"} =>
        \/ coreLock.owner = NoCore \/ coreLock.released \/ ~discovery.recent
        \/ place[coreLock.owner] \notin Alive


\* Every step keeps the types.
LEMMA TypesKept ==
    ASSUME OwnerTyping, OwnerNext
    PROVE  OwnerTyping'
<1>1. ASSUME NEW c \in Cores, TakeMutex(c) PROVE OwnerTyping'
  BY <1>1 DEF TakeMutex, Moves, OwnerTyping, Alive, Acquiring
<1>2. ASSUME NEW c \in Cores, YieldToPredecessor(c) PROVE OwnerTyping'
  BY <1>2 DEF YieldToPredecessor, Moves, OwnerTyping
<1>3. ASSUME NEW c \in Cores, JudgePredecessor(c) PROVE OwnerTyping'
  BY <1>3 DEF JudgePredecessor, Moves, OwnerTyping, Alive, Acquiring
<1>4. ASSUME NEW c \in Cores, NextEpoch(c) PROVE OwnerTyping'
  BY <1>4 DEF NextEpoch, Moves, NextOwnerEpoch, OwnerTyping, LockRecords, Alive, Acquiring
<1>5. ASSUME NEW c \in Cores, WriteLock(c) PROVE OwnerTyping'
  BY <1>5 DEF WriteLock, Moves, OwnerTyping, LockRecords, Alive, Acquiring
<1>6. ASSUME NEW c \in Cores, WriteDiscovery(c) PROVE OwnerTyping'
  BY <1>6 DEF WriteDiscovery, Moves, OwnerTyping, Alive, Serving
<1>7. ASSUME NEW c \in Cores, PublishFails(c) PROVE OwnerTyping'  BY <1>7 DEF PublishFails, Moves, Fault, OwnerTyping
<1>8. ASSUME NEW c \in Cores, RefreshDiscovery(c) PROVE OwnerTyping'  BY <1>8 DEF RefreshDiscovery, OwnerTyping
<1>9. ASSUME NEW c \in Cores, MarkSuperseded(c) PROVE OwnerTyping'  BY <1>9 DEF MarkSuperseded, OwnerTyping
<1>10. ASSUME NEW c \in Cores, ShutdownStep(c) PROVE OwnerTyping'
  BY <1>10 DEF ShutdownStep, Moves, OwnerTyping, Alive, Serving
<1>11. ASSUME NEW c \in Cores, ReleaseLock(c) PROVE OwnerTyping'
  BY <1>11 DEF ReleaseLock, Moves, OwnerTyping, LockRecords, Alive, Releasing
<1>12. ASSUME NEW c \in Cores, RemoveDiscovery(c) PROVE OwnerTyping'
  BY <1>12 DEF RemoveDiscovery, Moves, OwnerTyping, NoDiscovery, Alive, Releasing
<1>13. ASSUME NEW c \in Cores, ReleaseFails(c) PROVE OwnerTyping'
  BY <1>13 DEF ReleaseFails, Moves, Fault, PutBack, OwnerTyping, Alive, Serving
<1>14. ASSUME NEW c \in Cores, DropMutex(c) PROVE OwnerTyping'  BY <1>14 DEF DropMutex, Moves, FreeMutex, OwnerTyping
<1>15. ASSUME NEW c \in Cores, CoreDies(c) PROVE OwnerTyping'  BY <1>15 DEF CoreDies, FreeMutex, Fault, OwnerTyping
<1>16. ASSUME MutexReclaimed PROVE OwnerTyping'  BY <1>16 DEF MutexReclaimed, Fault, OwnerTyping
<1>17. ASSUME RecordsLost PROVE OwnerTyping'
  <2>1. coreLock' \in LockRecords /\ discovery' \in [owner : Cores \cup {NoCore}, recent : BOOLEAN]
    <3>1. NoLock \in LockRecords /\ NoDiscovery \in [owner : Cores \cup {NoCore}, recent : BOOLEAN]
      BY DEF NoLock, NoDiscovery, LockRecords
    <3> QED  BY <1>17, <3>1 DEF RecordsLost, OwnerTyping
  <2> QED  BY <1>17, <2>1 DEF RecordsLost, OwnerTyping, Fault
<1>18. ASSUME HeartbeatExpires PROVE OwnerTyping'  BY <1>18 DEF HeartbeatExpires, OwnerTyping
<1> QED  BY <1>1, <1>2, <1>3, <1>4, <1>5, <1>6, <1>7, <1>8, <1>9, <1>10, <1>11, <1>12, <1>13, <1>14, <1>15,
     <1>16,
     <1>17, <1>18 DEF OwnerNext

\* The mutex does not leave a core that is acquiring or releasing.
LEMMA MutexKept ==
    ASSUME OwnerTyping, MutexInv, OwnerNext
    PROVE  MutexInv'
<1>1. ASSUME NEW c \in Cores, TakeMutex(c) PROVE MutexInv'  BY <1>1 DEF TakeMutex, Moves, MutexInv
<1>2. ASSUME NEW c \in Cores, YieldToPredecessor(c) PROVE MutexInv'
  BY <1>2 DEF YieldToPredecessor, Moves, OwnerTyping, MutexInv, Acquiring, Releasing
<1>3. ASSUME NEW c \in Cores, JudgePredecessor(c) PROVE MutexInv'
  BY <1>3 DEF JudgePredecessor, Moves, MutexInv, Acquiring
<1>4. ASSUME NEW c \in Cores, NextEpoch(c) PROVE MutexInv'  BY <1>4 DEF NextEpoch, Moves, MutexInv, Acquiring
<1>5. ASSUME NEW c \in Cores, WriteLock(c) PROVE MutexInv'  BY <1>5 DEF WriteLock, Moves, MutexInv, Acquiring
<1>6. ASSUME NEW c \in Cores, WriteDiscovery(c) PROVE MutexInv'  BY <1>6 DEF WriteDiscovery, Moves, MutexInv, Acquiring
<1>7. ASSUME NEW c \in Cores, PublishFails(c) PROVE MutexInv'
  BY <1>7 DEF PublishFails, Moves, OwnerTyping, MutexInv, Acquiring, Releasing
<1>8. ASSUME NEW c \in Cores, RefreshDiscovery(c) PROVE MutexInv'  BY <1>8 DEF RefreshDiscovery, MutexInv
<1>9. ASSUME NEW c \in Cores, MarkSuperseded(c) PROVE MutexInv'  BY <1>9 DEF MarkSuperseded, MutexInv
<1>10. ASSUME NEW c \in Cores, ShutdownStep(c) PROVE MutexInv'
  BY <1>10 DEF ShutdownStep, Moves, OwnerTyping, MutexInv, Acquiring, Releasing
<1>11. ASSUME NEW c \in Cores, ReleaseLock(c) PROVE MutexInv'  BY <1>11 DEF ReleaseLock, Moves, MayPublish, MutexInv
<1>12. ASSUME NEW c \in Cores, RemoveDiscovery(c) PROVE MutexInv'
  BY <1>12 DEF RemoveDiscovery, Moves, MutexInv, Releasing
<1>13. ASSUME NEW c \in Cores, ReleaseFails(c) PROVE MutexInv'  BY <1>13 DEF ReleaseFails, Moves, MutexInv, Releasing
<1>14. ASSUME NEW c \in Cores, DropMutex(c) PROVE MutexInv'
  BY <1>14 DEF DropMutex, Moves, OwnerTyping, MutexInv, Acquiring, Releasing
<1>15. ASSUME NEW c \in Cores, CoreDies(c) PROVE MutexInv'
  BY <1>15 DEF CoreDies, FreeMutex, OwnerTyping, MutexInv, Acquiring, Releasing
<1>16. ASSUME MutexReclaimed PROVE MutexInv'  BY <1>16 DEF MutexReclaimed, MutexInv, Serving, Acquiring, Releasing
<1>17. ASSUME RecordsLost PROVE MutexInv'  BY <1>17 DEF RecordsLost, MutexInv
<1>18. ASSUME HeartbeatExpires PROVE MutexInv'  BY <1>18 DEF HeartbeatExpires, MutexInv
<1> QED  BY <1>1, <1>2, <1>3, <1>4, <1>5, <1>6, <1>7, <1>8, <1>9, <1>10, <1>11, <1>12, <1>13, <1>14, <1>15,
     <1>16,
     <1>17, <1>18 DEF OwnerNext

\* Every epoch that is given is a new one.
LEMMA EpochsKept ==
    ASSUME OwnerTyping, EpochInv, OwnerNext
    PROVE  EpochInv'
<1>1. ASSUME NEW c \in Cores, TakeMutex(c) PROVE EpochInv'  BY <1>1 DEF TakeMutex, EpochInv, EpochsAreUnique
<1>2. ASSUME NEW c \in Cores, YieldToPredecessor(c) PROVE EpochInv'
  BY <1>2 DEF YieldToPredecessor, EpochInv, EpochsAreUnique
<1>3. ASSUME NEW c \in Cores, JudgePredecessor(c) PROVE EpochInv'
  BY <1>3 DEF JudgePredecessor, EpochInv, EpochsAreUnique
<1>4. ASSUME NEW c \in Cores, NextEpoch(c) PROVE EpochInv'
  <2>1. /\ meta' = NextOwnerEpoch(meta, former.epoch) /\ meta \in Nat /\ former.epoch \in Nat
        /\ epoch' = [epoch EXCEPT ![c] = meta'] /\ epoch \in [Cores -> Nat]
    BY <1>4 DEF NextEpoch, OwnerTyping, LockRecords
  <2>2. meta' \in Nat /\ meta' > meta  BY <2>1 DEF NextOwnerEpoch
  <2>3. epoch'[c] = meta' /\ \A d \in Cores \ {c} : epoch'[d] = epoch[d]  BY <2>1
  <2>4. \A d \in Cores : epoch[d] <= meta /\ epoch[d] \in Nat  BY <2>1 DEF EpochInv
  <2>5. \A d \in Cores : epoch'[d] <= meta'  BY <2>1, <2>2, <2>3, <2>4
  <2>6. \A d \in Cores \ {c} : epoch'[d] # epoch'[c]  BY <2>1, <2>2, <2>3, <2>4
  <2> QED  BY <2>3, <2>5, <2>6 DEF EpochInv, EpochsAreUnique
<1>5. ASSUME NEW c \in Cores, WriteLock(c) PROVE EpochInv'  BY <1>5 DEF WriteLock, EpochInv, EpochsAreUnique
<1>6. ASSUME NEW c \in Cores, WriteDiscovery(c) PROVE EpochInv'  BY <1>6 DEF WriteDiscovery, EpochInv, EpochsAreUnique
<1>7. ASSUME NEW c \in Cores, PublishFails(c) PROVE EpochInv'  BY <1>7 DEF PublishFails, EpochInv, EpochsAreUnique
<1>8. ASSUME NEW c \in Cores, RefreshDiscovery(c) PROVE EpochInv'
  BY <1>8 DEF RefreshDiscovery, EpochInv, EpochsAreUnique
<1>9. ASSUME NEW c \in Cores, MarkSuperseded(c) PROVE EpochInv'  BY <1>9 DEF MarkSuperseded, EpochInv, EpochsAreUnique
<1>10. ASSUME NEW c \in Cores, ShutdownStep(c) PROVE EpochInv'  BY <1>10 DEF ShutdownStep, EpochInv, EpochsAreUnique
<1>11. ASSUME NEW c \in Cores, ReleaseLock(c) PROVE EpochInv'  BY <1>11 DEF ReleaseLock, EpochInv, EpochsAreUnique
<1>12. ASSUME NEW c \in Cores, RemoveDiscovery(c) PROVE EpochInv'
  BY <1>12 DEF RemoveDiscovery, EpochInv, EpochsAreUnique
<1>13. ASSUME NEW c \in Cores, ReleaseFails(c) PROVE EpochInv'  BY <1>13 DEF ReleaseFails, EpochInv, EpochsAreUnique
<1>14. ASSUME NEW c \in Cores, DropMutex(c) PROVE EpochInv'  BY <1>14 DEF DropMutex, EpochInv, EpochsAreUnique
<1>15. ASSUME NEW c \in Cores, CoreDies(c) PROVE EpochInv'  BY <1>15 DEF CoreDies, EpochInv, EpochsAreUnique
<1>16. ASSUME MutexReclaimed PROVE EpochInv'  BY <1>16 DEF MutexReclaimed, EpochInv, EpochsAreUnique
<1>17. ASSUME RecordsLost PROVE EpochInv'  BY <1>17 DEF RecordsLost, EpochInv, EpochsAreUnique
<1>18. ASSUME HeartbeatExpires PROVE EpochInv'  BY <1>18 DEF HeartbeatExpires, EpochInv, EpochsAreUnique
<1> QED  BY <1>1, <1>2, <1>3, <1>4, <1>5, <1>6, <1>7, <1>8, <1>9, <1>10, <1>11, <1>12, <1>13, <1>14, <1>15,
     <1>16,
     <1>17, <1>18 DEF OwnerNext

\* Only the core that has the mutex writes the records.
LEMMA RecordsKept ==
    ASSUME OwnerTyping, MutexInv, RecordInv, OwnerNext
    PROVE  RecordInv'
<1>1. ASSUME NEW c \in Cores, TakeMutex(c) PROVE RecordInv'
  BY <1>1 DEF TakeMutex, Moves, RecordInv, RecordsFollowTheMutex, Record, Serving
<1>2. ASSUME NEW c \in Cores, YieldToPredecessor(c) PROVE RecordInv'
  BY <1>2 DEF YieldToPredecessor, Moves, RecordInv, RecordsFollowTheMutex, Record
<1>3. ASSUME NEW c \in Cores, JudgePredecessor(c) PROVE RecordInv'
  BY <1>3 DEF JudgePredecessor, Moves, MutexInv, RecordInv, RecordsFollowTheMutex, Serving, Acquiring, Releasing
<1>4. ASSUME NEW c \in Cores, NextEpoch(c) PROVE RecordInv'
  BY <1>4 DEF NextEpoch, Moves, RecordInv, RecordsFollowTheMutex, Record, HoldsRecord, Serving
<1>5. ASSUME NEW c \in Cores, WriteLock(c) PROVE RecordInv'
  BY <1>5 DEF WriteLock, Moves, OwnerTyping, MutexInv, RecordInv, RecordsFollowTheMutex, Record, Serving, Acquiring,
    Releasing
<1>6. ASSUME NEW c \in Cores, WriteDiscovery(c) PROVE RecordInv'
  BY <1>6 DEF WriteDiscovery, Moves, RecordInv, RecordsFollowTheMutex, Record, HoldsRecord
<1>7. ASSUME NEW c \in Cores, PublishFails(c) PROVE RecordInv'
  BY <1>7 DEF PublishFails, Moves, OwnerTyping, MutexInv, RecordInv, RecordsFollowTheMutex, Acquiring, Releasing
<1>8. ASSUME NEW c \in Cores, RefreshDiscovery(c) PROVE RecordInv'
  BY <1>8 DEF RefreshDiscovery, RecordInv, RecordsFollowTheMutex, Record, HoldsRecord, MayPublish
<1>9. ASSUME NEW c \in Cores, MarkSuperseded(c) PROVE RecordInv'
  BY <1>9 DEF MarkSuperseded, RecordInv, RecordsFollowTheMutex, Record, HoldsRecord
<1>10. ASSUME NEW c \in Cores, ShutdownStep(c) PROVE RecordInv'
  BY <1>10 DEF ShutdownStep, Moves, OwnerTyping, RecordInv, RecordsFollowTheMutex, Record, HoldsRecord, Serving
<1>11. ASSUME NEW c \in Cores, ReleaseLock(c) PROVE RecordInv'
  BY <1>11 DEF ReleaseLock, Moves, OwnerTyping, RecordInv, RecordsFollowTheMutex, Record, HoldsRecord, MayPublish,
    LockRecords, NoLock, Serving
<1>12. ASSUME NEW c \in Cores, RemoveDiscovery(c) PROVE RecordInv'
  BY <1>12 DEF RemoveDiscovery, Moves, OwnerTyping, RecordInv, RecordsFollowTheMutex, Record, Serving
<1>13. ASSUME NEW c \in Cores, ReleaseFails(c) PROVE RecordInv'
  BY <1>13 DEF ReleaseFails, Moves, PutBack, MutexInv, RecordInv, RecordsFollowTheMutex, Record, HoldsRecord, Acquiring,
    Releasing
<1>14. ASSUME NEW c \in Cores, DropMutex(c) PROVE RecordInv'
  BY <1>14 DEF DropMutex, Moves, FreeMutex, OwnerTyping, RecordInv, RecordsFollowTheMutex, Record, HoldsRecord
<1>15. ASSUME NEW c \in Cores, CoreDies(c) PROVE RecordInv'
  BY <1>15 DEF CoreDies, FreeMutex, RecordInv, RecordsFollowTheMutex, Record, HoldsRecord
<1>16. ASSUME MutexReclaimed PROVE RecordInv'  BY <1>16 DEF MutexReclaimed, RecordInv, RecordsFollowTheMutex, Record
<1>17. ASSUME RecordsLost PROVE RecordInv'  BY <1>17 DEF RecordsLost, RecordInv, RecordsFollowTheMutex, Record, NoLock
<1>18. ASSUME HeartbeatExpires PROVE RecordInv'
  BY <1>18 DEF HeartbeatExpires, RecordInv, RecordsFollowTheMutex, Record, HoldsRecord
<1> QED  BY <1>1, <1>2, <1>3, <1>4, <1>5, <1>6, <1>7, <1>8, <1>9, <1>10, <1>11, <1>12, <1>13, <1>14, <1>15,
     <1>16,
     <1>17, <1>18 DEF OwnerNext

\* A core whose checks fail no longer has the mutex, unless a file was taken away.
LEMMA FencesKept ==
    ASSUME OwnerTyping, MutexInv, RecordInv, FenceInv, OwnerNext
    PROVE  FenceInv'
<1>1. ASSUME NEW c \in Cores, TakeMutex(c) PROVE FenceInv'  BY <1>1 DEF TakeMutex, Moves, FenceInv, FencedIsSuperseded
<1>2. ASSUME NEW c \in Cores, YieldToPredecessor(c) PROVE FenceInv'
  BY <1>2 DEF YieldToPredecessor, Moves, OwnerTyping, FenceInv, FencedIsSuperseded, Acquiring
<1>3. ASSUME NEW c \in Cores, JudgePredecessor(c) PROVE FenceInv'
  BY <1>3 DEF JudgePredecessor, Moves, FenceInv, FencedIsSuperseded, Acquiring
<1>4. ASSUME NEW c \in Cores, NextEpoch(c) PROVE FenceInv'
  BY <1>4 DEF NextEpoch, Moves, FenceInv, FencedIsSuperseded, Acquiring
<1>5. ASSUME NEW c \in Cores, WriteLock(c) PROVE FenceInv'
  BY <1>5 DEF WriteLock, Moves, MutexInv, FenceInv, FencedIsSuperseded, Acquiring
<1>6. ASSUME NEW c \in Cores, WriteDiscovery(c) PROVE FenceInv'
  BY <1>6 DEF WriteDiscovery, Moves, FenceInv, FencedIsSuperseded, Acquiring
<1>7. ASSUME NEW c \in Cores, PublishFails(c) PROVE FenceInv'
  BY <1>7 DEF PublishFails, Moves, OwnerTyping, FenceInv, FencedIsSuperseded, Acquiring
<1>8. ASSUME NEW c \in Cores, RefreshDiscovery(c) PROVE FenceInv'
  BY <1>8 DEF RefreshDiscovery, FenceInv, FencedIsSuperseded
<1>9. ASSUME NEW c \in Cores, MarkSuperseded(c) PROVE FenceInv'
  BY <1>9 DEF MarkSuperseded, FenceInv, FencedIsSuperseded, RecordInv, RecordsFollowTheMutex, MayPublish,
    HoldsDiscovery, Serving, Acquiring
<1>10. ASSUME NEW c \in Cores, ShutdownStep(c) PROVE FenceInv'
  BY <1>10 DEF ShutdownStep, Moves, OwnerTyping, FenceInv, FencedIsSuperseded, Acquiring
<1>11. ASSUME NEW c \in Cores, ReleaseLock(c) PROVE FenceInv'
  BY <1>11 DEF ReleaseLock, Moves, FenceInv, FencedIsSuperseded, Acquiring
<1>12. ASSUME NEW c \in Cores, RemoveDiscovery(c) PROVE FenceInv'
  BY <1>12 DEF RemoveDiscovery, Moves, FenceInv, FencedIsSuperseded, Acquiring
<1>13. ASSUME NEW c \in Cores, ReleaseFails(c) PROVE FenceInv'
  BY <1>13 DEF ReleaseFails, Moves, FenceInv, FencedIsSuperseded, Acquiring
<1>14. ASSUME NEW c \in Cores, DropMutex(c) PROVE FenceInv'
  BY <1>14 DEF DropMutex, Moves, FreeMutex, OwnerTyping, FenceInv, FencedIsSuperseded, Acquiring
<1>15. ASSUME NEW c \in Cores, CoreDies(c) PROVE FenceInv'
  BY <1>15 DEF CoreDies, FreeMutex, OwnerTyping, FenceInv, FencedIsSuperseded, Acquiring
<1>16. ASSUME MutexReclaimed PROVE FenceInv'  BY <1>16 DEF MutexReclaimed, OwnerTyping, FenceInv, FencedIsSuperseded
<1>17. ASSUME RecordsLost PROVE FenceInv'  BY <1>17 DEF RecordsLost, FenceInv, FencedIsSuperseded
<1>18. ASSUME HeartbeatExpires PROVE FenceInv'  BY <1>18 DEF HeartbeatExpires, FenceInv, FencedIsSuperseded
<1> QED  BY <1>1, <1>2, <1>3, <1>4, <1>5, <1>6, <1>7, <1>8, <1>9, <1>10, <1>11, <1>12, <1>13, <1>14, <1>15,
     <1>16,
     <1>17, <1>18 DEF OwnerNext

\* A core that serves has not been recorded as released.
LEMMA ReleasedKept ==
    ASSUME OwnerTyping, MutexInv, RecordInv, ReleasedInv, OwnerNext
    PROVE  ReleasedInv'
<1>1. ASSUME NEW c \in Cores, TakeMutex(c) PROVE ReleasedInv'  BY <1>1 DEF TakeMutex, Moves, ReleasedInv, Serving
<1>2. ASSUME NEW c \in Cores, YieldToPredecessor(c) PROVE ReleasedInv'
  BY <1>2 DEF YieldToPredecessor, Moves, ReleasedInv, Serving
<1>3. ASSUME NEW c \in Cores, JudgePredecessor(c) PROVE ReleasedInv'
  BY <1>3 DEF JudgePredecessor, Moves, ReleasedInv, Serving
<1>4. ASSUME NEW c \in Cores, NextEpoch(c) PROVE ReleasedInv'  BY <1>4 DEF NextEpoch, Moves, ReleasedInv, Serving
<1>5. ASSUME NEW c \in Cores, WriteLock(c) PROVE ReleasedInv'  BY <1>5 DEF WriteLock, Moves, ReleasedInv, Serving
<1>6. ASSUME NEW c \in Cores, WriteDiscovery(c) PROVE ReleasedInv'
  BY <1>6 DEF WriteDiscovery, Moves, MutexInv, RecordInv, ReleasedInv, Record, NoLock, Acquiring
<1>7. ASSUME NEW c \in Cores, PublishFails(c) PROVE ReleasedInv'
  BY <1>7 DEF PublishFails, Moves, OwnerTyping, ReleasedInv, Serving
<1>8. ASSUME NEW c \in Cores, RefreshDiscovery(c) PROVE ReleasedInv'  BY <1>8 DEF RefreshDiscovery, ReleasedInv
<1>9. ASSUME NEW c \in Cores, MarkSuperseded(c) PROVE ReleasedInv'  BY <1>9 DEF MarkSuperseded, ReleasedInv
<1>10. ASSUME NEW c \in Cores, ShutdownStep(c) PROVE ReleasedInv'
  BY <1>10 DEF ShutdownStep, Moves, OwnerTyping, ReleasedInv, Serving
<1>11. ASSUME NEW c \in Cores, ReleaseLock(c) PROVE ReleasedInv'
  BY <1>11 DEF ReleaseLock, Moves, OwnerTyping, ReleasedInv, HoldsRecord, MayPublish, Serving
<1>12. ASSUME NEW c \in Cores, RemoveDiscovery(c) PROVE ReleasedInv'
  BY <1>12 DEF RemoveDiscovery, Moves, ReleasedInv, Serving
<1>13. ASSUME NEW c \in Cores, ReleaseFails(c) PROVE ReleasedInv'
  BY <1>13 DEF ReleaseFails, Moves, PutBack, RecordInv, ReleasedInv, Record
<1>14. ASSUME NEW c \in Cores, DropMutex(c) PROVE ReleasedInv'  BY <1>14 DEF DropMutex, Moves, ReleasedInv, Serving
<1>15. ASSUME NEW c \in Cores, CoreDies(c) PROVE ReleasedInv'  BY <1>15 DEF CoreDies, MutexInv, ReleasedInv, Serving
<1>16. ASSUME MutexReclaimed PROVE ReleasedInv'  BY <1>16 DEF MutexReclaimed, ReleasedInv
<1>17. ASSUME RecordsLost PROVE ReleasedInv'  BY <1>17 DEF RecordsLost, ReleasedInv, NoLock
<1>18. ASSUME HeartbeatExpires PROVE ReleasedInv'  BY <1>18 DEF HeartbeatExpires, ReleasedInv
<1> QED  BY <1>1, <1>2, <1>3, <1>4, <1>5, <1>6, <1>7, <1>8, <1>9, <1>10, <1>11, <1>12, <1>13, <1>14, <1>15,
     <1>16,
     <1>17, <1>18 DEF OwnerNext

\* Nobody writes a record or shows a heartbeat while a successor is acquiring.
LEMMA JudgedKept ==
    ASSUME OwnerTyping, MutexInv, JudgedInv, OwnerNext
    PROVE  JudgedInv'
<1>1. ASSUME NEW c \in Cores, TakeMutex(c) PROVE JudgedInv'
  BY <1>1 DEF TakeMutex, Moves, MutexInv, JudgedInv, Acquiring
<1>2. ASSUME NEW c \in Cores, YieldToPredecessor(c) PROVE JudgedInv'
  BY <1>2 DEF YieldToPredecessor, Moves, JudgedInv, Alive, Acquiring
<1>3. ASSUME NEW c \in Cores, JudgePredecessor(c) PROVE JudgedInv'
  BY <1>3 DEF JudgePredecessor, Moves, JudgedInv, OwnerActive, PidAlive, Alive, Acquiring
<1>4. ASSUME NEW c \in Cores, NextEpoch(c) PROVE JudgedInv'  BY <1>4 DEF NextEpoch, Moves, JudgedInv, Alive, Acquiring
<1>5. ASSUME NEW c \in Cores, WriteLock(c) PROVE JudgedInv'
  BY <1>5 DEF WriteLock, Moves, OwnerTyping, MutexInv, JudgedInv, Acquiring
<1>6. ASSUME NEW c \in Cores, WriteDiscovery(c) PROVE JudgedInv'
  BY <1>6 DEF WriteDiscovery, Moves, MutexInv, JudgedInv, Acquiring
<1>7. ASSUME NEW c \in Cores, PublishFails(c) PROVE JudgedInv'
  BY <1>7 DEF PublishFails, Moves, MutexInv, JudgedInv, Acquiring
<1>8. ASSUME NEW c \in Cores, RefreshDiscovery(c) PROVE JudgedInv'
  BY <1>8 DEF RefreshDiscovery, MutexInv, JudgedInv, MayPublish, Serving, Acquiring
<1>9. ASSUME NEW c \in Cores, MarkSuperseded(c) PROVE JudgedInv'  BY <1>9 DEF MarkSuperseded, JudgedInv
<1>10. ASSUME NEW c \in Cores, ShutdownStep(c) PROVE JudgedInv'
  BY <1>10 DEF ShutdownStep, Moves, OwnerTyping, MutexInv, JudgedInv, OwnerActive, PidAlive, MayPublish, LockRecords,
    NoLock, NoDiscovery, Releasing
<1>11. ASSUME NEW c \in Cores, ReleaseLock(c) PROVE JudgedInv'  BY <1>11 DEF ReleaseLock, JudgedInv
<1>12. ASSUME NEW c \in Cores, RemoveDiscovery(c) PROVE JudgedInv'  BY <1>12 DEF RemoveDiscovery, JudgedInv, NoDiscovery
<1>13. ASSUME NEW c \in Cores, ReleaseFails(c) PROVE JudgedInv'
  BY <1>13 DEF ReleaseFails, Moves, MutexInv, JudgedInv, Acquiring, Releasing
<1>14. ASSUME NEW c \in Cores, DropMutex(c) PROVE JudgedInv'  BY <1>14 DEF DropMutex, Moves, JudgedInv, Alive, Releasing
<1>15. ASSUME NEW c \in Cores, CoreDies(c) PROVE JudgedInv'  BY <1>15 DEF CoreDies, JudgedInv
<1>16. ASSUME MutexReclaimed PROVE JudgedInv'  BY <1>16 DEF MutexReclaimed, JudgedInv
<1>17. ASSUME RecordsLost PROVE JudgedInv'  BY <1>17 DEF RecordsLost, JudgedInv, NoLock, NoDiscovery
<1>18. ASSUME HeartbeatExpires PROVE JudgedInv'  BY <1>18 DEF HeartbeatExpires, JudgedInv
<1> QED  BY <1>1, <1>2, <1>3, <1>4, <1>5, <1>6, <1>7, <1>8, <1>9, <1>10, <1>11, <1>12, <1>13, <1>14, <1>15,
     <1>16,
     <1>17, <1>18 DEF OwnerNext

----
(* The invariant and the theorems.                                         *)

OwnerInv ==
    OwnerTyping /\ MutexInv /\ EpochInv /\ RecordInv /\ FenceInv /\ ReleasedInv /\ JudgedInv

\* The invariant is inductive.
THEOREM OwnerInductive == OwnerSpec => []OwnerInv
<1>1. OwnerInit => OwnerInv
  <2> SUFFICES ASSUME OwnerInit PROVE OwnerInv  OBVIOUS
  <2>1. OwnerTyping
    <3>1. NoLock \in LockRecords /\ NoDiscovery \in [owner : Cores \cup {NoCore}, recent : BOOLEAN]
      BY DEF NoLock, NoDiscovery, LockRecords
    <3>2. ownerFaults \in 0..MaxOwnerFaults /\ meta \in Nat /\ epoch \in [Cores -> Nat]  BY DEF OwnerInit
    <3> QED  BY <3>1, <3>2 DEF OwnerInit, OwnerTyping
  <2>2. MutexInv /\ EpochInv /\ FenceInv
    BY DEF OwnerInit, MutexInv, EpochInv, FenceInv, EpochsAreUnique, FencedIsSuperseded, Acquiring, Releasing
  <2>3. RecordInv /\ ReleasedInv /\ JudgedInv
    BY DEF OwnerInit, RecordInv, ReleasedInv, JudgedInv, RecordsFollowTheMutex, Serving
  <2> QED  BY <2>1, <2>2, <2>3 DEF OwnerInv
<1>2. OwnerInv /\ [OwnerNext]_ownerVars => OwnerInv'
  <2>1. ASSUME OwnerInv, OwnerNext PROVE OwnerInv'
    BY <2>1, TypesKept, MutexKept, EpochsKept, RecordsKept, FencesKept, ReleasedKept, JudgedKept DEF OwnerInv
  <2>2. ASSUME OwnerInv, UNCHANGED ownerVars PROVE OwnerInv'
    BY <2>2 DEF ownerVars, OwnerInv, OwnerTyping, MutexInv, EpochInv, RecordInv, FenceInv, ReleasedInv, JudgedInv,
      EpochsAreUnique, RecordsFollowTheMutex, FencedIsSuperseded, HoldsRecord, Record
  <2> QED  BY <2>1, <2>2
<1> QED  BY <1>1, <1>2, PTL DEF OwnerSpec

\* Every variable keeps its type, for any number of cores.
THEOREM OwnerTypes == OwnerSpec => []OwnerTypeOK
<1>1. OwnerInv => OwnerTypeOK  BY DEF OwnerInv, OwnerTyping, OwnerTypeOK, LockRecords
<1> QED  BY <1>1, OwnerInductive, PTL

\* No epoch is given twice, though records are lost and publications are taken back.
THEOREM EpochsAreUniqueAlways == OwnerSpec => []EpochsAreUnique
<1>1. OwnerInv => EpochsAreUnique  BY DEF OwnerInv, EpochInv
<1> QED  BY <1>1, OwnerInductive, PTL

\* The records belong to the core that has the mutex.
THEOREM RecordsFollowTheMutexAlways == OwnerSpec => []RecordsFollowTheMutex
<1>1. OwnerInv => RecordsFollowTheMutex  BY DEF OwnerInv, RecordInv
<1> QED  BY <1>1, OwnerInductive, PTL

\* Only a core that no longer owns is fenced.
THEOREM FencedIsSupersededAlways == OwnerSpec => []FencedIsSuperseded
<1>1. OwnerInv => FencedIsSuperseded  BY DEF OwnerInv, FenceInv
<1> QED  BY <1>1, OwnerInductive, PTL

\* One core owns the stores, and no other writes over its records.
THEOREM OneOwnerAlways == OwnerSpec => []OwnerSafety
<1>1. OwnerInv => OwnerSafety
  BY DEF OwnerInv, OwnerTyping, EpochInv, RecordInv, FenceInv, OwnerSafety, OwnerTypeOK, LockRecords
<1> QED  BY <1>1, OwnerInductive, PTL

\* A serving core whose heartbeat is recent keeps its record.
OwnerStays ==
    \A c \in Cores :
        coreLock.owner = c /\ place[c] \in Serving /\ discovery = [owner |-> c, recent |-> TRUE]
        => coreLock'.owner \in {c, NoCore}

\* A successor replaces only a predecessor that is released, dead or silent.
LEMMA FreshStays ==
    ASSUME OwnerInv, OwnerNext
    PROVE  OwnerStays
<1>1. ASSUME NEW c \in Cores, TakeMutex(c) PROVE OwnerStays  BY <1>1 DEF TakeMutex, Moves, OwnerStays
<1>2. ASSUME NEW c \in Cores, YieldToPredecessor(c) PROVE OwnerStays  BY <1>2 DEF YieldToPredecessor, Moves, OwnerStays
<1>3. ASSUME NEW c \in Cores, JudgePredecessor(c) PROVE OwnerStays  BY <1>3 DEF JudgePredecessor, Moves, OwnerStays
<1>4. ASSUME NEW c \in Cores, NextEpoch(c) PROVE OwnerStays  BY <1>4 DEF NextEpoch, OwnerStays
<1>5. ASSUME NEW c \in Cores, WriteLock(c) PROVE OwnerStays
  BY <1>5 DEF WriteLock, Moves, OwnerStays, OwnerInv, JudgedInv, ReleasedInv, Alive
<1>6. ASSUME NEW c \in Cores, WriteDiscovery(c) PROVE OwnerStays  BY <1>6 DEF WriteDiscovery, Moves, OwnerStays
<1>7. ASSUME NEW c \in Cores, PublishFails(c) PROVE OwnerStays
  BY <1>7 DEF PublishFails, Moves, OwnerStays, OwnerInv, RecordInv, Record, NoLock, Serving
<1>8. ASSUME NEW c \in Cores, RefreshDiscovery(c) PROVE OwnerStays  BY <1>8 DEF RefreshDiscovery, OwnerStays
<1>9. ASSUME NEW c \in Cores, MarkSuperseded(c) PROVE OwnerStays  BY <1>9 DEF MarkSuperseded, OwnerStays
<1>10. ASSUME NEW c \in Cores, ShutdownStep(c) PROVE OwnerStays  BY <1>10 DEF ShutdownStep, Moves, OwnerStays
<1>11. ASSUME NEW c \in Cores, ReleaseLock(c) PROVE OwnerStays  BY <1>11 DEF ReleaseLock, OwnerStays
<1>12. ASSUME NEW c \in Cores, RemoveDiscovery(c) PROVE OwnerStays  BY <1>12 DEF RemoveDiscovery, Moves, OwnerStays
<1>13. ASSUME NEW c \in Cores, ReleaseFails(c) PROVE OwnerStays
  BY <1>13 DEF ReleaseFails, Moves, PutBack, OwnerStays, OwnerInv, RecordInv, Record
<1>14. ASSUME NEW c \in Cores, DropMutex(c) PROVE OwnerStays  BY <1>14 DEF DropMutex, OwnerStays
<1>15. ASSUME NEW c \in Cores, CoreDies(c) PROVE OwnerStays  BY <1>15 DEF CoreDies, OwnerStays
<1>16. ASSUME MutexReclaimed PROVE OwnerStays  BY <1>16 DEF MutexReclaimed, Fault, OwnerStays
<1>17. ASSUME RecordsLost PROVE OwnerStays  BY <1>17 DEF RecordsLost, OwnerStays, NoLock
<1>18. ASSUME HeartbeatExpires PROVE OwnerStays  BY <1>18 DEF HeartbeatExpires, OwnerStays
<1> QED  BY <1>1, <1>2, <1>3, <1>4, <1>5, <1>6, <1>7, <1>8, <1>9, <1>10, <1>11, <1>12, <1>13, <1>14, <1>15,
     <1>16,
     <1>17, <1>18 DEF OwnerNext

\* A serving core whose heartbeat is recent is not displaced.
THEOREM FreshOwnerStaysAlways == OwnerSpec => FreshOwnerStays
<1>1. OwnerInv /\ [OwnerNext]_ownerVars =>
         [\A c \in Cores :
             /\ coreLock.owner = c /\ place[c] \in Serving
             /\ discovery = [owner |-> c, recent |-> TRUE]
             => coreLock'.owner \in {c, NoCore}]_ownerVars
  BY FreshStays DEF OwnerStays
<1> QED  BY <1>1, OwnerInductive, PTL DEF FreshOwnerStays, OwnerSpec

HIDE OwnerAssumption DEF NoCore

----
(* The tokens of runs.                                                     *)

USE CapabilityAssumption

Indexed(t) == capability[t] # Unindexed
Rows == {Unindexed} \cup [project : Projects, state : CapabilityStates]
Over == {"settled", "revoked", "quarantined"}

CapabilityTyping ==
    /\ attached \in [Projects -> {"detached", "open", "closing", "prepared"}]
    /\ agentRuns \in [Projects -> [Tokens -> RunStates]]
    /\ capability \in [Tokens -> Rows]
    /\ fencedRuns \subseteq Projects \X Tokens /\ actedOn \subseteq Projects \X Tokens

\* A row is of a run that exists; it is quarantined only when the token has two runs, and
\* settled only when its run is.
RowInv ==
    \A t \in Tokens : Indexed(t) =>
        /\ agentRuns[capability[t].project][t] # "none"
        /\ capability[t].state = "quarantined" =>
              \E q \in Projects \ {capability[t].project} : agentRuns[q][t] # "none"
        /\ capability[t].state = "settled" => agentRuns[capability[t].project][t] \in Settlements

\* What was used is indexed, and what was fenced is indexed and over.
UsedInv ==
    /\ \A p \in Projects, t \in Tokens : <<p, t>> \in actedOn => Indexed(t) /\ capability[t].project = p
    /\ \A p \in Projects, t \in Tokens : <<p, t>> \in fencedRuns =>
          /\ agentRuns[p][t] # "none" /\ Indexed(t)
          /\ capability[t].project = p => capability[t].state \in Over

CapabilityInv == CapabilityTyping /\ RowInv /\ UsedInv

\* How one row of the service store may change: not the project of an indexed one, and a state
\* that is over only to quarantined.
Follows(row, next) ==
    /\ next \in Rows
    /\ row # Unindexed => next # Unindexed /\ next.project = row.project
    /\ row.state \in Over => next.state \in {row.state, "quarantined"}

----
(* The operators on rows.                                                  *)

\* A registered row is of the project, or it was of another one and is quarantined now.
LEMMA RegisterRow ==
    ASSUME NEW row \in Rows, NEW p \in Projects
    PROVE  /\ Follows(row, Register(row, p)) /\ Register(row, p) # Unindexed
           /\ row = Unindexed => Register(row, p).project = p /\ Register(row, p).state = "active"
           /\ row # Unindexed /\ row.project = p => Register(row, p) = row
           /\ Register(row, p).state = "settled" => Register(row, p) = row
           /\ row # Unindexed /\ row.project # p => Register(row, p).state = "quarantined"
BY DEF Rows, Register, Row, Unindexed, Follows, CapabilityStates, Over

\* A quarantined row keeps its project.
LEMMA QuarantineRow ==
    ASSUME NEW row \in Rows, NEW p \in Projects
    PROVE  /\ Follows(row, Quarantine(row, p)) /\ Quarantine(row, p) # Unindexed
           /\ Quarantine(row, p).state = "quarantined"
           /\ row = Unindexed => Quarantine(row, p).project = p
BY DEF Rows, Quarantine, Row, Unindexed, Follows, CapabilityStates, Over

\* Only an active row is settled or revoked.
LEMMA TransitionRow ==
    ASSUME NEW row \in Rows, NEW state \in {"settled", "revoked"}
    PROVE  /\ Follows(row, Transition(row, state))
           /\ Transition(row, state).state \in {row.state, state}
           /\ row = Unindexed => Transition(row, state) = row
           /\ row # Unindexed => Transition(row, state).state \in Over
BY DEF Rows, Transition, Unindexed, Follows, CapabilityStates, Over

\* A row that follows one that follows a row follows that row.
LEMMA FollowsTwice ==
    ASSUME NEW a \in Rows, NEW b, NEW c, Follows(a, b), Follows(b, c)
    PROVE  Follows(a, c)
BY DEF Follows, Over

\* The comparison of the index with the stores finds a run of the token for every row it
\* writes, and two for one it quarantines.
Backed(row, t) ==
    row # Unindexed =>
        /\ agentRuns[row.project][t] # "none"
        /\ row.state = "quarantined" => \E q \in Projects \ {row.project} : agentRuns[q][t] # "none"

\* Resolving a token follows its row, and what it writes is backed by runs.
LEMMA ResolvedRow ==
    ASSUME CapabilityTyping, RowInv, NEW t \in Tokens
    PROVE  /\ Follows(capability[t], Resolved(t)) /\ Backed(Resolved(t), t)
           /\ Resolved(t).state = "settled" => Resolved(t) = capability[t]
<1> DEFINE row == capability[t]
<1>0. row \in Rows /\ Backed(row, t) /\ Hits(t) \subseteq Projects
  BY DEF CapabilityTyping, RowInv, Indexed, Backed, Hits
<1>1. Follows(row, row)  BY <1>0 DEF Follows
<1>2. CASE row.state = "quarantined" \/ Hits(t) \subseteq {row.project}
  <2>1. Resolved(t) = row  BY <1>2 DEF Resolved
  <2> QED  BY <1>0, <1>1, <2>1
<1>3. CASE row.state # "quarantined" /\ ~(Hits(t) \subseteq {row.project})
  <2> DEFINE p == AnyHit(t)
  <2>1. p \in Hits(t) /\ p \in Projects /\ agentRuns[p][t] # "none"  BY <1>3 DEF Hits, AnyHit
  <2>2. CASE row = Unindexed /\ Hits(t) = {p}
    <3>1. Resolved(t) = Register(row, p)  BY <1>3, <2>2 DEF Resolved
    <3> QED  BY <1>0, <2>1, <2>2, <3>1, RegisterRow DEF Backed
  <2>3. CASE row = Unindexed /\ Hits(t) # {p}
    <3>1. Resolved(t) = Quarantine(row, p)  BY <1>3, <2>3 DEF Resolved
    <3>2. PICK q \in Hits(t) : q # p  BY <2>1, <2>3
    <3> QED  BY <1>0, <2>1, <2>3, <3>1, <3>2, QuarantineRow DEF Backed, Hits
  <2>4. CASE row # Unindexed
    <3>1. Resolved(t) = Quarantine(row, p)  BY <1>3, <2>4 DEF Resolved
    <3>2. PICK q \in Hits(t) : q # row.project  BY <1>3
    <3> QED  BY <1>0, <2>1, <2>4, <3>1, <3>2, QuarantineRow DEF Backed, Follows, Hits
  <2> QED  BY <2>2, <2>3, <2>4
<1> QED  BY <1>2, <1>3

----
(* What a step does to the rows and to the runs.                           *)

\* A row follows the one before and is backed by the runs as they were; a run is not
\* forgotten, one that was settled stays so, and one that is fenced is at most cancelled.
RowsFollow ==
    /\ capability' \in [Tokens -> Rows]
    /\ \A t \in Tokens : Follows(capability[t], capability'[t]) /\ Backed(capability'[t], t)
RunsStay ==
    \A p \in Projects, t \in Tokens :
        /\ agentRuns[p][t] # "none" => agentRuns'[p][t] # "none"
        /\ agentRuns[p][t] \in Settlements => agentRuns'[p][t] = agentRuns[p][t]
        /\ <<p, t>> \in fencedRuns => agentRuns'[p][t] \in {agentRuns[p][t], "cancelled"}

\* Whatever the kernel does with a token, its row follows.
LEMMA RowsStep ==
    ASSUME CapabilityInv, CapabilityNext
    PROVE  RowsFollow
<1> USE DEF CapabilityInv
<1>0. /\ \A t \in Tokens : capability[t] \in Rows /\ Follows(capability[t], capability[t]) /\ Backed(capability[t], t)
      /\ capability \in [Tokens -> Rows]
  BY DEF CapabilityTyping, RowInv, Indexed, Backed, Follows
<1>1. ASSUME NEW t \in Tokens, TokenRefused(t) PROVE RowsFollow
  <2>1. Resolved(t) \in Rows  BY ResolvedRow DEF Follows
  <2> QED  BY <1>0, <1>1, <2>1, ResolvedRow DEF TokenRefused, RowsFollow
<1>2. ASSUME NEW t \in Tokens, ReportState(t) PROVE RowsFollow
  <2>1. Resolved(t) \in Rows  BY ResolvedRow DEF Follows
  <2> QED  BY <1>0, <1>2, <2>1, ResolvedRow DEF ReportState, RowsFollow
<1>3. ASSUME NEW t \in Tokens, NEW s \in Settlements, SettleByToken(t, s) PROVE RowsFollow
  <2>1. PICK drained \in BOOLEAN : capability' = [capability EXCEPT ![t] = SealAfter(Resolved(t), drained)]
    BY <1>3 DEF SettleByToken
  <2>2. Follows(capability[t], Resolved(t)) /\ Backed(Resolved(t), t)  BY ResolvedRow
  <2>3. Resolved(t) \in Rows  BY <2>2 DEF Follows
  <2>4. Follows(Resolved(t), SealAfter(Resolved(t), drained)) /\ Backed(SealAfter(Resolved(t), drained), t)
    <3>1. CASE drained  BY <2>2, <2>3, <3>1, TransitionRow DEF SealAfter, Backed, Follows
    <3>2. CASE ~drained  BY <2>2, <2>3, <3>2 DEF SealAfter, Follows
    <3> QED  BY <3>1, <3>2
  <2>5. Follows(capability[t], SealAfter(Resolved(t), drained))  BY <1>0, <2>2, <2>4, FollowsTwice
  <2>6. SealAfter(Resolved(t), drained) \in Rows  BY <2>5 DEF Follows
  <2> QED  BY <1>0, <2>1, <2>4, <2>5, <2>6 DEF RowsFollow
<1>4. ASSUME NEW p \in Projects, NEW some \in SUBSET RunsOf(p), NEW t \in Tokens
      PROVE  Follows(capability[t], Backfilled(p, some)[t]) /\ Backed(Backfilled(p, some)[t], t)
  <2>1. CASE t \in some  BY <1>0, <2>1, RegisterRow DEF Backed, Follows, RunsOf, Backfilled
  <2>2. CASE t \notin some  BY <1>0, <2>2 DEF Backfilled
  <2> QED  BY <2>1, <2>2
<1>5. ASSUME NEW p \in Projects, PrepareClose(p) PROVE RowsFollow
  <2> DEFINE rows == Backfilled(p, RunsOf(p))
  <2>1. capability' = [t \in Tokens |-> IF rows[t].project = p THEN Transition(rows[t], "revoked") ELSE rows[t]]
    BY <1>5 DEF PrepareClose
  <2>2. ASSUME NEW t \in Tokens PROVE Follows(capability[t], capability'[t]) /\ Backed(capability'[t], t)
    <3>1. Follows(capability[t], rows[t]) /\ Backed(rows[t], t)  BY <1>4
    <3>2. rows[t] \in Rows  BY <3>1 DEF Follows
    <3> QED  BY <2>1, <3>1, <3>2, TransitionRow, <1>0, FollowsTwice DEF Backed, Follows
  <2>3. \A t \in Tokens : capability'[t] \in Rows  BY <2>2 DEF Follows
  <2> QED  BY <2>1, <2>2, <2>3 DEF RowsFollow
<1>6. ASSUME NEW p \in Projects, PrepareCloseFails(p) PROVE RowsFollow
  <2>1. PICK some \in SUBSET RunsOf(p) : capability' = Backfilled(p, some)  BY <1>6 DEF PrepareCloseFails
  <2>2. Backfilled(p, some) \in [Tokens -> Rows]  BY <1>4 DEF Backfilled, Follows
  <2> QED  BY <1>4, <2>1, <2>2 DEF RowsFollow
<1>7. CASE capability' = capability  BY <1>0, <1>7 DEF RowsFollow
<1> QED
  BY <1>1, <1>2, <1>3, <1>5, <1>6, <1>7 DEF CapabilityNext, CreateRun, CancelAgentRun, CopyDirectory, RegisterProject,
    FinalizeClose, CoreStops

\* What the kernel does to a run with the token, it does to the run of the row.
LEMMA ActedRow ==
    ASSUME CapabilityInv, NEW t \in Tokens, Admitted(Resolved(t), t)
    PROVE  /\ Resolved(t).project \in Projects
           /\ \A p \in Projects : <<p, t>> \in fencedRuns /\ p = Resolved(t).project => Resolved(t).state = "settled"
<1>1. Follows(capability[t], Resolved(t)) /\ Resolved(t) # Unindexed /\ Resolved(t).state \in {"active", "settled"}
  BY ResolvedRow DEF CapabilityInv, Admitted
<1>2. Resolved(t).project \in Projects  BY <1>1 DEF Follows, Rows
<1>3. ASSUME NEW p \in Projects, <<p, t>> \in fencedRuns, p = Resolved(t).project PROVE Resolved(t).state = "settled"
  BY <1>1, <1>3 DEF Follows, Indexed, Over, CapabilityInv, UsedInv
<1> QED  BY <1>2, <1>3

\* No step forgets a run; what is fenced is at most cancelled.
LEMMA RunsStep ==
    ASSUME CapabilityInv, CapabilityNext
    PROVE  RunsStay
<1> USE DEF CapabilityInv
<1>0. agentRuns \in [Projects -> [Tokens -> RunStates]]  BY DEF CapabilityTyping
<1>1. ASSUME NEW t \in Tokens, ReportState(t) PROVE RunsStay
  <2>1. PICK state \in {"running", "waiting"} : agentRuns' = [agentRuns EXCEPT ![Resolved(t).project][t] = state]
    BY <1>1 DEF ReportState, Act
  <2> QED  BY <1>0, <1>1, <2>1, ActedRow DEF RunsStay, Settlements, ReportState
<1>2. ASSUME NEW t \in Tokens, NEW s \in Settlements, SettleByToken(t, s) PROVE RunsStay
  <2>1. /\ Admitted(Resolved(t), t) /\ agentRuns[Resolved(t).project][t] \in {"running", "waiting", s}
        /\ agentRuns' = [agentRuns EXCEPT ![Resolved(t).project][t] = s]
    BY <1>2 DEF SettleByToken, Act
  <2>2. Resolved(t).state = "settled" => agentRuns[Resolved(t).project][t] = s
    BY <2>1, ResolvedRow DEF RowInv, Indexed, Settlements, Admitted
  <2> QED  BY <1>0, <2>1, <2>2, ActedRow DEF RunsStay, Settlements
<1>3. ASSUME NEW p \in Projects, NEW t \in Tokens, CreateRun(p, t) PROVE RunsStay
  BY <1>0, <1>3 DEF CreateRun, RunsStay, UsedInv, Settlements
<1>4. ASSUME NEW p \in Projects, NEW t \in Tokens, CancelAgentRun(p, t) PROVE RunsStay
  BY <1>0, <1>4 DEF CancelAgentRun, RunsStay, Settlements
<1>5. ASSUME NEW p \in Projects, NEW q \in Projects, CopyDirectory(p, q) PROVE RunsStay
  BY <1>0, <1>5 DEF CopyDirectory, RunsStay, UsedInv, Settlements
<1>6. CASE agentRuns' = agentRuns  BY <1>6 DEF RunsStay
<1> QED
  BY <1>1, <1>2, <1>3, <1>4, <1>5, <1>6 DEF CapabilityNext, TokenRefused, RegisterProject, PrepareClose,
    PrepareCloseFails, FinalizeClose, CoreStops

----
(* The invariant.                                                          *)

\* Every step keeps the types.
LEMMA TypeStep ==
    ASSUME CapabilityInv, RowsFollow, CapabilityNext
    PROVE  CapabilityTyping'
<1> USE DEF CapabilityInv, CapabilityTyping, RunStates, Settlements
<1>0. capability' \in [Tokens -> Rows]  BY DEF RowsFollow
<1>1. ASSUME NEW t \in Tokens, TokenRefused(t) PROVE CapabilityTyping'  BY <1>0, <1>1 DEF TokenRefused
<1>2. ASSUME NEW t \in Tokens, ReportState(t) PROVE CapabilityTyping'  BY <1>0, <1>2, ActedRow DEF ReportState, Act
<1>3. ASSUME NEW t \in Tokens, NEW s \in Settlements, SettleByToken(t, s) PROVE CapabilityTyping'
  BY <1>0, <1>3, ActedRow DEF SettleByToken, Act
<1>4. ASSUME NEW p \in Projects, NEW t \in Tokens, CreateRun(p, t) \/ CancelAgentRun(p, t) PROVE CapabilityTyping'
  BY <1>0, <1>4 DEF CreateRun, CancelAgentRun
<1>5. ASSUME NEW p \in Projects, NEW q \in Projects, CopyDirectory(p, q) PROVE CapabilityTyping'
  BY <1>0, <1>5 DEF CopyDirectory
<1>6. ASSUME NEW p \in Projects, RegisterProject(p) \/ FinalizeClose(p) PROVE CapabilityTyping'
  BY <1>0, <1>6 DEF RegisterProject, FinalizeClose
<1>7. ASSUME NEW p \in Projects, PrepareClose(p) PROVE CapabilityTyping'  BY <1>0, <1>7 DEF PrepareClose, RunsOf
<1>8. ASSUME NEW p \in Projects, PrepareCloseFails(p) PROVE CapabilityTyping'  BY <1>0, <1>8 DEF PrepareCloseFails
<1>9. ASSUME CoreStops PROVE CapabilityTyping'  BY <1>0, <1>9 DEF CoreStops
<1> QED  BY <1>1, <1>2, <1>3, <1>4, <1>5, <1>6, <1>7, <1>8, <1>9 DEF CapabilityNext

\* A row that is written settled is of a run that is settled.
LEMMA SettledStep ==
    ASSUME CapabilityInv, RowsFollow, RunsStay, CapabilityNext, NEW t \in Tokens,
           capability'[t].state = "settled", capability[t].state # "settled"
    PROVE  agentRuns'[capability'[t].project][t] \in Settlements
<1>0. capability \in [Tokens -> Rows] /\ agentRuns \in [Projects -> [Tokens -> RunStates]]
  BY DEF CapabilityInv, CapabilityTyping
<1>1. ASSUME NEW u \in Tokens, TokenRefused(u) \/ ReportState(u) PROVE FALSE
  <2>1. t = u /\ Resolved(t).state = "settled"  BY <1>0, <1>1 DEF TokenRefused, ReportState
  <2> QED  BY <2>1, ResolvedRow DEF CapabilityInv
<1>2. ASSUME NEW u \in Tokens, NEW s \in Settlements, SettleByToken(u, s)
      PROVE  agentRuns'[capability'[t].project][t] \in Settlements
  <2>1. PICK drained \in BOOLEAN : capability' = [capability EXCEPT ![u] = SealAfter(Resolved(u), drained)]
    BY <1>2 DEF SettleByToken
  <2>2. t = u  BY <1>0, <2>1
  <2>3. Admitted(Resolved(t), t) /\ agentRuns' = [agentRuns EXCEPT ![Resolved(t).project][t] = s]
    BY <1>2, <2>2 DEF SettleByToken, Act
  <2>4. Resolved(t) \in Rows /\ Resolved(t) # Unindexed /\ Resolved(t).project \in Projects
    BY <2>3, ResolvedRow, ActedRow DEF CapabilityInv, Follows, Admitted
  <2>5. capability'[t].project = Resolved(t).project  BY <2>4, <1>0, <2>1, <2>2, TransitionRow DEF Follows, SealAfter
  <2> QED  BY <1>0, <2>3, <2>4, <2>5
<1>3. ASSUME NEW p \in Projects, NEW some \in SUBSET RunsOf(p)
      PROVE  /\ Backfilled(p, some)[t] \in Rows
             /\ Backfilled(p, some)[t].state = "settled" => Backfilled(p, some)[t] = capability[t]
  BY <1>0, RegisterRow DEF Follows, Backfilled
<1>4. ASSUME NEW p \in Projects, PrepareClose(p) PROVE FALSE
  <2> DEFINE rows == Backfilled(p, RunsOf(p))
  <2>1. rows[t].state = "settled"  BY <1>3, <1>4, TransitionRow DEF PrepareClose
  <2> QED  BY <1>3, <2>1
<1>5. ASSUME NEW p \in Projects, PrepareCloseFails(p) PROVE FALSE  BY <1>3, <1>5 DEF PrepareCloseFails
<1>6. capability' # capability  OBVIOUS
<1> QED
  BY <1>1, <1>2, <1>4, <1>5, <1>6 DEF CapabilityNext, CreateRun, CancelAgentRun, CopyDirectory, RegisterProject,
    FinalizeClose, CoreStops

\* A row keeps being of a run that exists.
LEMMA RowStep ==
    ASSUME CapabilityInv, RowsFollow, RunsStay, CapabilityNext
    PROVE  RowInv'
<1> SUFFICES ASSUME NEW t \in Tokens, capability'[t] # Unindexed
             PROVE  /\ agentRuns'[capability'[t].project][t] # "none"
                    /\ capability'[t].state = "quarantined" =>
                          \E q \in Projects \ {capability'[t].project} : agentRuns'[q][t] # "none"
                    /\ capability'[t].state = "settled" => agentRuns'[capability'[t].project][t] \in Settlements
  BY DEF RowInv, Indexed
<1>1. capability'[t].project \in Projects  BY DEF RowsFollow, Rows
<1>2. ASSUME capability'[t].state = "settled" PROVE agentRuns'[capability'[t].project][t] \in Settlements
  <2>1. CASE capability[t].state = "settled"
    <3>1. Indexed(t) /\ capability'[t].project = capability[t].project
      BY <2>1 DEF RowsFollow, Follows, Indexed, Unindexed
    <3>2. agentRuns[capability[t].project][t] \in Settlements  BY <2>1, <3>1 DEF CapabilityInv, RowInv
    <3> QED  BY <1>1, <3>1, <3>2 DEF RunsStay
  <2>2. CASE capability[t].state # "settled"  BY <1>2, <2>2, SettledStep
  <2> QED  BY <2>1, <2>2
<1> QED  BY <1>1, <1>2 DEF RowsFollow, Backed, RunsStay

\* What was used stays indexed, and what was fenced stays over.
LEMMA UsedStep ==
    ASSUME CapabilityInv, RowsFollow, RunsStay, CapabilityNext
    PROVE  UsedInv'
<1>0. capability \in [Tokens -> Rows] /\ UsedInv  BY DEF CapabilityInv, CapabilityTyping
<1>1. ASSUME NEW p \in Projects, NEW t \in Tokens, <<p, t>> \in actedOn'
      PROVE  capability'[t] # Unindexed /\ capability'[t].project = p
  <2>1. CASE <<p, t>> \in actedOn  BY <1>0, <2>1 DEF UsedInv, Indexed, RowsFollow, Follows
  <2>2. ASSUME NEW u \in Tokens, <<p, t>> \notin actedOn, ReportState(u) \/ \E s \in Settlements : SettleByToken(u, s)
        PROVE  capability'[t] # Unindexed /\ capability'[t].project = p
    <3>1. /\ Admitted(Resolved(u), u) /\ actedOn' = actedOn \cup {<<Resolved(u).project, u>>}
          /\ \/ capability' = [capability EXCEPT ![u] = Resolved(u)]
             \/ capability' = [capability EXCEPT ![u] = Transition(Resolved(u), "settled")]
      BY <2>2 DEF ReportState, SettleByToken, Act, SealAfter
    <3>2. u = t /\ p = Resolved(t).project  BY <1>1, <2>2, <3>1
    <3>3. Resolved(t) \in Rows /\ Resolved(t) # Unindexed
      BY <3>1, <3>2, ResolvedRow DEF CapabilityInv, Follows, Admitted
    <3>4. capability'[t] \in {Resolved(t), Transition(Resolved(t), "settled")}  BY <1>0, <3>1, <3>2
    <3> QED  BY <3>2, <3>3, <3>4, TransitionRow DEF Follows
  <2>3. CASE actedOn' = actedOn  BY <1>1, <2>1, <2>3
  <2> QED
    BY <2>1, <2>2, <2>3 DEF CapabilityNext, TokenRefused, CreateRun, CancelAgentRun, CopyDirectory, RegisterProject,
      PrepareClose, PrepareCloseFails, FinalizeClose, CoreStops
<1>2. ASSUME NEW p \in Projects, NEW t \in Tokens, <<p, t>> \in fencedRuns'
      PROVE  /\ agentRuns'[p][t] # "none" /\ capability'[t] # Unindexed
             /\ capability'[t].project = p => capability'[t].state \in Over
  <2>1. CASE <<p, t>> \in fencedRuns  BY <1>0, <2>1 DEF RunsStay, RowsFollow, Follows, Over, UsedInv, Indexed
  <2>2. ASSUME NEW q \in Projects, <<p, t>> \notin fencedRuns, PrepareClose(q)
        PROVE  /\ agentRuns'[p][t] # "none" /\ capability'[t] # Unindexed
               /\ capability'[t].project = p => capability'[t].state \in Over
    <3>1. q = p /\ t \in RunsOf(p) /\ agentRuns' = agentRuns  BY <1>2, <2>2 DEF PrepareClose
    <3> DEFINE row == Register(capability[t], p)
    <3>2. row \in Rows /\ row # Unindexed  BY <1>0, RegisterRow DEF Follows
    <3>3. agentRuns'[p][t] # "none"  BY <3>1 DEF RunsOf
    <3> QED  BY <2>2, <3>1, <3>2, <3>3, TransitionRow DEF Follows, PrepareClose, Backfilled
  <2>3. CASE fencedRuns' = fencedRuns  BY <1>2, <2>1, <2>3
  <2> QED
    BY <2>1, <2>2, <2>3 DEF CapabilityNext, TokenRefused, ReportState, SettleByToken, Act, CreateRun, CancelAgentRun,
      CopyDirectory, RegisterProject, PrepareCloseFails, FinalizeClose, CoreStops
<1> QED  BY <1>1, <1>2 DEF UsedInv, Indexed

\* Every step preserves the invariant.
LEMMA CapabilityStep ==
    ASSUME CapabilityInv, CapabilityNext
    PROVE  CapabilityInv' /\ RowsFollow /\ RunsStay
BY RowsStep, RunsStep, TypeStep, RowStep, UsedStep DEF CapabilityInv

----
(* Theorems.                                                               *)

\* The invariant is inductive.
THEOREM CapabilityInductive == CapabilitySpec => []CapabilityInv
<1>1. CapabilityInit => CapabilityInv
  BY DEF CapabilityInit, CapabilityInv, CapabilityTyping, RowInv, UsedInv, Indexed, Rows, RunStates
<1>2. CapabilityInv /\ [CapabilityNext]_capabilityVars => CapabilityInv'
  BY CapabilityStep DEF capabilityVars, CapabilityInv, CapabilityTyping, RowInv, UsedInv, Indexed
<1> QED  BY <1>1, <1>2, PTL DEF CapabilitySpec

\* Every row keeps its type, for any projects and tokens.
THEOREM CapabilityTypes == CapabilitySpec => []CapabilityTypeOK
<1>1. CapabilityInv => CapabilityTypeOK  BY DEF CapabilityInv, CapabilityTyping, CapabilityTypeOK, Rows
<1> QED  BY <1>1, CapabilityInductive, PTL

\* A token is used on the run of one project.
THEOREM OneRunPerTokenAlways == CapabilitySpec => []OneRunPerToken
<1>1. CapabilityInv => OneRunPerToken
  <2> SUFFICES ASSUME CapabilityInv, NEW t \in Tokens
               PROVE  Cardinality({p \in Projects : <<p, t>> \in actedOn}) <= 1
    BY DEF OneRunPerToken
  <2>1. {p \in Projects : <<p, t>> \in actedOn} \subseteq {capability[t].project}  BY DEF CapabilityInv, UsedInv
  <2>2. IsFiniteSet({capability[t].project}) /\ Cardinality({capability[t].project}) = 1  BY FS_Singleton
  <2> QED  BY <2>1, <2>2, FS_Subset
<1> QED  BY <1>1, CapabilityInductive, PTL

\* Only a token that was copied loses its run.
THEOREM UncopiedIsNotQuarantinedAlways == CapabilitySpec => []UncopiedIsNotQuarantined
<1>1. CapabilityInv => UncopiedIsNotQuarantined
  <2> SUFFICES ASSUME CapabilityInv, NEW t \in Tokens, capability[t].state = "quarantined"
               PROVE  ~(Cardinality({p \in Projects : agentRuns[p][t] # "none"}) <= 1)
    BY DEF UncopiedIsNotQuarantined
  <2> DEFINE S == {p \in Projects : agentRuns[p][t] # "none"}
  <2>1. PICK p \in S, q \in S : p # q  BY DEF CapabilityInv, RowInv, CapabilityTyping, Rows, Indexed, Unindexed
  <2>2. IsFiniteSet(S)  BY FS_Subset
  <2>3. IsFiniteSet({p, q}) /\ Cardinality({p, q}) = 2
    <3>1. IsFiniteSet({p}) /\ Cardinality({p}) = 1 /\ {p, q} = {p} \cup {q} /\ q \notin {p}  BY <2>1, FS_Singleton
    <3>2. Cardinality({p} \cup {q}) = 1 + 1 /\ IsFiniteSet({p} \cup {q})  BY <3>1, FS_AddElement
    <3> QED  BY <3>1, <3>2
  <2> QED  BY <2>3, <2>1, <2>2, FS_Subset, FS_CardinalityType
<1> QED  BY <1>1, CapabilityInductive, PTL

\* What a close has revoked is not settled or reported again, and no row leaves an end state.
THEOREM RevokedForGoodAlways == CapabilitySpec => RevokedForGood
<1>1. CapabilityInv /\ [CapabilityNext]_capabilityVars =>
        [/\ \A p \in Projects, t \in Tokens :
               <<p, t>> \in fencedRuns => agentRuns'[p][t] \in {agentRuns[p][t], "cancelled"}
         /\ \A t \in Tokens :
               capability[t].state \in {"settled", "revoked", "quarantined"} =>
                   capability'[t].state \in {capability[t].state, "quarantined"}]_capabilityVars
  BY CapabilityStep DEF RowsFollow, RunsStay, Follows, Over
<1> QED  BY <1>1, CapabilityInductive, PTL DEF RevokedForGood, CapabilitySpec

HIDE CapabilityAssumption

----
(* Who may write from a browser.                                           *)

WebRoles == {"controller", "observer", "gone"}
WebSession == [role : WebRoles, idle : Nat, age : Nat]
LeaseRecords == [who : Nat, epoch : Nat]
Answers == {"none", "ok", "unauthenticated", "csrf_rejected", "controller_required",
            "invalid_envelope", "controller_lease_expired"}
Writes == [at : {"sent", "answered", "probed"}, kind : WriteKinds, id : Nat, cookie : Nat, who : Nat,
           client : Nat, epoch : Nat, held : LeaseRecords, tries : {1, 2}, second : BOOLEAN,
           answer : Answers, current : Nat]
UnderWay(t) == request[t] # NoRequest

AccessTyping ==
    /\ webSessions \in Seq(WebSession) /\ Len(webSessions) <= MaxSessions
    /\ lease \in LeaseRecords
    /\ cookie \in [Browsers -> Nat]
    /\ tab \in [Tabs -> [who : Nat, epoch : Nat, role : {"none", "controller", "observer"}]]
    /\ request \in [Tabs -> {NoRequest} \cup Writes]
    /\ clicks \in Nat
    /\ told \in Seq({"nothing", "lost", "refused", "done"}) /\ Len(told) = clicks

\* Nobody names a session that has not been opened.
NamesInv ==
    /\ lease.who <= Len(webSessions)
    /\ \A b \in Browsers : cookie[b] <= Len(webSessions)
    /\ \A t \in Tabs : tab[t].who <= Len(webSessions)
    /\ \A t \in Tabs : UnderWay(t) => request[t].client <= Len(webSessions)

\* A controller has the lease.
RoleInv == \A s \in DOMAIN webSessions : webSessions[s].role = "controller" => lease.who = s

\* The epochs grow as long as a session is known, and a write knows the lease of its click.
EpochsInv ==
    /\ \A t \in Tabs : Known(tab[t].who) => tab[t].epoch <= lease.epoch
    /\ \A t \in Tabs : UnderWay(t) =>
         LET w == request[t] IN
         /\ w.held.epoch <= lease.epoch
         /\ w.held.epoch = lease.epoch => w.held = lease
         /\ w.kind = "command" /\ Known(w.client) => w.epoch <= w.held.epoch

\* A click under way has been told nothing; it went through just if its answer is "ok".
ClickInv ==
    /\ \A t \in Tabs : UnderWay(t) =>
         LET w == request[t] IN
         /\ w.id \in 1..clicks /\ told[w.id] = "nothing"
         /\ w.at = "answered" /\ w.answer = "ok" <=> \E x \in through : x.id = w.id
    /\ \A t, u \in Tabs : UnderWay(t) /\ UnderWay(u) /\ request[t].id = request[u].id => t = u
    /\ \A x \in through : x.id \in 1..clicks

AccessInv ==
    /\ AccessTyping /\ NamesInv /\ RoleInv /\ EpochsInv /\ ClickInv
    /\ OnlyTheController /\ LandsUnderItsLease /\ OneWritePerClick

\* What the handlers make of the sessions: nobody becomes known, or the controller.
Quieter(ws) ==
    /\ ws \in Seq(WebSession) /\ Len(ws) = Len(webSessions)
    /\ \A s \in DOMAIN webSessions :
         /\ ws[s].role \in {webSessions[s].role, "observer", "gone"}
         /\ webSessions[s].role = "gone" => ws[s].role = "gone"

\* The clock only takes: a session that is looked at may be gone afterwards, none comes up.
LEMMA VerifiedIsQuieter ==
    ASSUME AccessTyping, NEW s
    PROVE  Quieter(Verified(s)) /\ (Known(s) => Quieter(Touched(s)))
<1>1. webSessions \in Seq(WebSession)  BY DEF AccessTyping
<1>2. \A i \in DOMAIN webSessions : webSessions[i] \in WebSession  BY <1>1
<1>3. Quieter(webSessions)  BY <1>1 DEF Quieter
<1>4. ASSUME Known(s) PROVE Quieter(Touched(s)) /\ Quieter(Forgotten(s))
  <2>1. s \in DOMAIN webSessions /\ webSessions[s].role # "gone"  BY <1>4 DEF Known
  <2>2. [webSessions[s] EXCEPT !.idle = 0] \in WebSession /\ Gone \in WebSession
    BY <1>2, <2>1 DEF WebSession, Gone, WebRoles
  <2>3. ASSUME NEW i \in DOMAIN webSessions
        PROVE  /\ Touched(s)[i].role = webSessions[i].role
               /\ Forgotten(s)[i].role \in {webSessions[i].role, "gone"}
               /\ webSessions[i].role = "gone" => Forgotten(s)[i].role = "gone"
    BY <1>1, <1>2, <2>1 DEF Touched, Forgotten, WebSession, Gone
  <2> QED  BY <1>1, <2>1, <2>2, <2>3 DEF Quieter, Touched, Forgotten
<1> QED  BY <1>3, <1>4 DEF Verified, Valid

\* A session that is opened makes the others observers.
LEMMA DemotedIsQuieter ==
    ASSUME NEW ws \in Seq(WebSession)
    PROVE  /\ Demoted(ws) \in Seq(WebSession) /\ Len(Demoted(ws)) = Len(ws)
           /\ \A i \in DOMAIN ws : /\ Demoted(ws)[i].role # "controller"
                                   /\ ws[i].role = "gone" => Demoted(ws)[i].role = "gone"
<1>1. \A i \in DOMAIN ws : ws[i] \in WebSession  OBVIOUS
<1>2. ASSUME NEW i \in DOMAIN ws
      PROVE  /\ Demoted(ws)[i] \in WebSession /\ Demoted(ws)[i].role # "controller"
             /\ ws[i].role = "gone" => Demoted(ws)[i].role = "gone"
  BY <1>1 DEF Demoted, WebSession, WebRoles
<1>3. Demoted(ws) \in [1..Len(ws) -> WebSession]  BY <1>2 DEF Demoted
<1> QED  BY <1>2, <1>3

\* What a step does to the sessions and to the lease: what is gone stays gone, a new controller has
\* the lease, and the lease goes to the next epoch or, with nobody left, to the first.
SessionsGo ==
    /\ webSessions' \in Seq(WebSession) /\ Len(webSessions') <= MaxSessions
    /\ Len(webSessions) <= Len(webSessions')
    /\ \A s \in DOMAIN webSessions' : webSessions'[s].role # "gone" =>
         s \notin DOMAIN webSessions \/ webSessions[s].role # "gone"
    /\ \A s \in DOMAIN webSessions' : webSessions'[s].role = "controller" =>
         lease'.who = s \/ (lease' = lease /\ s \in DOMAIN webSessions /\ webSessions[s].role = "controller")
    /\ \/ lease' = lease
       \/ lease' \in LeaseRecords /\ lease'.epoch = lease.epoch + 1 /\ lease'.who <= Len(webSessions')
       \/ /\ lease' = [who |-> 0, epoch |-> 0]
          /\ \A s \in DOMAIN webSessions' : webSessions'[s].role = "gone"
          /\ \A t \in Tabs : ~UnderWay(t) /\ request'[t] = request[t] /\ tab'[t] = tab[t]

\* Sessions that only lose something, under the same lease, are a step of SessionsGo.
LEMMA QuieterGoes ==
    ASSUME AccessTyping, Quieter(webSessions'), lease' = lease
    PROVE  SessionsGo
<1>1. DOMAIN webSessions' = DOMAIN webSessions  BY DEF AccessTyping, Quieter
<1>2. \A s \in DOMAIN webSessions' : webSessions'[s].role # "gone" => webSessions[s].role # "gone"  BY <1>1 DEF Quieter
<1>3. \A s \in DOMAIN webSessions' : webSessions'[s].role = "controller" => webSessions[s].role = "controller"
  BY <1>1 DEF Quieter
<1> QED  BY <1>1, <1>2, <1>3, AccessAssumption DEF AccessTyping, Quieter, SessionsGo

\* Every handler moves sessions and lease as SessionsGo says (auth.rs, controller.rs).
LEMMA SessionsStep ==
    ASSUME AccessTyping, NamesInv, AccessNext
    PROVE  SessionsGo
<1> USE AccessAssumption
<1>0. /\ webSessions \in Seq(WebSession) /\ Len(webSessions) \in Nat /\ Len(webSessions) <= MaxSessions
      /\ lease \in LeaseRecords /\ MaxSessions \in Nat
      /\ Quieter(webSessions)
  BY DEF AccessTyping, Quieter
<1>1. ASSUME WebTick PROVE SessionsGo
  <2>1. ASSUME NEW i \in DOMAIN webSessions
        PROVE  /\ Aged(webSessions[i]) \in WebSession /\ Aged(webSessions[i]).role = webSessions[i].role
    <3>1. webSessions[i] \in WebSession  BY <1>0
    <3>2. ASSUME NEW a \in Nat, NEW b \in Nat PROVE Min({a + 1, b}) \in Nat
      <4>1. \E m \in {a + 1, b} : \A y \in {a + 1, b} : m <= y
        <5>1. CASE a + 1 <= b  BY <5>1
        <5>2. CASE ~(a + 1 <= b)  BY <5>2
        <5> QED  BY <5>1, <5>2
      <4>2. Min({a + 1, b}) \in {a + 1, b}  BY <4>1 DEF Min
      <4> QED  BY <4>2
    <3> QED  BY <3>1, <3>2 DEF Aged, WebSession
  <2>2. webSessions' = [i \in DOMAIN webSessions |-> Aged(webSessions[i])] /\ lease' = lease  BY <1>1 DEF WebTick
  <2>3. webSessions' \in Seq(WebSession) /\ Len(webSessions') = Len(webSessions)  BY <1>0, <2>1, <2>2
  <2>4. Quieter(webSessions')  BY <2>1, <2>2, <2>3 DEF Quieter
  <2> QED  BY <2>2, <2>4, QuieterGoes
<1>2. ASSUME WebRestart PROVE SessionsGo
  <2>1. Gone \in WebSession  BY DEF Gone, WebSession, WebRoles
  <2>2. webSessions' \in [1..Len(webSessions) -> WebSession]  BY <1>0, <1>2, <2>1 DEF WebRestart
  <2>3. webSessions' \in Seq(WebSession) /\ Len(webSessions') = Len(webSessions)  BY <1>0, <2>2
  <2>4. \A s \in DOMAIN webSessions' : webSessions'[s].role = "gone"  BY <1>2, <2>3 DEF WebRestart, Gone
  <2>5. \A t \in Tabs : ~UnderWay(t) /\ request'[t] = request[t] /\ tab'[t] = tab[t]
    BY <1>2 DEF WebRestart, UnderWay, NoRequest, AccessTyping, Writes
  <2> QED  BY <1>0, <1>2, <2>3, <2>4, <2>5 DEF SessionsGo, WebRestart
<1>3. ASSUME NEW t \in Tabs, Bootstrap(t) PROVE SessionsGo
  <2>1. NewSession \in WebSession /\ NewSession.role = "controller"  BY DEF NewSession, WebSession, WebRoles
  <2>2. webSessions' = Append(Demoted(webSessions), NewSession) /\ Len(webSessions) + 1 <= MaxSessions
    BY <1>3 DEF Bootstrap, Opened
  <2>3. /\ webSessions' \in Seq(WebSession) /\ Len(webSessions') = Len(webSessions) + 1
        /\ \A s \in DOMAIN webSessions : webSessions'[s] = Demoted(webSessions)[s]
    BY <1>0, <2>1, <2>2, DemotedIsQuieter
  <2>4. webSessions'[Len(webSessions) + 1] = NewSession  BY <1>0, <2>2, DemotedIsQuieter
  <2>5. \A s \in DOMAIN webSessions : webSessions'[s].role # "controller"
                                      /\ (webSessions[s].role = "gone" => webSessions'[s].role = "gone")
    BY <1>0, <2>3, DemotedIsQuieter
  <2>6. lease' \in LeaseRecords /\ lease'.epoch = lease.epoch + 1 /\ lease'.who = Len(webSessions) + 1
    BY <1>0, <1>3 DEF LeaseRecords, Bootstrap, Granted
  <2> HIDE DEF NewSession
  <2> QED  BY <1>0, <2>2, <2>3, <2>5, <2>6 DEF SessionsGo
<1>4. ASSUME NEW t \in Tabs, Reload(t) \/ Probe(t) PROVE SessionsGo
  BY <1>4, QuieterGoes, VerifiedIsQuieter DEF Reload, Probe, TellRest
<1>5. ASSUME NEW t \in Tabs, Handle(t) PROVE SessionsGo
  <2> DEFINE w == request[t]
  <2>1. CASE Verdict(w) = "ok" /\ w.kind = "takeover"
    <3>1. Valid(w.cookie)  BY <2>1 DEF Verdict, Authorize
    <3>2. w.cookie \in DOMAIN webSessions /\ webSessions[w.cookie].role # "gone" /\ Known(w.cookie)
      BY <3>1 DEF Valid, Known
    <3> DEFINE ws == Demoted(Touched(w.cookie))
    <3>3. Quieter(Touched(w.cookie))  BY <3>2, VerifiedIsQuieter
    <3>4. /\ ws \in Seq(WebSession) /\ Len(ws) = Len(webSessions)
          /\ \A i \in DOMAIN webSessions : /\ ws[i].role # "controller"
                                           /\ webSessions[i].role = "gone" => ws[i].role = "gone"
      BY <1>0, <3>3, DemotedIsQuieter DEF Quieter
    <3>5. webSessions' = [ws EXCEPT ![w.cookie].role = "controller"]  BY <1>5, <2>1 DEF Handle, Promoted
    <3>6. lease' = [who |-> w.cookie, epoch |-> lease.epoch + 1]  BY <1>5, <2>1 DEF Handle, Granted
    <3> HIDE DEF ws
    <3>7. w.cookie \in DOMAIN ws /\ ws[w.cookie] \in WebSession /\ w.cookie \in Nat  BY <1>0, <3>2, <3>4
    <3>8. [ws[w.cookie] EXCEPT !.role = "controller"] \in WebSession  BY <3>7 DEF WebSession, WebRoles
    <3>9. webSessions' \in Seq(WebSession) /\ Len(webSessions') = Len(webSessions)  BY <1>0, <3>4, <3>5, <3>7, <3>8
    <3>10. \A i \in DOMAIN webSessions \ {w.cookie} : webSessions'[i] = ws[i]  BY <1>0, <3>4, <3>5
    <3>11. lease' \in LeaseRecords /\ lease'.epoch = lease.epoch + 1 /\ lease'.who = w.cookie
           /\ w.cookie <= Len(webSessions)
      BY <1>0, <3>2, <3>6, <3>7 DEF LeaseRecords
    <3>12. DOMAIN webSessions' = DOMAIN webSessions  BY <1>0, <3>9
    <3>13. \A s \in DOMAIN webSessions' : webSessions'[s].role # "gone" => webSessions[s].role # "gone"
      BY <3>2, <3>4, <3>10, <3>12
    <3> QED  BY <1>0, <3>9, <3>11, <3>13, <3>4, <3>10, <3>12 DEF SessionsGo
  <2>2. CASE Verdict(w) = "ok" /\ w.kind # "takeover"
    <3>1. Valid(w.cookie)  BY <2>2 DEF Verdict, Authorize
    <3> QED  BY <1>5, <2>2, <3>1, QuieterGoes, VerifiedIsQuieter DEF Handle, Valid
  <2>3. CASE Verdict(w) # "ok"  BY <1>0, <1>5, <2>3, QuieterGoes, VerifiedIsQuieter DEF Handle
  <2> QED  BY <2>1, <2>2, <2>3
<1>6. CASE webSessions' = webSessions /\ lease' = lease  BY <1>0, <1>6, QuieterGoes
<1> QED  BY <1>1, <1>2, <1>3, <1>4, <1>5, <1>6 DEF AccessNext, Click, Lost, Resend, TakeAgain, Tell, TellRest

\* What becomes of the write of a tab: it is a new click, or keeps its click, its body and, if it
\* is a command, its epoch.
WriteGoes(t) ==
    UnderWay(t)' =>
        \/ /\ ~UnderWay(t) /\ clicks' = clicks + 1 /\ told' = Append(told, "nothing")
           /\ request'[t].at = "sent" /\ request'[t].id = clicks + 1 /\ request'[t].held = lease
           /\ request'[t].client = tab[t].who /\ request'[t].epoch = tab[t].epoch
           /\ \A u \in Tabs \ {t} : request'[u] = request[u]
        \/ /\ UnderWay(t)
           /\ request'[t].id = request[t].id /\ request'[t].held = request[t].held
           /\ request'[t].client = request[t].client /\ request'[t].kind = request[t].kind
           /\ request[t].kind = "command" => request'[t].epoch = request[t].epoch

\* What a click sends is a write in the form of Writes.
LEMMA SentWrite ==
    ASSUME AccessTyping, NEW t \in Tabs, NEW w \in Writes
    PROVE  /\ Sent(t, w) \in Writes /\ Sent(t, w).at = "sent" /\ Sent(t, w).id = w.id
           /\ Sent(t, w).held = w.held /\ Sent(t, w).client = w.client
           /\ Sent(t, w).kind = w.kind /\ Sent(t, w).epoch = w.epoch
BY DEF AccessTyping, Browsers, Sent, Writes

\* Every step moves the write of a tab as WriteGoes says.
LEMMA WritesStep ==
    ASSUME AccessTyping, SessionsGo, AccessNext
    PROVE  request' \in [Tabs -> {NoRequest} \cup Writes] /\ \A t \in Tabs : WriteGoes(t)
<1> DEFINE Good == request' \in [Tabs -> {NoRequest} \cup Writes] /\ \A t \in Tabs : WriteGoes(t)
<1>0. /\ request \in [Tabs -> {NoRequest} \cup Writes] /\ lease \in LeaseRecords /\ clicks \in Nat
      /\ \A t \in Tabs : cookie[BrowserOf[t]] \in Nat
      /\ \A t \in Tabs : tab[t].who \in Nat /\ tab[t].epoch \in Nat
      /\ lease' \in LeaseRecords /\ lease'.epoch \in Nat
  BY DEF AccessTyping, SessionsGo, LeaseRecords, Browsers
<1>1. \A t \in Tabs : request[t].at # "none" => request[t] \in Writes /\ UnderWay(t)  BY <1>0 DEF NoRequest, UnderWay
<1>2. CASE request' = request  BY <1>0, <1>2 DEF WriteGoes, UnderWay
\* One tab goes on with its write, or is done with it.
<1>3. ASSUME NEW t \in Tabs, NEW w \in Writes \cup {NoRequest}, request' = [request EXCEPT ![t] = w],
             w \in Writes => /\ request[t] \in Writes /\ w.id = request[t].id /\ w.held = request[t].held
                             /\ w.client = request[t].client /\ w.kind = request[t].kind
                             /\ request[t].kind = "command" => w.epoch = request[t].epoch
      PROVE  Good
  <2>1. request' \in [Tabs -> {NoRequest} \cup Writes]  BY <1>0, <1>3
  <2>2. request'[t] = w /\ \A u \in Tabs \ {t} : request'[u] = request[u]  BY <1>0, <1>3
  <2>3. UnderWay(t)' => w \in Writes  BY <1>3, <2>2 DEF UnderWay
  <2>4. WriteGoes(t)
    <3>1. request[t] \in Writes => UnderWay(t)  BY DEF UnderWay, Writes, NoRequest
    <3> QED  BY <1>3, <2>2, <2>3, <3>1 DEF WriteGoes
  <2>5. ASSUME NEW u \in Tabs \ {t} PROVE WriteGoes(u)
    <3>1. UnderWay(u)' => UnderWay(u)  BY <2>2 DEF UnderWay
    <3> QED  BY <2>2, <3>1 DEF WriteGoes
  <2> QED  BY <2>1, <2>4, <2>5
<1>4. ASSUME NEW t \in Tabs, NEW kind \in WriteKinds, Click(t, kind) PROVE Good
  <2> DEFINE body == [at |-> "sent", kind |-> kind, id |-> clicks + 1, cookie |-> 0, who |-> 0,
                  client |-> tab[t].who, epoch |-> tab[t].epoch, held |-> lease, tries |-> 1,
                  second |-> FALSE, answer |-> "none", current |-> 0]
             w == Sent(t, body)
  <2>1. /\ body \in Writes /\ body.id = clicks + 1 /\ body.held = lease
        /\ body.client = tab[t].who /\ body.epoch = tab[t].epoch
    BY <1>0 DEF Writes, Answers
  <2> HIDE DEF body
  <2>2. /\ w \in Writes /\ w.at = "sent" /\ w.id = body.id /\ w.held = body.held
        /\ w.client = body.client /\ w.epoch = body.epoch
    BY <2>1, SentWrite
  <2>3. /\ request' = [request EXCEPT ![t] = w] /\ clicks' = clicks + 1 /\ told' = Append(told, "nothing")
        /\ request[t].at = "none"
    BY <1>4 DEF Click, body
  <2> HIDE DEF w
  <2>4. request' \in [Tabs -> {NoRequest} \cup Writes]  BY <1>0, <2>2, <2>3
  <2>5. request'[t] = w /\ \A u \in Tabs \ {t} : request'[u] = request[u]  BY <1>0, <2>3
  <2>6. ~UnderWay(t)  BY <1>0, <2>3 DEF UnderWay, Writes
  <2>7. WriteGoes(t)  BY <2>3, <2>1, <2>2, <2>5, <2>6 DEF WriteGoes
  <2>8. ASSUME NEW u \in Tabs \ {t} PROVE WriteGoes(u)
    <3>1. UnderWay(u)' => UnderWay(u)  BY <2>5 DEF UnderWay
    <3> QED  BY <2>5, <3>1 DEF WriteGoes
  <2> QED  BY <2>4, <2>7, <2>8
<1>5. ASSUME NEW t \in Tabs, Handle(t) PROVE Good
  <2> DEFINE w == request[t]  a == Verdict(w)
  <2>1. w \in Writes  BY <1>1, <1>5 DEF Handle
  <2>2. a \in Answers
    <3>1. Authorize(w) \in Answers  BY DEF Authorize, Answers
    <3>2. CASE Authorize(w) # "ok"  BY <3>1, <3>2 DEF Verdict
    <3>3. CASE Authorize(w) = "ok"
      <4>1. Verdict(w) \in {KernelTakes(w), MayTake(w), "ok"}
        <5>1. CASE w.kind = "command"  BY <3>3, <5>1 DEF Verdict
        <5>2. CASE w.kind = "takeover"  BY <3>3, <5>2 DEF Verdict
        <5>3. CASE w.kind \notin {"command", "takeover"}  BY <3>3, <5>3 DEF Verdict
        <5> QED  BY <5>1, <5>2, <5>3
      <4> QED  BY <4>1 DEF KernelTakes, MayTake, Answers
    <3> QED  BY <3>2, <3>3
  <2> HIDE DEF a
  <2> DEFINE v == [w EXCEPT !.at = "answered", !.answer = a, !.current = lease'.epoch]
  <2>3. request' = [request EXCEPT ![t] = v]  BY <1>0, <1>5 DEF Handle, AnswerGoes, a
  <2>4. v \in Writes  BY <1>0, <2>1, <2>2 DEF Writes
  <2>5. v.id = w.id /\ v.held = w.held /\ v.client = w.client /\ v.kind = w.kind /\ v.epoch = w.epoch
    BY <2>1 DEF Writes
  <2> HIDE DEF v
  <2> QED  BY <1>3, <2>1, <2>3, <2>4, <2>5
<1>6. ASSUME NEW t \in Tabs, Lost(t) \/ Tell(t) PROVE Good  BY <1>3, <1>6 DEF Lost, Tell, NoRequest, Writes
<1>7. ASSUME NEW t \in Tabs, Probe(t) PROVE Good
  <2>1. request[t] \in Writes  BY <1>1, <1>7 DEF Probe
  <2> DEFINE v == [request[t] EXCEPT !.at = "probed", !.tries = 2]
  <2>2. /\ v \in Writes /\ v.id = request[t].id /\ v.held = request[t].held /\ v.client = request[t].client
        /\ v.kind = request[t].kind /\ v.epoch = request[t].epoch
    BY <2>1 DEF Writes
  <2>3. request' = [request EXCEPT ![t] = v] \/ request' = [request EXCEPT ![t] = NoRequest]  BY <1>0, <1>7 DEF Probe
  <2>4. NoRequest \notin Writes  BY DEF NoRequest, Writes
  <2> HIDE DEF v
  <2> QED  BY <1>3, <2>1, <2>2, <2>3, <2>4
<1>8. ASSUME NEW t \in Tabs, Resend(t) \/ TakeAgain(t) PROVE Good
  <2>1. request[t] \in Writes  BY <1>1, <1>8 DEF Resend, TakeAgain
  <2>2. ASSUME NEW e \in Nat, NEW n \in {1, 2}, NEW b \in BOOLEAN,
               e = request[t].epoch \/ request[t].kind = "takeover",
               request' = [request EXCEPT ![t] = Sent(t, [request[t] EXCEPT !.epoch = e, !.tries = n, !.second = b])]
        PROVE  Good
    <3> DEFINE v == Sent(t, [request[t] EXCEPT !.epoch = e, !.tries = n, !.second = b])
    <3>1. /\ [request[t] EXCEPT !.epoch = e, !.tries = n, !.second = b] \in Writes
          /\ [request[t] EXCEPT !.epoch = e, !.tries = n, !.second = b].epoch = e
          /\ \A f \in {"id", "held", "client", "kind"} :
                [request[t] EXCEPT !.epoch = e, !.tries = n, !.second = b][f] = request[t][f]
      BY <2>1 DEF Writes
    <3>2. /\ v \in Writes /\ v.id = request[t].id /\ v.held = request[t].held /\ v.client = request[t].client
          /\ v.kind = request[t].kind /\ v.epoch = e
      BY <3>1, SentWrite
    <3>3. request' = [request EXCEPT ![t] = v]  BY <2>2
    <3> HIDE DEF v
    <3> QED  BY <1>3, <2>1, <2>2, <3>2, <3>3
  <2>3. CASE Resend(t)
    <3>1. request[t].epoch \in Nat /\ request[t].tries \in {1, 2} /\ request[t].second \in BOOLEAN  BY <2>1 DEF Writes
    <3>2. request' = [request EXCEPT ![t] = Sent(t, [request[t] EXCEPT !.epoch = request[t].epoch, !.tries = request[t].tries, !.second = request[t].second])]
      BY <2>1, <1>0, <2>3 DEF Writes, Resend
    <3> QED  BY <2>2, <3>1, <3>2
  <2>4. CASE TakeAgain(t)
    <3>1. request[t].current \in Nat /\ request[t].kind = "takeover"  BY <2>1, <2>4 DEF Writes, TakeAgain, TooLate
    <3> QED  BY <2>2, <2>4, <3>1 DEF TakeAgain
  <2> QED  BY <1>8, <2>3, <2>4
<1> QED  BY <1>2, <1>4, <1>5, <1>6, <1>7, <1>8 DEF AccessNext, WebTick, WebRestart, Bootstrap, Reload

\* The state of sessions, tabs and writes keeps its form.
LEMMA AccessTypesStep ==
    ASSUME AccessTyping, NamesInv, SessionsGo, AccessNext
    PROVE  AccessTyping'
<1>1. /\ webSessions' \in Seq(WebSession) /\ Len(webSessions') <= MaxSessions
      /\ lease' \in LeaseRecords
  BY DEF SessionsGo, AccessTyping, LeaseRecords
<1>2. request' \in [Tabs -> {NoRequest} \cup Writes]  BY WritesStep
<1>3. cookie' \in [Browsers -> Nat]
  <2>1. ASSUME NEW t \in Tabs, Bootstrap(t) PROVE cookie' \in [Browsers -> Nat]
    <3>1. Len(webSessions) + 1 \in Nat  BY DEF AccessTyping
    <3> QED  BY <2>1, <3>1 DEF Bootstrap, AccessTyping
  <2>2. CASE cookie' = cookie  BY <2>2 DEF AccessTyping
  <2> QED
    BY <2>1, <2>2 DEF AccessNext, WebTick, WebRestart, Reload, Click, Handle, Lost, Probe, Resend, TakeAgain, Tell,
      TellRest
<1>4. tab' \in [Tabs -> [who : Nat, epoch : Nat, role : {"none", "controller", "observer"}]]
  <2> DEFINE Tab == [who : Nat, epoch : Nat, role : {"none", "controller", "observer"}]
  <2>1. tab \in [Tabs -> Tab] /\ NoTab \in Tab /\ Len(webSessions) + 1 \in Nat /\ lease.epoch + 1 \in Nat
    BY DEF AccessTyping, NoTab, LeaseRecords
  <2>2. ASSUME NEW s, Valid(s) PROVE Context(s) \in Tab
    <3>1. s \in DOMAIN webSessions /\ webSessions[s] \in WebSession /\ webSessions[s].role # "gone" /\ s \in Nat
      BY <2>2 DEF Valid, Known, AccessTyping
    <3> QED  BY <3>1 DEF Context, AccessTyping, LeaseRecords, WebSession, WebRoles
  <2> HIDE DEF Tab
  <2>3. ASSUME NEW t \in Tabs, Bootstrap(t) PROVE tab' \in [Tabs -> Tab]  BY <2>1, <2>3 DEF Bootstrap, Tab
  <2>4. ASSUME NEW t \in Tabs, Reload(t) \/ Probe(t) PROVE tab' \in [Tabs -> Tab]  BY <2>1, <2>2, <2>4 DEF Reload, Probe
  <2>5. ASSUME tab' = tab PROVE tab' \in [Tabs -> Tab]  BY <2>1, <2>5
  <2> QED
    BY <2>3, <2>4, <2>5 DEF AccessNext, WebTick, WebRestart, Click, Handle, Lost, Resend, TakeAgain, Tell, TellRest, Tab
<1>5. clicks' \in Nat /\ told' \in Seq({"nothing", "lost", "refused", "done"}) /\ Len(told') = clicks'
  <2> DEFINE Said == {"nothing", "lost", "refused", "done"}
  <2>0. clicks \in Nat /\ told \in Seq(Said) /\ Len(told) = clicks  BY DEF AccessTyping
  <2>1. ASSUME NEW t \in Tabs, NEW k \in WriteKinds, Click(t, k)
        PROVE  clicks' \in Nat /\ told' \in Seq(Said) /\ Len(told') = clicks'
    BY <2>0, <2>1 DEF Click
  <2>2. ASSUME NEW i, NEW a \in Said, clicks' = clicks, told' = [told EXCEPT ![i] = a]
        PROVE  clicks' \in Nat /\ told' \in Seq(Said) /\ Len(told') = clicks'
    <3>1. told \in [1..clicks -> Said]  BY <2>0
    <3> HIDE DEF Said
    <3>2. told' \in [1..clicks -> Said]  BY <2>2, <3>1
    <3> QED  BY <2>0, <2>2, <3>2
  <2>3. ASSUME NEW t \in Tabs, Lost(t) \/ Tell(t) \/ Probe(t)
        PROVE  clicks' \in Nat /\ told' \in Seq(Said) /\ Len(told') = clicks'
    <3>1. clicks' = clicks  BY <2>3 DEF Lost, Tell, Probe, TellRest
    <3> QED  BY <2>0, <2>2, <3>1, <2>3 DEF Lost, Tell, Probe
  <2>4. CASE clicks' = clicks /\ told' = told  BY <2>0, <2>4
  <2> QED
    BY <2>1, <2>3, <2>4 DEF AccessNext, WebTick, WebRestart, Bootstrap, Reload, Handle, Resend, TakeAgain, TellRest
<1> QED  BY <1>1, <1>2, <1>3, <1>4, <1>5 DEF AccessTyping

\* Which sessions a browser or a tab names after a step: one it named before, one that its browser
\* names, or the one just opened, with the epoch of the lease.
LEMMA TabsStep ==
    ASSUME AccessTyping, NamesInv, SessionsGo, AccessNext
    PROVE  /\ \A b \in Browsers : cookie'[b] <= Len(webSessions')
           /\ \A t \in Tabs : \/ tab'[t] = tab[t] \/ tab'[t] = NoTab
                              \/ tab'[t].who <= Len(webSessions') /\ tab'[t].epoch = lease'.epoch
<1>0. /\ Len(webSessions) \in Nat /\ Len(webSessions') \in Nat /\ Len(webSessions) <= Len(webSessions')
      /\ cookie \in [Browsers -> Nat] /\ \A b \in Browsers : cookie[b] <= Len(webSessions)
      /\ \A t \in Tabs : BrowserOf[t] \in Browsers
      /\ tab \in [Tabs -> [who : Nat, epoch : Nat, role : {"none", "controller", "observer"}]]
  BY DEF SessionsGo, AccessTyping, NamesInv, Browsers
<1> DEFINE Good == /\ \A b \in Browsers : cookie'[b] <= Len(webSessions')
                   /\ \A t \in Tabs : \/ tab'[t] = tab[t] \/ tab'[t] = NoTab
                                      \/ tab'[t].who <= Len(webSessions') /\ tab'[t].epoch = lease'.epoch
<1>1. ASSUME NEW t \in Tabs, Bootstrap(t) PROVE Good
  <2>1. webSessions' = Append(Demoted(webSessions), NewSession) /\ lease'.epoch = lease.epoch + 1
    BY <1>1 DEF Bootstrap, Opened, Granted
  <2>2. Len(webSessions') = Len(webSessions) + 1
    <3>1. NewSession \in WebSession  BY DEF NewSession, WebSession, WebRoles
    <3> HIDE DEF NewSession
    <3> QED  BY <2>1, <3>1, DemotedIsQuieter DEF AccessTyping
  <2> QED  BY <1>0, <2>1, <2>2, <1>1 DEF Bootstrap
<1>2. ASSUME NEW t \in Tabs, Reload(t) \/ Probe(t) PROVE Good  BY <1>0, <1>2 DEF Context, Reload, Probe, TellRest
<1>3. CASE tab' = tab /\ cookie' = cookie  BY <1>0, <1>3
<1> QED  BY <1>1, <1>2, <1>3 DEF AccessNext, WebTick, WebRestart, Click, Handle, Lost, Resend, TakeAgain, Tell, TellRest

\* Nobody comes to name a session that was not opened.
LEMMA NamesStep ==
    ASSUME AccessTyping, NamesInv, SessionsGo, AccessTyping', AccessNext
    PROVE  NamesInv'
<1>0. /\ Len(webSessions) \in Nat /\ Len(webSessions') \in Nat /\ Len(webSessions) <= Len(webSessions')
      /\ lease.who \in Nat
  BY DEF SessionsGo, AccessTyping, LeaseRecords
<1>1. lease'.who <= Len(webSessions')  BY <1>0 DEF SessionsGo, NamesInv
<1>2. \A b \in Browsers : cookie'[b] <= Len(webSessions')  BY TabsStep
<1>3. ASSUME NEW t \in Tabs PROVE tab'[t].who <= Len(webSessions')
  <2>1. tab[t].who \in Nat /\ tab[t].who <= Len(webSessions)  BY DEF AccessTyping, NamesInv
  <2> QED  BY <1>0, <2>1, TabsStep DEF NoTab
<1>4. ASSUME NEW t \in Tabs, UnderWay(t)' PROVE request'[t].client <= Len(webSessions')
  <2>1. tab[t].who \in Nat /\ tab[t].who <= Len(webSessions)  BY DEF AccessTyping, NamesInv
  <2>2. UnderWay(t) => request[t].client \in Nat /\ request[t].client <= Len(webSessions)
    BY DEF AccessTyping, NamesInv, Writes, UnderWay
  <2>3. WriteGoes(t)  BY WritesStep
  <2> QED  BY <1>0, <1>4, <2>1, <2>2, <2>3 DEF WriteGoes
<1> QED  BY <1>1, <1>2, <1>3, <1>4 DEF NamesInv

\* No epoch that is remembered is ahead of the lease.
LEMMA EpochsStep ==
    ASSUME AccessTyping, NamesInv, EpochsInv, SessionsGo, AccessTyping', AccessNext
    PROVE  EpochsInv'
<1>0. /\ Len(webSessions) \in Nat /\ DOMAIN webSessions = 1..Len(webSessions)
      /\ Len(webSessions') \in Nat /\ DOMAIN webSessions' = 1..Len(webSessions')
      /\ lease \in LeaseRecords /\ lease.epoch \in Nat /\ lease' \in LeaseRecords /\ lease'.epoch \in Nat
  BY DEF AccessTyping, LeaseRecords
\* Who is known after the step and was opened before was known before.
<1>1. ASSUME NEW s, Known(s)', s <= Len(webSessions) PROVE Known(s)  BY <1>0, <1>1 DEF Known, SessionsGo
<1>2. \/ lease' = lease
      \/ lease'.epoch = lease.epoch + 1
      \/ /\ \A s : ~Known(s)'
         /\ \A t \in Tabs : ~UnderWay(t) /\ request'[t] = request[t]
  BY DEF SessionsGo, Known
<1>3. ASSUME NEW t \in Tabs, Known(tab[t].who)' PROVE tab'[t].epoch <= lease'.epoch
  <2>1. /\ tab'[t].epoch \in Nat /\ tab[t].epoch \in Nat /\ tab[t].who \in Nat /\ tab[t].who <= Len(webSessions)
        /\ tab'[t].who \in Nat
    BY DEF AccessTyping, NamesInv
  <2>2. CASE tab'[t] = tab[t]
    <3>1. lease' = lease \/ lease'.epoch = lease.epoch + 1  BY <1>2, <1>3
    <3> QED  BY <1>0, <2>1, <2>2, <1>1, <1>3, <3>1 DEF EpochsInv, Known
  <2>3. CASE tab'[t] = NoTab  BY <1>0, <2>3 DEF NoTab
  <2>4. CASE tab'[t].epoch = lease'.epoch  BY <1>0, <2>4
  <2> QED  BY <2>2, <2>3, <2>4, TabsStep
<1>4. ASSUME NEW t \in Tabs, UnderWay(t)'
      PROVE  /\ request'[t].held.epoch <= lease'.epoch
             /\ request'[t].held.epoch = lease'.epoch => request'[t].held = lease'
             /\ request'[t].kind = "command" /\ Known(request[t].client)' => request'[t].epoch <= request'[t].held.epoch
  <2>0. WriteGoes(t)  BY WritesStep
  <2>1. CASE UnderWay(t)
    <3>1. /\ request'[t].held = request[t].held /\ request'[t].client = request[t].client
          /\ request'[t].kind = request[t].kind
          /\ request[t].kind = "command" => request'[t].epoch = request[t].epoch
      BY <1>4, <2>0, <2>1 DEF WriteGoes
    <3>2. lease' = lease \/ lease'.epoch = lease.epoch + 1  BY <1>2, <2>1
    <3>3. /\ request[t].held.epoch \in Nat /\ request[t].client \in Nat /\ request[t].client <= Len(webSessions)
      BY <2>1 DEF AccessTyping, UnderWay, Writes, LeaseRecords, NamesInv
    <3> QED  BY <1>0, <3>1, <3>2, <3>3, <2>1, <1>1 DEF EpochsInv, Known
  <2>2. CASE ~UnderWay(t)
    <3>1. lease' = lease /\ webSessions' = webSessions
      <4>1. \E u \in Tabs, k \in WriteKinds : Click(u, k)
        <5>1. clicks' # clicks  BY <1>4, <2>0, <2>2 DEF WriteGoes, AccessTyping
        <5>2. ~WebTick /\ ~WebRestart  BY <5>1 DEF WebTick, WebRestart
        <5>3. ASSUME NEW u \in Tabs
              PROVE  ~Bootstrap(u) /\ ~Reload(u) /\ ~Handle(u) /\ ~Lost(u) /\ ~Probe(u) /\ ~Resend(u)
                     /\ ~TakeAgain(u) /\ ~Tell(u)
          BY <5>1 DEF Bootstrap, Reload, Handle, Lost, Probe, Resend, TakeAgain, Tell, TellRest
        <5> QED  BY <5>2, <5>3 DEF AccessNext
      <4> QED  BY <4>1 DEF Click
    <3> QED  BY <1>0, <1>4, <2>0, <2>2, <3>1 DEF Known, EpochsInv, WriteGoes, UnderWay
  <2> QED  BY <2>1, <2>2
<1> QED  BY <1>3, <1>4 DEF EpochsInv

\* The controller keeps the lease, or is no controller any more.
LEMMA RoleStep ==
    ASSUME RoleInv, SessionsGo
    PROVE  RoleInv'
BY DEF RoleInv, SessionsGo

\* What goes through: the write that the server has just let through.
LEMMA ThroughStep ==
    ASSUME AccessTyping, AccessNext, NEW x \in through' \ through
    PROVE  \E t \in Tabs : /\ request[t] \in Writes /\ request[t].at = "sent" /\ x = Landing(request[t])
                           /\ Verdict(request[t]) = "ok"
<1>1. PICK t \in Tabs : Handle(t) /\ x = Landing(request[t]) /\ Verdict(request[t]) = "ok"
  BY DEF AccessNext, WebTick, WebRestart, Bootstrap, Reload, Click, Handle, Lost, Probe, Resend, TakeAgain, Tell,
    TellRest
<1>2. request[t].at = "sent"  BY <1>1 DEF Handle
<1>3. request[t] \in {NoRequest} \cup Writes  BY DEF AccessTyping
<1>4. request[t] \in Writes  BY <1>2, <1>3 DEF NoRequest
<1> QED  BY <1>1, <1>2, <1>4

\* What goes through is the controller's, under the lease it asked with.
LEMMA LandingStep ==
    ASSUME AccessTyping, EpochsInv, OnlyTheController, LandsUnderItsLease, AccessNext
    PROVE  OnlyTheController' /\ LandsUnderItsLease'
<1>1. ASSUME NEW x \in through' \ through
      PROVE  /\ ~x.late /\ (x.kind # "takeover" => x.role = "controller")
             /\ x.kind = "command" => x.holder = x.by /\ ~x.moved
  <2>1. PICK t \in Tabs : /\ request[t] \in Writes /\ request[t].at = "sent" /\ x = Landing(request[t])
                          /\ Verdict(request[t]) = "ok"
    BY ThroughStep
  <2> DEFINE w == request[t]
  <2>2. Authorize(w) = "ok" /\ Valid(w.cookie) /\ w.who = w.cookie  BY <2>1 DEF Verdict, Authorize
  <2>3. ~(webSessions[w.cookie].idle >= SlidingTTL) /\ ~(webSessions[w.cookie].age >= AbsoluteTTL)
    <3>1. w.cookie \in DOMAIN webSessions /\ webSessions[w.cookie] \in WebSession
      BY <2>2 DEF Valid, Known, AccessTyping
    <3> QED  BY <2>2, <3>1, AccessAssumption DEF Valid, InTime, WebSession
  <2>4. ASSUME w.kind = "command" PROVE lease.who = w.cookie /\ lease = w.held
    <3>1. KernelTakes(w) = "ok"  BY <2>1, <2>2, <2>4 DEF Verdict
    <3>2. w.client = w.cookie /\ lease = [who |-> w.client, epoch |-> w.epoch]  BY <3>1 DEF KernelTakes
    <3>3. Known(w.client) /\ UnderWay(t)  BY <2>1, <2>2, <3>2 DEF Valid, UnderWay, NoRequest
    <3> QED  BY <3>2, <2>4, <3>3, <2>1 DEF EpochsInv, Writes, LeaseRecords
  <2> QED  BY <2>2, <2>3, <2>4, <2>1 DEF Landing, Authorize
<1> QED  BY <1>1 DEF OnlyTheController, LandsUnderItsLease

\* A click is the only write of its id from the moment it is asked for until it is told.
LEMMA ClickStep ==
    ASSUME AccessTyping, ClickInv, OneWritePerClick, SessionsGo, AccessTyping', AccessNext
    PROVE  ClickInv' /\ OneWritePerClick'
<1> DEFINE Good == ClickInv' /\ OneWritePerClick'
<1>0. /\ request \in [Tabs -> {NoRequest} \cup Writes] /\ clicks \in Nat
      /\ told \in Seq({"nothing", "lost", "refused", "done"}) /\ Len(told) = clicks /\ DOMAIN told = 1..clicks
      /\ request' \in [Tabs -> {NoRequest} \cup Writes]
  BY DEF AccessTyping
<1>1. \A t \in Tabs : UnderWay(t) <=> request[t] \in Writes  BY <1>0 DEF UnderWay, Writes, NoRequest
<1>2. \A t \in Tabs : request[t].at # "none" => UnderWay(t)  BY <1>0 DEF NoRequest, UnderWay
\* The id of a click under way is of its tab, has been told nothing, and tells what went through.
<1>3. ASSUME NEW t \in Tabs, UnderWay(t)
      PROVE  /\ request[t].id \in 1..clicks /\ told[request[t].id] = "nothing"
             /\ request[t].at = "answered" /\ request[t].answer = "ok" <=> \E x \in through : x.id = request[t].id
             /\ \A u \in Tabs \ {t} : UnderWay(u) => request[u].id # request[t].id
  BY <1>3 DEF ClickInv
<1>4. CASE request' = request /\ clicks' = clicks /\ told' = told /\ through' = through
  BY <1>4 DEF ClickInv, OneWritePerClick, UnderWay
<1>5. ASSUME NEW t \in Tabs, NEW kind \in WriteKinds, Click(t, kind) PROVE Good
  <2>1. /\ clicks' = clicks + 1 /\ told' = Append(told, "nothing") /\ through' = through /\ ~UnderWay(t)
        /\ \A u \in Tabs \ {t} : request'[u] = request[u]
        /\ request[t].at = "none"
    <3>1. ~UnderWay(t)  BY <1>0, <1>5 DEF Click, UnderWay, Writes
    <3> QED  BY <1>0, <1>5, <3>1 DEF Click
  <2>2. UnderWay(t)' /\ request'[t].at = "sent" /\ request'[t].id = clicks + 1
    <3>1. request'[t].at = "sent" /\ request'[t].id = clicks + 1  BY <1>0, <1>5 DEF Click, Sent
    <3> QED  BY <3>1 DEF UnderWay, NoRequest
  <2>3. /\ \A i \in 1..clicks : told'[i] = told[i] /\ told'[clicks + 1] = "nothing"
        /\ DOMAIN told' = 1..(clicks + 1)
    BY <1>0, <2>1
  <2>4. \A x \in through : x.id \in 1..clicks  BY DEF ClickInv
  <2>5. \A u \in Tabs \ {t} : UnderWay(u)' <=> UnderWay(u)  BY <2>1 DEF UnderWay
  <2>6. ASSUME NEW u \in Tabs, UnderWay(u)'
        PROVE  /\ request'[u].id \in 1..clicks' /\ told'[request'[u].id] = "nothing"
               /\ request'[u].at = "answered" /\ request'[u].answer = "ok" <=> \E x \in through' : x.id = request'[u].id
    <3>1. CASE u = t  BY <1>0, <2>1, <2>2, <2>3, <2>4, <3>1
    <3>2. CASE u # t  BY <1>0, <1>3, <2>1, <2>3, <2>5, <2>6, <3>2
    <3> QED  BY <3>1, <3>2
  <2>7. ASSUME NEW u \in Tabs, NEW v \in Tabs, UnderWay(u)', UnderWay(v)', request'[u].id = request'[v].id
        PROVE  u = v
    BY <1>0, <1>3, <2>1, <2>2, <2>5, <2>7
  <2>8. OneWritePerClick'  BY <1>0, <2>1, <2>3, <2>4 DEF OneWritePerClick
  <2>9. \A x \in through' : x.id \in 1..clicks'  BY <1>0, <2>1, <2>4
  <2> QED  BY <2>6, <2>7, <2>8, <2>9 DEF ClickInv
<1>6. ASSUME NEW t \in Tabs, Handle(t) PROVE Good
  <2> DEFINE w == request[t]  x == Landing(w)
  <2>1. /\ w \in Writes /\ UnderWay(t) /\ w.at = "sent" /\ told' = told /\ clicks' = clicks
        /\ \A u \in Tabs \ {t} : request'[u] = request[u]
    BY <1>0, <1>1, <1>2, <1>6 DEF Handle, AnswerGoes
  <2>2. request'[t].at = "answered" /\ request'[t].id = w.id /\ request'[t].answer = Verdict(w)
    <3> DEFINE a == Verdict(w)
    <3>1. request' = [request EXCEPT ![t] = [request[t] EXCEPT !.at = "answered", !.answer = a, !.current = lease'.epoch]]
      BY <1>0, <1>6 DEF Handle, AnswerGoes
    <3> HIDE DEF a
    <3> QED  BY <2>1, <1>0, <3>1 DEF a, Writes
  <2>3. x.id = w.id  BY DEF Landing
  <2>4. IF Verdict(w) = "ok" THEN through' = through \cup {x} ELSE through' = through  BY <1>6 DEF Handle
  <2>5. ~\E y \in through : y.id = w.id  BY <1>3, <2>1
  <2>6. \A u \in Tabs : UnderWay(u)' <=> UnderWay(u)  BY <2>1, <2>2 DEF UnderWay, NoRequest
  <2> HIDE DEF x
  <2>7. ASSUME NEW u \in Tabs, UnderWay(u)'
        PROVE  request'[u].at = "answered" /\ request'[u].answer = "ok" <=> \E y \in through' : y.id = request'[u].id
    <3>1. CASE u = t  BY <2>2, <2>3, <2>4, <2>5, <3>1
    <3>2. CASE u # t  BY <1>3, <2>1, <2>3, <2>4, <2>6, <2>7, <3>2
    <3> QED  BY <3>1, <3>2
  <2>8. w.id \in 1..clicks /\ told[w.id] = "nothing"  BY <1>3, <2>1
  <2>9. ClickInv'
    <3>1. \A y \in through' : y.id \in 1..clicks'  BY <2>1, <2>3, <2>4, <2>8 DEF ClickInv
    <3> QED  BY <2>7, <1>3, <2>1, <2>6, <2>2, <3>1 DEF ClickInv
  <2>10. OneWritePerClick'  BY <2>1, <2>3, <2>4, <2>5, <2>8 DEF OneWritePerClick
  <2> QED  BY <2>9, <2>10
\* A click that is over: what it is told is true.
<1>7. ASSUME NEW t \in Tabs, NEW what \in {"lost", "refused", "done"}, UnderWay(t),
             request' = [request EXCEPT ![t] = NoRequest], told' = [told EXCEPT ![request[t].id] = what],
             clicks' = clicks, through' = through,
             what = "done" => \E x \in through : x.id = request[t].id,
             what = "refused" => ~\E x \in through : x.id = request[t].id
      PROVE  Good
  <2>1. /\ \A i \in 1..clicks : told'[i] = IF i = request[t].id THEN what ELSE told[i]
        /\ DOMAIN told' = 1..clicks
    BY <1>0, <1>7
  <2>2. ClickInv'  BY <1>3, <1>7, <1>0, <2>1 DEF ClickInv, UnderWay
  <2>3. OneWritePerClick'  BY <1>0, <1>7, <2>1 DEF OneWritePerClick, ClickInv
  <2> QED  BY <2>2, <2>3
\* A click that is asked again: nothing of it has gone through.
<1>8. ASSUME NEW t \in Tabs, NEW w \in Writes, UnderWay(t), w.id = request[t].id, w.at # "answered",
             ~(request[t].at = "answered" /\ request[t].answer = "ok"),
             request' = [request EXCEPT ![t] = w], told' = told, clicks' = clicks, through' = through
      PROVE  Good
  <2>1. /\ UnderWay(t)' /\ request'[t] = w
        /\ \A u \in Tabs \ {t} : request'[u] = request[u] /\ (UnderWay(u)' <=> UnderWay(u))
    BY <1>0, <1>8 DEF UnderWay, Writes, NoRequest
  <2>2. ClickInv'  BY <1>3, <1>8, <2>1 DEF ClickInv
  <2>3. OneWritePerClick'  BY <1>8 DEF OneWritePerClick
  <2> QED  BY <2>2, <2>3
<1>9. ASSUME NEW t \in Tabs, Lost(t) PROVE Good
  <2>1. UnderWay(t)  BY <1>2, <1>9 DEF Lost
  <2> QED  BY <1>7, <1>9, <2>1 DEF Lost
<1>10. ASSUME NEW t \in Tabs, Tell(t) PROVE Good  BY <1>3, <1>7, <1>2, <1>10 DEF Tell, TellRest
<1>11. ASSUME NEW t \in Tabs, Probe(t) PROVE Good
  <2>1. UnderWay(t) /\ request[t].at = "answered" /\ request[t].answer # "ok" /\ clicks' = clicks /\ through' = through
    BY <1>2, <1>11 DEF Probe, TellRest, Heals, Unknown
  <2>2. CASE Valid(cookie[BrowserOf[t]])
    <3> DEFINE w == [request[t] EXCEPT !.at = "probed", !.tries = 2]
    <3>1. w \in Writes /\ w.id = request[t].id /\ w.at # "answered"  BY <1>1, <2>1 DEF Writes
    <3>2. request' = [request EXCEPT ![t] = w] /\ told' = told  BY <1>0, <1>11, <2>2 DEF Probe
    <3> HIDE DEF w
    <3> QED  BY <1>8, <2>1, <3>1, <3>2
  <2>3. CASE ~Valid(cookie[BrowserOf[t]])  BY <1>3, <1>7, <1>11, <2>1, <2>3 DEF Probe
  <2> QED  BY <2>2, <2>3
<1>12. ASSUME NEW t \in Tabs, Resend(t) PROVE Good
  <2>1. UnderWay(t) /\ request[t] \in Writes /\ request[t].at = "probed"  BY <1>1, <1>2, <1>12 DEF Resend
  <2>2. /\ request' = [request EXCEPT ![t] = Sent(t, request[t])] /\ told' = told
        /\ clicks' = clicks /\ through' = through
    BY <1>0, <1>12 DEF Resend, TellRest
  <2> QED  BY <1>8, <2>1, <2>2, SentWrite
<1>13. ASSUME NEW t \in Tabs, TakeAgain(t) PROVE Good
  <2> DEFINE w == [request[t] EXCEPT !.epoch = request[t].current, !.tries = 1, !.second = TRUE]
  <2>1. UnderWay(t) /\ request[t] \in Writes /\ request[t].answer # "ok"  BY <1>1, <1>2, <1>13 DEF TakeAgain, TooLate
  <2>2. w \in Writes /\ w.id = request[t].id  BY <2>1 DEF Writes
  <2>3. /\ request' = [request EXCEPT ![t] = Sent(t, w)] /\ told' = told
        /\ clicks' = clicks /\ through' = through
    BY <1>0, <1>13 DEF TakeAgain, TellRest
  <2> HIDE DEF w
  <2> QED  BY <1>8, <2>1, <2>2, <2>3, SentWrite
<1> QED  BY <1>4, <1>5, <1>6, <1>9, <1>10, <1>11, <1>12, <1>13 DEF AccessNext, WebTick, WebRestart, Bootstrap, Reload

\* The roles of the sessions agree with the lease of the kernel: one session is the controller.
LEMMA RolesFollow ==
    ASSUME AccessTyping, RoleInv
    PROVE  RolesAgree
<1> DEFINE C == {s \in DOMAIN webSessions : webSessions[s].role = "controller"}
<1>1. C \subseteq {lease.who}  BY DEF RoleInv
<1>2. IsFiniteSet({lease.who}) /\ Cardinality({lease.who}) = 1  BY FS_Singleton
<1> HIDE DEF C
<1>3. Cardinality(C) <= 1  BY <1>1, <1>2, FS_Subset
<1> QED  BY <1>3 DEF C, RoleInv, RolesAgree

\* The inductive invariant of WebAccess: names, roles, epochs and clicks.
THEOREM AccessInductive == AccessSpec => []AccessInv
<1>1. ASSUME AccessInit PROVE AccessInv
  <2>1. AccessTyping  BY <1>1, AccessAssumption DEF AccessInit, AccessTyping, NoTab, LeaseRecords
  <2>2. NamesInv /\ RoleInv /\ EpochsInv /\ ClickInv
    BY <1>1 DEF AccessInit, NamesInv, RoleInv, EpochsInv, ClickInv, NoTab, UnderWay, Known
  <2> QED  BY <2>1, <2>2, <1>1 DEF AccessInv, AccessInit, OnlyTheController, LandsUnderItsLease, OneWritePerClick
<1>2. ASSUME AccessInv, [AccessNext]_accessVars PROVE AccessInv'
  <2>1. CASE AccessNext
    <3>1. SessionsGo  BY <1>2, <2>1, SessionsStep DEF AccessInv
    <3>2. AccessTyping'  BY <1>2, <2>1, <3>1, AccessTypesStep DEF AccessInv
    <3>3. NamesInv' /\ RoleInv' /\ EpochsInv'  BY <1>2, <2>1, <3>1, <3>2, NamesStep, RoleStep, EpochsStep DEF AccessInv
    <3> QED  BY <3>2, <3>3, <1>2, <2>1, <3>1, ClickStep, LandingStep DEF AccessInv
  <2>2. CASE UNCHANGED accessVars
    BY <1>2, <2>2 DEF accessVars, AccessInv, AccessTyping, NamesInv, RoleInv, EpochsInv, ClickInv, UnderWay, Known,
      OnlyTheController, LandsUnderItsLease, OneWritePerClick
  <2> QED  BY <1>2, <2>1, <2>2
<1> QED  BY <1>1, <1>2, PTL DEF AccessSpec

\* Only the controller writes from a browser, under the lease it had when asking, and each click
\* is one write at most (AccessSafety, for any number of tabs, browsers, sessions, clicks and faults).
THEOREM AccessIsSafe == AccessSpec => []AccessSafety
<1>1. AccessInv => AccessSafety
  <2> SUFFICES ASSUME AccessInv PROVE AccessSafety  OBVIOUS
  <2>1. AccessTypeOK
    <3>0. Len(webSessions) \in Nat /\ Len(webSessions) <= MaxSessions /\ MaxSessions \in Nat
      BY AccessAssumption DEF AccessInv, AccessTyping
    <3>1. \A i \in DOMAIN webSessions : webSessions[i].role \in {"controller", "observer", "gone"}
      <4>1. webSessions \in Seq(WebSession)  BY DEF AccessInv, AccessTyping
      <4>2. \A i \in DOMAIN webSessions : webSessions[i] \in WebSession  BY <4>1
      <4> QED  BY <4>2 DEF WebSession, WebRoles
    <3> QED  BY <3>1, <3>0 DEF AccessTypeOK, AccessInv, AccessTyping, NamesInv, Writes, NoRequest, LeaseRecords
  <2>2. RolesAgree  BY RolesFollow DEF AccessInv
  <2> QED  BY <2>1, <2>2 DEF AccessInv, AccessSafety
<1> QED  BY <1>1, AccessInductive, PTL

----
(* How an agent tells the core what became of its run.                     *)

CallRecords == [at : {"idle", "connecting", "asked", "inside", "answered", "over"},
                verb : AllVerbs \cup {"none"}, id : CommandIds, taint : {"no", "text", "dep"},
                told : {"nothing", "lost", "refused", "failed", "none", "applied", "already", "report", "propose"}]
RunRecords == [outcome : {"none"} \cup SettleVerbs, active : BOOLEAN, rev : Nat]
Sayings == {"none", "applied", "already", "evolved", "report", "propose"}
InsideRecords == [call : PipeCalls \cup {"none"}, at : {"none", "resolved", "reserved", "committed", "drained"},
                  seen : RunRecords, said : Sayings]

PipeTyping ==
    /\ {coreUp, listening, sealed, unsent} \subseteq BOOLEAN
    /\ call \in [PipeCalls -> CallRecords]
    /\ \A c \in PipeCalls : call[c].at # "idle" => call[c].verb \in AllVerbs
    /\ agentRun \in RunRecords
    /\ added \in 0..MaxAddedNodes
    /\ intent \in [state : {"none", "reserved", "applied", "failed", "revoked"}, verb : AllVerbs \cup {"none"}]
    /\ receipt \in [verb : AllVerbs \cup {"none"}, said : Sayings]
    /\ inside \in InsideRecords /\ (inside.at # "none" => inside.call \in PipeCalls)
    /\ effects \in Seq([call : PipeCalls, verb : AllVerbs, id : CommandIds, taint : {"no", "text", "dep"},
                        after : {"none"} \cup SettleVerbs])

\* What the kernel knows of the call it is in.
InsideInv ==
    inside.at # "none" =>
        /\ Handled.at = "inside" /\ Handled.taint = "no"
        /\ inside.at \in {"resolved", "reserved"} =>
             /\ inside.seen.rev <= agentRun.rev
             /\ inside.seen.rev = agentRun.rev => inside.seen = agentRun
             /\ EffectsOf(inside.call) = {}
        /\ inside.at = "reserved" => ~NotActive /\ (HasId => receipt.verb = "none")
        /\ inside.at \in {"committed", "drained"} =>
             /\ Handled.verb \in SettleVerbs /\ inside.said \in {"applied", "already"} =>
                  agentRun.outcome = Handled.verb
             /\ HasId => receipt.verb = Handled.verb /\ receipt.said = inside.said
             /\ ~HasId /\ inside.said = "applied" => EffectsOf(inside.call) # {}
        /\ inside.at = "drained" => ~unsent

\* A run that is settled is over; what a receipt says of it is so.
OutcomeInv ==
    /\ agentRun.outcome # "none" => ~agentRun.active
    /\ receipt.verb \in SettleVerbs /\ receipt.said \in {"applied", "already"} => agentRun.outcome = receipt.verb
    /\ \A i \in DOMAIN effects : effects[i].verb \in SettleVerbs => agentRun.outcome # "none"

\* The receipt is the answer to everything asked under the id.
ReceiptInv ==
    /\ \A c \in PipeCalls : call[c].id # "none" /\ call[c].told \in Fine =>
         receipt.verb = call[c].verb /\ receipt.said = call[c].told
    /\ \A i \in DOMAIN effects : effects[i].id # "none" => receipt.verb # "none"

\* A call that has not entered the kernel has done nothing; one that is not answered is told nothing.
CallInv ==
    /\ \A c \in PipeCalls : call[c].at \in {"idle", "connecting", "asked"} => EffectsOf(c) = {}
    /\ \A c \in PipeCalls : call[c].at \in {"idle", "connecting", "asked", "inside"} => call[c].told = "nothing"

PipeInv ==
    /\ PipeTyping /\ InsideInv /\ OutcomeInv /\ ReceiptInv /\ CallInv
    /\ SettledAsTold /\ OnceEach /\ AnswersAreTrue /\ NothingOutOfPlace

\* The state of calls, run and receipt keeps its form.
LEMMA PipeTypesStep ==
    ASSUME PipeTyping, InsideInv, PipeNext
    PROVE  PipeTyping'
<1> USE PipeAssumption
<1> DEFINE V == AllVerbs \cup {"none"}
<1>0. /\ call \in [PipeCalls -> CallRecords] /\ agentRun \in RunRecords /\ inside \in InsideRecords
      /\ inside.at # "none" => inside.call \in PipeCalls /\ Handled.at = "inside" /\ Handled.verb \in AllVerbs
  BY DEF PipeTyping, InsideInv, Handled
<1>1. ASSUME NEW c \in PipeCalls, NEW v \in Verbs, NEW i \in CommandIds, NEW t \in Taints, Invoke(c, v, i, t)
      PROVE  PipeTyping'
  BY <1>0, <1>1 DEF Invoke, PipeTyping, CallRecords, Unasked, KernelRest, AllVerbs
<1>2. ASSUME NEW c \in PipeCalls,
             ClientConnects(c) \/ GivesUp(c) \/ CallIsKilled(c) \/ AnswerIsLost(c) \/ RequestRefused(c)
      PROVE  PipeTyping'
  <2>1. \A d \in PipeCalls : call[d].at # "idle" => call[d].verb \in AllVerbs  BY DEF PipeTyping
  <2>2. call' \in [PipeCalls -> CallRecords] /\ \A d \in PipeCalls : call'[d].at # "idle" => call'[d].verb \in AllVerbs
    BY <1>0, <1>2, <2>1 DEF CallRecords, ClientConnects, GivesUp, CallIsKilled, AnswerIsLost, RequestRefused, CallGoes,
      Tells
  <2>3. inside' = inside /\ listening' \in BOOLEAN /\ coreUp' \in BOOLEAN /\ KernelRest
    BY <1>2 DEF ClientConnects, GivesUp, CallIsKilled, AnswerIsLost, RequestRefused, PipeTyping
  <2> QED  BY <2>2, <2>3 DEF KernelRest, PipeTyping
<1>3. ASSUME NEW c \in PipeCalls, Enter(c) PROVE PipeTyping'
  <2>1. inside' \in InsideRecords /\ (inside'.at # "none" => inside'.call \in PipeCalls)
    BY <1>0, <1>3 DEF Enter, InsideRecords, NoCall, Sayings, Untouched, PipeTyping
  <2>2. call' \in [PipeCalls -> CallRecords] /\ \A d \in PipeCalls : call'[d].at # "idle" => call'[d].verb \in AllVerbs
    <3>1. call[c].at = "asked" /\ \A d \in PipeCalls : call[d].at # "idle" => call[d].verb \in AllVerbs
      BY <1>3 DEF Enter, ReadRequest, PipeTyping
    <3>2. \/ call' = [call EXCEPT ![c].at = "answered", ![c].told = "refused"]
          \/ call' = [call EXCEPT ![c].at = "inside"]
      BY <1>3 DEF Enter, Tells, CallGoes
    <3> QED  BY <1>0, <3>1, <3>2 DEF CallRecords
  <2> QED  BY <1>3, <2>1, <2>2 DEF Enter, KernelRest, PipeTyping
<1>4. CASE Listen  BY <1>4 DEF Listen, PipeTyping, KernelRest
<1>5. CASE Replay \/ ReserveIntent
  <2>1. inside' \in InsideRecords /\ (inside'.at # "none" => inside'.call \in PipeCalls)
    BY <1>0, <1>5 DEF Replay, ReserveIntent, StepsTo, InsideRecords, Sayings, PipeTyping
  <2> QED  BY <1>0, <1>5, <2>1 DEF Replay, ReserveIntent, StepsTo, InsideRest, ChangesNothing, PipeTyping
<1>6. ASSUME NEW w \in {"refused", "failed"} \cup (Sayings \ {"evolved"}), inside.at # "none", Leaves(w)
      PROVE  /\ inside' \in InsideRecords /\ inside'.at = "none"
             /\ call' \in [PipeCalls -> CallRecords]
             /\ \A d \in PipeCalls : call'[d].at # "idle" => call'[d].verb \in AllVerbs
  <2>1. call' = [call EXCEPT ![inside.call].at = "answered", ![inside.call].told = w] /\ inside.call \in PipeCalls
    BY <1>0, <1>6 DEF Leaves, Tells
  <2>2. \A d \in PipeCalls : call[d].at # "idle" => call[d].verb \in AllVerbs  BY DEF PipeTyping
  <2>3. call[inside.call].at # "idle"  BY <1>0, <1>6 DEF Handled
  <2>4. call' \in [PipeCalls -> CallRecords]  BY <1>0, <2>1, <1>6 DEF CallRecords, Sayings
  <2> QED  BY <1>6, <2>4, <1>0, <2>1, <2>2, <2>3 DEF CallRecords, Leaves, NoCall, InsideRecords, Sayings, Untouched,
      RunRecords
<1>7. CASE Refuse \/ CommandFails
  <2>1. inside.at # "none" /\ Leaves("refused")  BY <1>7 DEF Refuse, CommandFails
  <2> QED  BY <1>6, <2>1, <1>7 DEF PipeTyping, Refuse, CommandFails, ChangesNothing, InsideRest
<1>8. CASE CommitCommand
  <2>1. inside.at = "reserved" /\ Handled \in CallRecords /\ AnswerOf \in Sayings /\ AnswerOf # "none"
    BY <1>0, <1>8 DEF CommitCommand, AnswerOf, Sayings, AllVerbs, SettleVerbs, Handled
  <2>2. inside' \in InsideRecords /\ inside'.at # "none" /\ inside'.call \in PipeCalls /\ call' = call
    <3> HIDE DEF AnswerOf
    <3> QED  BY <1>0, <2>1, <1>8 DEF InsideRecords, CommitCommand, StepsTo
  <2>3. agentRun' \in RunRecords
    <3>1. agentRun.rev \in Nat /\ agentRun.rev + 1 \in Nat  BY <1>0 DEF RunRecords
    <3>2. CASE agentRun' = agentRun  BY <1>0, <3>2
    <3>3. CASE agentRun' = [agentRun EXCEPT !.rev = @ + 1]  BY <1>0, <3>1, <3>3 DEF RunRecords
    <3>4. CASE Handled.verb \in SettleVerbs
               /\ agentRun' = [outcome |-> Handled.verb, active |-> FALSE, rev |-> agentRun.rev + 1]
      BY <3>1, <3>4 DEF RunRecords
    <3> QED  BY <1>0, <2>1, <1>8, <3>2, <3>3, <3>4 DEF CommitCommand, RunAfter
  <2>4. added' \in 0..MaxAddedNodes  BY <1>8 DEF CommitCommand, Takes, RoomForNode, PipeTyping
  <2>5. receipt' \in [verb : V, said : Sayings]
    <3> HIDE DEF AnswerOf
    <3> QED  BY <1>0, <1>8, <2>1 DEF CommitCommand, PipeTyping
  <2>6. effects' \in Seq([call : PipeCalls, verb : AllVerbs, id : CommandIds, taint : {"no", "text", "dep"},
                          after : {"none"} \cup SettleVerbs])
    <3> DEFINE E == [call : PipeCalls, verb : AllVerbs, id : CommandIds, taint : {"no", "text", "dep"},
                     after : {"none"} \cup SettleVerbs]
               e == [call |-> inside.call, verb |-> Handled.verb, id |-> Handled.id, taint |-> Handled.taint,
                     after |-> agentRun.outcome]
    <3>1. e \in E  BY <1>0, <2>1 DEF CallRecords, RunRecords
    <3>2. effects' = effects \/ effects' = Append(effects, e)  BY <1>8 DEF CommitCommand
    <3>3. effects \in Seq(E)  BY DEF PipeTyping
    <3> HIDE DEF e, E
    <3>4. effects' \in Seq(E)  BY <3>1, <3>2, <3>3
    <3> QED  BY <3>4 DEF E
  <2>7. intent' \in [state : {"none", "reserved", "applied", "failed", "revoked"}, verb : V]
    BY <1>8 DEF CommitCommand, PipeTyping
  <2>8. {coreUp', listening', sealed', unsent'} \subseteq BOOLEAN  BY <1>8 DEF CommitCommand, InsideRest, PipeTyping
  <2>9. \A d \in PipeCalls : call'[d].at # "idle" => call'[d].verb \in AllVerbs  BY <2>2 DEF PipeTyping
  <2> QED  BY <1>0, <2>2, <2>3, <2>4, <2>5, <2>6, <2>7, <2>8, <2>9 DEF PipeTyping
<1>9. CASE DrainOwed
  <2>1. \/ Leaves("failed")
        \/ StepsTo("drained", inside.said)
    BY <1>9 DEF DrainOwed
  <2>2. StepsTo("drained", inside.said) =>
           inside' \in InsideRecords /\ inside'.call \in PipeCalls /\ call' = call
    BY <1>0, <1>9 DEF DrainOwed, StepsTo, InsideRecords
  <2> QED  BY <1>0, <1>6, <1>9, <2>1, <2>2 DEF DrainOwed, InsideRest, PipeTyping
<1>10. CASE Seal
  <2>1. inside.at # "none" /\ sealed' \in BOOLEAN  BY <1>10 DEF Seal, PipeTyping
  <2>2. \E w \in {"refused", "failed"} \cup (Sayings \ {"evolved"}) : Leaves(w)  BY <1>0, <1>10 DEF Seal, InsideRecords
  <2> QED  BY <1>6, <1>10, <2>1, <2>2 DEF Seal, InsideRest, PipeTyping
<1>11. ASSUME NEW o \in {"none", "cancelled"} \cup SettleVerbs, RunMoves(o) PROVE PipeTyping'
  <2>1. agentRun' \in RunRecords  BY <1>0, <1>11 DEF RunMoves, RunRecords, SettleVerbs
  <2> QED  BY <2>1, <1>11 DEF PipeTyping, RunMoves
<1>12. CASE PipeCoreStops
  <2>1. inside' \in InsideRecords /\ inside'.at = "none"
    BY <1>12 DEF PipeCoreStops, NoCall, InsideRecords, Sayings, Untouched, RunRecords
  <2>2. call' \in [PipeCalls -> CallRecords] /\ \A d \in PipeCalls : call'[d].at # "idle" => call'[d].verb \in AllVerbs
    <3>1. \A d \in PipeCalls : call[d] \in CallRecords /\ (call[d].at # "idle" => call[d].verb \in AllVerbs)
      BY <1>0 DEF PipeTyping
    <3>2. call' = [d \in PipeCalls |-> IF call[d].at \in {"asked", "inside"}
                                      THEN [call[d] EXCEPT !.at = "over", !.told = "lost"] ELSE call[d]]
      BY <1>12 DEF PipeCoreStops
    <3>3. \A d \in PipeCalls : call'[d] \in CallRecords /\ (call'[d].at # "idle" => call'[d].verb \in AllVerbs)
      BY <3>1, <3>2 DEF CallRecords
    <3> QED  BY <3>2, <3>3
  <2>3. coreUp' = FALSE /\ listening' = FALSE /\ KernelRest  BY <1>12 DEF PipeCoreStops
  <2> QED  BY <2>1, <2>2, <2>3 DEF KernelRest, PipeTyping
<1>13. CASE PipeCoreStarts  BY <1>13 DEF PipeCoreStarts, PipeTyping
<1> QED  BY <1>1, <1>2, <1>3, <1>4, <1>5, <1>7, <1>8, <1>9, <1>10, <1>11, <1>12, <1>13 DEF PipeNext

\* What a step does to a call; to be refused or answered is for who is inside, or at the door.
CallGoesOn(c) ==
    \/ call'[c] = call[c]
    \/ call[c].at = "idle" /\ call'[c].at = "connecting" /\ call'[c].told = "nothing"
    \/ /\ call'[c].verb = call[c].verb /\ call'[c].id = call[c].id
       /\ \/ call[c].at = "connecting" /\ call'[c].at = "asked" /\ call'[c].told = call[c].told
          \/ call[c].at = "asked" /\ call'[c].at = "inside" /\ call'[c].told = call[c].told
          \/ call[c].at = "asked" /\ call'[c].at = "answered" /\ call'[c].told = "refused"
          \/ call'[c].at = "over" /\ call'[c].told = "lost"
          \/ /\ inside.at # "none" /\ c = inside.call /\ call'[c].at = "answered"
             /\ \/ inside.at \in {"resolved", "reserved"} /\ call'[c].told = "refused"
                \/ call'[c].told = "failed"
                \/ inside.at = "drained" /\ call'[c].told = inside.said /\ inside.said # "evolved"

\* The run and its receipt change when a command is committed or somebody else moves the run.
RunGoesOn ==
    \/ UNCHANGED <<agentRun, receipt, effects>> /\ (unsent' => unsent)
    \/ CommitCommand
    \/ \E o \in {"none", "cancelled"} \cup SettleVerbs : RunMoves(o)

\* Every step moves a call as CallGoesOn says.
LEMMA CallsStep ==
    ASSUME PipeTyping, InsideInv, PipeNext, NEW d \in PipeCalls
    PROVE  CallGoesOn(d)
<1>0. /\ call \in [PipeCalls -> CallRecords]
      /\ inside.at # "none" => inside.call \in PipeCalls
  BY DEF PipeTyping
<1>1. ASSUME NEW c \in PipeCalls, NEW v \in Verbs, NEW i \in CommandIds, NEW t \in Taints, Invoke(c, v, i, t)
      PROVE  CallGoesOn(d)
  BY <1>0, <1>1 DEF Invoke, Unasked, CallGoesOn, CallRecords
<1>2. ASSUME NEW c \in PipeCalls, ClientConnects(c) PROVE CallGoesOn(d)
  BY <1>0, <1>2 DEF ClientConnects, CallGoes, CallGoesOn, CallRecords
<1>3. ASSUME NEW c \in PipeCalls, GivesUp(c) \/ CallIsKilled(c) \/ AnswerIsLost(c) PROVE CallGoesOn(d)
  BY <1>0, <1>3 DEF GivesUp, CallIsKilled, AnswerIsLost, CallGoesOn, CallRecords
<1>4. ASSUME NEW c \in PipeCalls, RequestRefused(c) PROVE CallGoesOn(d)
  BY <1>0, <1>4 DEF RequestRefused, Tells, CallGoesOn, CallRecords
<1>5. ASSUME NEW c \in PipeCalls, Enter(c) PROVE CallGoesOn(d)
  BY <1>0, <1>5 DEF Enter, ReadRequest, Tells, CallGoes, CallGoesOn, CallRecords
<1>6. CASE call' = call  BY <1>6 DEF CallGoesOn
<1>7. CASE Refuse \/ CommandFails  BY <1>0, <1>7 DEF CallGoesOn, CallRecords, Refuse, CommandFails, Leaves, Tells
<1>8. CASE DrainOwed  BY <1>0, <1>8 DEF CallGoesOn, CallRecords, DrainOwed, Leaves, Tells, StepsTo
<1>9. CASE Seal  BY <1>0, <1>9 DEF CallGoesOn, CallRecords, Seal, Leaves, Tells
<1>10. CASE PipeCoreStops
  <2>1. call'[d] = IF call[d].at \in {"asked", "inside"}
                   THEN [call[d] EXCEPT !.at = "over", !.told = "lost"] ELSE call[d]
    BY <1>10 DEF PipeCoreStops
  <2> QED  BY <1>0, <2>1 DEF CallGoesOn, CallRecords
<1>11. ASSUME Listen \/ Replay \/ ReserveIntent \/ CommitCommand \/ PipeCoreStarts
              \/ \E o \in {"none", "cancelled"} \cup SettleVerbs : RunMoves(o)
       PROVE  call' = call
  BY <1>11 DEF Listen, Replay, ReserveIntent, CommitCommand, StepsTo, PipeCoreStarts, RunMoves
<1> QED  BY <1>1, <1>2, <1>3, <1>4, <1>5, <1>6, <1>7, <1>8, <1>9, <1>10, <1>11 DEF PipeNext

\* Every step moves the run, its receipt and what was committed as RunGoesOn says.
LEMMA RunStep ==
    ASSUME PipeNext
    PROVE  RunGoesOn
<1>1. ASSUME NEW c \in PipeCalls,
             \/ \E v \in Verbs, i \in CommandIds, t \in Taints : Invoke(c, v, i, t)
             \/ ClientConnects(c) \/ GivesUp(c) \/ CallIsKilled(c) \/ AnswerIsLost(c)
             \/ RequestRefused(c) \/ Enter(c)
      PROVE  RunGoesOn
  <2>1. KernelRest  BY <1>1 DEF Invoke, ClientConnects, GivesUp, CallIsKilled, AnswerIsLost, RequestRefused, Enter
  <2> QED  BY <2>1 DEF KernelRest, RunGoesOn
<1>2. CASE Listen \/ PipeCoreStops  BY <1>2 DEF Listen, PipeCoreStops, KernelRest, RunGoesOn
<1>3. CASE Replay \/ Refuse  BY <1>3 DEF Replay, Refuse, ChangesNothing, RunGoesOn
<1>4. CASE ReserveIntent \/ CommandFails \/ PipeCoreStarts
  BY <1>4 DEF ReserveIntent, CommandFails, PipeCoreStarts, RunGoesOn
<1>5. CASE DrainOwed  BY <1>5 DEF DrainOwed, RunGoesOn
<1>6. CASE Seal  BY <1>6 DEF Seal, RunGoesOn
<1> QED  BY <1>1, <1>2, <1>3, <1>4, <1>5, <1>6 DEF PipeNext, RunGoesOn

\* What is recorded of a command that is committed.
Entry == [call |-> inside.call, verb |-> Handled.verb, id |-> Handled.id, taint |-> Handled.taint,
          after |-> agentRun.outcome]

\* A command is committed on the run that was read: the revision it quotes is still there.
LEMMA CommitStep ==
    ASSUME PipeTyping, InsideInv, CommitCommand
    PROVE  /\ inside.at = "reserved" /\ inside.call \in PipeCalls /\ Handled.at = "inside"
           /\ Handled.taint = "no" /\ Handled.verb \in AllVerbs
           /\ inside.seen = agentRun
           /\ HasId => receipt.verb = "none"
           /\ receipt' = IF HasId THEN [verb |-> Handled.verb, said |-> AnswerOf] ELSE receipt
           /\ AnswerOf \in {"applied", "already"} => Handled.verb \in SettleVerbs
           /\ call' = call /\ inside' = [inside EXCEPT !.at = "committed", !.said = AnswerOf]
           /\ agentRun.outcome # "none" =>
                /\ agentRun.outcome = Handled.verb /\ AnswerOf # "applied"
                /\ UNCHANGED <<agentRun, unsent, effects>>
           /\ agentRun.outcome = "none" =>
                /\ agentRun.active
                /\ agentRun' = RunAfter
                /\ unsent' = (unsent \/ Handled.verb \in SettleVerbs)
                /\ DOMAIN effects' = 1..(Len(effects) + 1)
                /\ effects'[Len(effects) + 1] = Entry
                /\ \A i \in DOMAIN effects : effects'[i] = effects[i]
           /\ DOMAIN effects = 1..Len(effects) /\ Len(effects) \in Nat
<1>1. inside.at = "reserved" /\ Takes /\ call' = call /\ inside' = [inside EXCEPT !.at = "committed", !.said = AnswerOf]
  BY DEF CommitCommand, StepsTo
<1>2. inside.call \in PipeCalls /\ Handled.at = "inside" /\ Handled.taint = "no" /\ Handled.verb \in AllVerbs
  BY <1>1 DEF InsideInv, PipeTyping, Handled
<1>3. inside.seen = agentRun /\ ~NotActive /\ (HasId => receipt.verb = "none")  BY <1>1 DEF InsideInv, Takes, Unmoved
<1>4. ASSUME agentRun.outcome # "none"
      PROVE  agentRun.outcome = Handled.verb /\ AnswerOf # "applied" /\ UNCHANGED <<agentRun, unsent, effects>>
  <2>1. Already /\ agentRun.outcome = Handled.verb  BY <1>3, <1>4 DEF Already, NotActive
  <2>2. UNCHANGED <<agentRun, unsent, effects>>  BY <2>1 DEF CommitCommand
  <2>3. AnswerOf # "applied"  BY <1>2, <2>1 DEF AnswerOf, AllVerbs, SettleVerbs
  <2> QED  BY <2>1, <2>2, <2>3
<1>5. effects \in Seq([call : PipeCalls, verb : AllVerbs, id : CommandIds, taint : {"no", "text", "dep"},
                      after : {"none"} \cup SettleVerbs])
  BY DEF PipeTyping
<1>6. ASSUME agentRun.outcome = "none"
      PROVE  /\ agentRun.active
             /\ agentRun' = RunAfter
             /\ unsent' = (unsent \/ Handled.verb \in SettleVerbs)
             /\ DOMAIN effects' = 1..(Len(effects) + 1)
             /\ effects'[Len(effects) + 1] = Entry
             /\ \A i \in DOMAIN effects : effects'[i] = effects[i]
  <2>1. ~Already /\ agentRun.active  BY <1>3, <1>6 DEF Already, NotActive
  <2>2. agentRun' = RunAfter /\ unsent' = (unsent \/ Handled.verb \in SettleVerbs) /\ effects' = Append(effects, Entry)
    BY <2>1 DEF CommitCommand, Entry
  <2>3. Entry \in [call : PipeCalls, verb : AllVerbs, id : CommandIds, taint : {"no", "text", "dep"},
                   after : {"none"} \cup SettleVerbs]
    BY <1>2 DEF Entry, CallRecords, RunRecords, PipeTyping, Handled
  <2> HIDE DEF Entry
  <2> QED  BY <2>1, <2>2, <1>5, <2>3
<1> QED  BY <1>1, <1>2, <1>3, <1>4, <1>5, <1>6 DEF CommitCommand, AnswerOf, AllVerbs, SettleVerbs

\* What was committed stays.
LEMMA EffectsStay ==
    ASSUME PipeTyping, InsideInv, PipeNext
    PROVE  \A i \in DOMAIN effects : i \in DOMAIN effects' /\ effects'[i] = effects[i]
<1>1. CASE effects' = effects  BY <1>1
<1>2. CASE CommitCommand /\ agentRun.outcome = "none"  BY <1>2, CommitStep
<1> QED  BY <1>1, <1>2, RunStep, CommitStep DEF RunGoesOn, RunMoves

\* Only the call that is inside, with its intent reserved, commits anything.
LEMMA EffectsStep ==
    ASSUME PipeTyping, InsideInv, PipeNext, NEW d \in PipeCalls
    PROVE  /\ EffectsOf(d) # {} => {i \in DOMAIN effects' : effects'[i].call = d} # {}
           /\ {i \in DOMAIN effects' : effects'[i].call = d} # {} =>
                EffectsOf(d) # {} \/ (inside.at = "reserved" /\ d = inside.call /\ call'[d] = call[d])
<1>1. CASE effects' = effects  BY <1>1 DEF EffectsOf
<1>2. CASE CommitCommand
  <2>1. CASE agentRun.outcome # "none"  BY <1>1, <1>2, <2>1, CommitStep
  <2>2. CASE agentRun.outcome = "none"
    <3>1. Entry.call = inside.call  BY DEF Entry
    <3> HIDE DEF Entry
    <3> QED  BY <1>2, <2>2, CommitStep, <3>1 DEF EffectsOf
  <2> QED  BY <2>1, <2>2
<1> QED  BY <1>1, <1>2, RunStep DEF RunGoesOn, RunMoves

\* A call has done nothing before it enters, and is told nothing before it is answered.
LEMMA CallInvStep ==
    ASSUME PipeTyping, InsideInv, CallInv, PipeNext
    PROVE  CallInv'
<1>1. ASSUME NEW c \in PipeCalls, call'[c].at \in {"idle", "connecting", "asked"}
      PROVE  {i \in DOMAIN effects' : effects'[i].call = c} = {}
  <2>1. call[c].at \in {"idle", "connecting", "asked"}  BY <1>1, CallsStep DEF CallGoesOn
  <2>2. EffectsOf(c) = {}  BY <2>1 DEF CallInv
  <2>3. inside.at # "none" => c # inside.call  BY <2>1 DEF InsideInv, Handled
  <2> QED  BY <2>2, <2>3, EffectsStep
<1>2. ASSUME NEW c \in PipeCalls, call'[c].at \in {"idle", "connecting", "asked", "inside"}
      PROVE  call'[c].told = "nothing"
  BY <1>2, CallsStep DEF CallGoesOn, CallInv
<1> QED  BY <1>1, <1>2 DEF CallInv, EffectsOf

\* A step that leaves the kernel alone leaves alone what it knows.
LEMMA InsideStays ==
    ASSUME InsideInv, UNCHANGED <<inside, agentRun, receipt, effects, unsent>>,
           inside.at # "none" => call'[inside.call] = call[inside.call]
    PROVE  InsideInv'
BY DEF InsideInv, Handled, HasId, NotActive, EffectsOf

\* What the kernel has read of the run stays true, or the revision tells (execute_run_control_linearized).
LEMMA InsideStep ==
    ASSUME PipeTyping, InsideInv, CallInv, OutcomeInv, PipeNext
    PROVE  InsideInv'
<1>0. /\ call \in [PipeCalls -> CallRecords] /\ agentRun.rev \in Nat /\ inside \in InsideRecords
      /\ inside.at # "none" => inside.call \in PipeCalls /\ call[inside.call].at = "inside"
  BY DEF PipeTyping, InsideInv, Handled, RunRecords
<1>1. ASSUME inside'.at = "none" PROVE InsideInv'  BY <1>1 DEF InsideInv
<1>2. ASSUME NEW c \in PipeCalls,
             \/ \E v \in Verbs, i \in CommandIds, t \in Taints : Invoke(c, v, i, t)
             \/ ClientConnects(c) \/ GivesUp(c) \/ CallIsKilled(c) \/ AnswerIsLost(c)
             \/ RequestRefused(c)
      PROVE  InsideInv'
  <2>1. UNCHANGED inside /\ KernelRest
    BY <1>2 DEF Invoke, ClientConnects, GivesUp, CallIsKilled, AnswerIsLost, RequestRefused
  <2>2. call[c].at # "inside"  BY <1>2 DEF Invoke, ClientConnects, GivesUp, CallIsKilled, AnswerIsLost, RequestRefused
  <2>3. \A d \in PipeCalls : d # c => call'[d] = call[d]
    BY <1>0, <1>2 DEF Invoke, ClientConnects, GivesUp, CallIsKilled, AnswerIsLost, RequestRefused, CallGoes, Tells
  <2> QED  BY <1>0, <2>1, <2>2, <2>3, InsideStays DEF KernelRest
<1>3. ASSUME NEW c \in PipeCalls, Enter(c) PROVE InsideInv'
  <2>1. call[c].at = "asked" /\ call[c].taint = "no" /\ KernelRest /\ inside.at = "none"
    BY <1>3 DEF Enter, ReadRequest, Clean, Tainted
  <2>2. CASE inside' = inside  BY <1>1, <2>1, <2>2
  <2>3. CASE inside' = [NoCall EXCEPT !.call = c, !.at = "resolved", !.seen = agentRun]
             /\ call' = [call EXCEPT ![c].at = "inside"]
    BY <1>0, <2>3, <2>1 DEF InsideInv, Handled, EffectsOf, NoCall, KernelRest, CallInv, CallRecords
  <2> QED  BY <1>3, <2>2, <2>3 DEF Enter, CallGoes
<1>4. CASE Listen \/ PipeCoreStarts  BY <1>4, InsideStays DEF Listen, PipeCoreStarts, KernelRest
<1>5. CASE Refuse \/ CommandFails \/ Seal \/ PipeCoreStops
  <2>1. inside' = NoCall  BY <1>5 DEF Refuse, CommandFails, Seal, Leaves, PipeCoreStops
  <2> QED  BY <1>1, <2>1 DEF NoCall
<1>6. CASE Replay
  <2>1. inside.at = "resolved" /\ inside' = [inside EXCEPT !.at = "committed", !.said = receipt.said]
        /\ UNCHANGED <<call, agentRun, receipt, effects, unsent>> /\ HasId /\ receipt.verb = Handled.verb
    BY <1>6 DEF Replay, StepsTo, ChangesNothing, Replays
  <2>2. inside'.at = "committed" /\ inside'.said = receipt.said /\ inside'.call = inside.call
    BY <1>0, <2>1 DEF InsideRecords
  <2>3. Handled' = Handled /\ HasId'  BY <2>1, <2>2 DEF Handled, HasId
  <2> QED  BY <2>1, <2>2, <2>3 DEF InsideInv, OutcomeInv
<1>7. CASE ReserveIntent
  <2>1. inside.at = "resolved" /\ inside' = [inside EXCEPT !.at = "reserved", !.said = "none"]
        /\ UNCHANGED <<call, agentRun, receipt, effects, unsent>> /\ ~Replays /\ ~Reused /\ ~NotActive
    BY <1>7 DEF ReserveIntent, StepsTo
  <2>2. HasId => receipt.verb = "none"  BY <2>1 DEF Replays, Reused
  <2> QED  BY <2>1, <1>0, <2>2 DEF InsideInv, Handled, HasId, NotActive, EffectsOf, InsideRecords
<1>8. CASE CommitCommand
  <2>1. /\ call' = call /\ inside' = [inside EXCEPT !.at = "committed", !.said = AnswerOf]
        /\ receipt' = IF HasId THEN [verb |-> Handled.verb, said |-> AnswerOf] ELSE receipt
    BY <1>8, CommitStep
  <2>2. inside'.at = "committed" /\ inside'.said = AnswerOf /\ inside'.call = inside.call
    BY <1>0, <2>1 DEF InsideRecords
  <2>3. Handled' = Handled /\ HasId' = HasId  BY <2>1, <2>2 DEF Handled, HasId
  <2>4. Handled.at = "inside" /\ Handled.taint = "no"  BY <1>8, CommitStep
  <2>5. Handled.verb \in SettleVerbs => agentRun'.outcome = Handled.verb
    <3>1. CASE agentRun.outcome # "none"  BY <1>8, <3>1, CommitStep
    <3>2. CASE agentRun.outcome = "none"
      <4>1. agentRun' = RunAfter  BY <1>8, <3>2, CommitStep
      <4> QED  BY <4>1 DEF RunAfter, SettleVerbs
    <3> QED  BY <3>1, <3>2
  <2>6. AnswerOf = "applied" => {i \in DOMAIN effects' : effects'[i].call = inside.call} # {}
    <3>1. CASE agentRun.outcome # "none"  BY <1>8, <3>1, CommitStep
    <3>2. CASE agentRun.outcome = "none"
      <4>1. Entry.call = inside.call  BY DEF Entry
      <4> HIDE DEF Entry
      <4> QED  BY <1>8, <3>2, CommitStep, <4>1
    <3> QED  BY <3>1, <3>2
  <2> HIDE DEF AnswerOf
  <2> QED  BY <2>2, <2>3, <2>4, <2>5, <2>6, <2>1 DEF InsideInv, EffectsOf
<1>9. CASE DrainOwed
  <2>1. CASE inside' = NoCall  BY <1>1, <2>1 DEF NoCall
  <2>2. CASE inside' = [inside EXCEPT !.at = "drained", !.said = inside.said] /\ call' = call /\ ~unsent'
    BY <1>9, <2>2, <1>0 DEF InsideInv, Handled, HasId, EffectsOf, InsideRecords, DrainOwed
  <2> QED  BY <1>9, <2>1, <2>2 DEF DrainOwed, Leaves, StepsTo, OwesNothing
<1>10. ASSUME NEW o \in {"none", "cancelled"} \cup SettleVerbs, RunMoves(o) PROVE InsideInv'
  <2>1. UNCHANGED <<call, receipt, inside, effects, unsent>> /\ agentRun.active /\ agentRun'.rev = agentRun.rev + 1
    <3>1. agentRun \in RunRecords  BY DEF PipeTyping
    <3> QED  BY <1>10, <3>1 DEF RunMoves, RunRecords
  <2>2. agentRun.outcome = "none"  BY <2>1 DEF OutcomeInv
  <2> QED  BY <1>0, <2>1, <2>2 DEF InsideInv, Handled, HasId, NotActive, EffectsOf, InsideRecords, RunRecords,
      SettleVerbs
<1> QED  BY <1>2, <1>3, <1>4, <1>5, <1>6, <1>7, <1>8, <1>9, <1>10 DEF PipeNext

\* A run that is settled stays as it was settled.
LEMMA OutcomeStep ==
    ASSUME PipeTyping, InsideInv, OutcomeInv, PipeNext
    PROVE  OutcomeInv'
<1>0. agentRun \in RunRecords /\ "none" \notin SettleVerbs  BY DEF PipeTyping, SettleVerbs
<1>1. CASE UNCHANGED <<agentRun, receipt, effects>>  BY <1>1 DEF OutcomeInv
<1>2. CASE CommitCommand /\ agentRun.outcome # "none"
  <2>1. UNCHANGED <<agentRun, effects>> /\ agentRun.outcome = Handled.verb
        /\ receipt' = IF HasId THEN [verb |-> Handled.verb, said |-> AnswerOf] ELSE receipt
    BY <1>2, CommitStep
  <2> HIDE DEF AnswerOf
  <2> QED  BY <2>1 DEF OutcomeInv
<1>3. CASE CommitCommand /\ agentRun.outcome = "none"
  <2>1. /\ agentRun' = RunAfter /\ DOMAIN effects' = 1..(Len(effects) + 1)
        /\ effects'[Len(effects) + 1] = Entry
        /\ \A i \in DOMAIN effects : effects'[i] = effects[i]
        /\ DOMAIN effects = 1..Len(effects) /\ Len(effects) \in Nat
        /\ Handled.verb \in AllVerbs
        /\ AnswerOf \in {"applied", "already"} => Handled.verb \in SettleVerbs
        /\ receipt' = IF HasId THEN [verb |-> Handled.verb, said |-> AnswerOf] ELSE receipt
    BY <1>3, CommitStep
  <2>2. /\ Handled.verb \in SettleVerbs => RunAfter.outcome = Handled.verb /\ ~RunAfter.active
        /\ Handled.verb \notin SettleVerbs => RunAfter.outcome = agentRun.outcome
    BY <1>0, <2>1 DEF RunAfter, SettleVerbs, AllVerbs, RunRecords
  <2>3. Entry.verb = Handled.verb  BY DEF Entry
  <2> HIDE DEF AnswerOf, RunAfter, Entry
  <2> QED  BY <1>3, <2>1, <2>2, <1>0, <2>3 DEF OutcomeInv
<1>4. ASSUME NEW o \in {"none", "cancelled"} \cup SettleVerbs, RunMoves(o) PROVE OutcomeInv'
  <2>1. UNCHANGED <<receipt, effects>> /\ agentRun.active  BY <1>4 DEF RunMoves
  <2>2. agentRun.outcome = "none"  BY <2>1 DEF OutcomeInv
  <2> QED  BY <1>0, <2>1, <2>2, <1>4 DEF OutcomeInv, RunMoves, RunRecords
<1> QED  BY <1>1, <1>2, <1>3, <1>4, RunStep DEF RunGoesOn

\* A receipt is written once, and every answer under its id repeats it.
LEMMA ReceiptStep ==
    ASSUME PipeTyping, InsideInv, CallInv, ReceiptInv, PipeNext
    PROVE  ReceiptInv'
<1>0. "none" \notin AllVerbs /\ "nothing" \notin Fine /\ "lost" \notin Fine /\ "refused" \notin Fine /\ "failed" \notin Fine
  BY DEF AllVerbs, Fine
<1>1. UNCHANGED receipt \/ (CommitCommand /\ HasId)  BY RunStep, CommitStep DEF RunGoesOn, RunMoves
<1>2. ASSUME CommitCommand, HasId
      PROVE  call' = call /\ receipt.verb = "none" /\ receipt'.verb = Handled.verb /\ Handled.verb \in AllVerbs
  <2> HIDE DEF AnswerOf
  <2> QED  BY <1>2, CommitStep
<1>3. ASSUME NEW c \in PipeCalls, call'[c].id # "none", call'[c].told \in Fine
      PROVE  receipt'.verb = call'[c].verb /\ receipt'.said = call'[c].told
  <2>1. CASE CommitCommand /\ HasId  BY <1>0, <1>2, <1>3, <2>1 DEF ReceiptInv, CallInv, PipeTyping
  <2>2. CASE receipt' = receipt /\ call[c].told \in Fine
    BY <1>3, <2>2, <1>0, CallsStep DEF ReceiptInv, CallGoesOn, CallInv, InsideInv, Handled
  <2>3. CASE receipt' = receipt /\ call[c].told \notin Fine
    BY <1>3, <2>3, <1>0, CallsStep DEF InsideInv, Handled, HasId, CallGoesOn
  <2> QED  BY <1>1, <2>1, <2>2, <2>3
<1>4. ASSUME NEW i \in DOMAIN effects', effects'[i].id # "none" PROVE receipt'.verb # "none"
  <2>1. CASE i \in DOMAIN effects  BY <1>0, <1>1, <1>2, <1>4, <2>1, EffectsStay DEF ReceiptInv
  <2>2. CASE i \notin DOMAIN effects
    <3>1. CommitCommand  BY <2>2, RunStep DEF RunGoesOn, RunMoves
    <3>2. effects'[i] = Entry
      <4>1. CASE agentRun.outcome # "none"  BY <2>2, <3>1, <4>1, CommitStep
      <4>2. CASE agentRun.outcome = "none"
        <5> HIDE DEF Entry
        <5> QED  BY <2>2, <3>1, <4>2, CommitStep
      <4> QED  BY <4>1, <4>2
    <3> QED  BY <1>0, <1>2, <1>4, <3>1, <3>2 DEF Entry, HasId
  <2> QED  BY <2>1, <2>2
<1> QED  BY <1>3, <1>4 DEF ReceiptInv

\* Who was told that the run is settled stays right.
LEMMA ToldStep ==
    ASSUME PipeTyping, InsideInv, OutcomeInv, CallInv, SettledAsTold, PipeNext
    PROVE  SettledAsTold'
<1>0. "none" \notin SettleVerbs  BY DEF SettleVerbs
<1>1. SUFFICES ASSUME NEW c \in PipeCalls, NEW s \in SettleVerbs, call'[c].verb = s,
                      call'[c].told \in {"applied", "already"}
               PROVE  agentRun'.outcome = s /\ ~unsent'
  BY DEF SettledAsTold, Told
<1>2. agentRun.outcome = s /\ ~unsent
  BY <1>1, CallsStep DEF SettledAsTold, Told, InsideInv, Handled, CallGoesOn, CallInv
<1>3. CASE UNCHANGED <<agentRun, receipt, effects>> /\ (unsent' => unsent)  BY <1>2, <1>3
<1>4. CASE CommitCommand  BY <1>0, <1>2, <1>4, CommitStep
<1>5. CASE agentRun.active  BY <1>0, <1>2, <1>5 DEF OutcomeInv
<1> QED  BY <1>3, <1>4, <1>5, RunStep DEF RunGoesOn, RunMoves

\* A refusal stays without effect, and an application keeps its own.
LEMMA TrueStep ==
    ASSUME PipeTyping, InsideInv, CallInv, AnswersAreTrue, PipeNext
    PROVE  AnswersAreTrue'
<1>1. ASSUME NEW c \in PipeCalls, call'[c].told = "refused"
      PROVE  {i \in DOMAIN effects' : effects'[i].call = c} = {}
  <2>0. inside.said # "refused"  BY DEF PipeTyping, InsideRecords, Sayings
  <2>1. EffectsOf(c) = {}  BY <1>1, <2>0, CallsStep DEF CallGoesOn, CallInv, AnswersAreTrue, Told, InsideInv
  <2> QED  BY <2>1, <1>1, EffectsStep DEF InsideInv, CallInv, Handled
<1>2. ASSUME NEW c \in PipeCalls, call'[c].told = "applied", call'[c].id = "none"
      PROVE  {i \in DOMAIN effects' : effects'[i].call = c} # {}
  <2>1. EffectsOf(c) # {}  BY <1>2, CallsStep DEF CallGoesOn, CallInv, AnswersAreTrue, Told, InsideInv, Handled, HasId
  <2> QED  BY <2>1, EffectsStep
<1> QED  BY <1>1, <1>2 DEF AnswersAreTrue, Told, EffectsOf

\* A second settlement, or a second effect of an id, is not committed.
LEMMA OnceStep ==
    ASSUME PipeTyping, InsideInv, OutcomeInv, ReceiptInv, OnceEach, NothingOutOfPlace, PipeNext
    PROVE  OnceEach' /\ NothingOutOfPlace'
<1>1. CASE effects' = effects  BY <1>1 DEF OnceEach, NothingOutOfPlace
<1>2. CASE CommitCommand /\ agentRun.outcome = "none"
  <2>1. /\ DOMAIN effects' = 1..(Len(effects) + 1) /\ effects'[Len(effects) + 1] = Entry
        /\ \A i \in DOMAIN effects : effects'[i] = effects[i]
        /\ DOMAIN effects = 1..Len(effects) /\ Len(effects) \in Nat
        /\ Handled.taint = "no" /\ (HasId => receipt.verb = "none")
    BY <1>2, CommitStep
  <2>2. Entry.taint = "no" /\ Entry.after = "none" /\ Entry.id = Handled.id /\ Entry.verb = Handled.verb
    BY <1>2, <2>1 DEF Entry
  <2>3. \A i \in DOMAIN effects : effects[i].verb \notin SettleVerbs /\ (Entry.id = "none" \/ Entry.id # effects[i].id)
    BY <1>2, <2>1, <2>2 DEF OutcomeInv, ReceiptInv, HasId
  <2> HIDE DEF Entry
  <2>4. NothingOutOfPlace'  BY <2>1, <2>2 DEF NothingOutOfPlace
  <2>5. ASSUME NEW i \in DOMAIN effects', NEW j \in DOMAIN effects', i # j
        PROVE  /\ ~({effects'[i].verb, effects'[j].verb} \subseteq SettleVerbs)
               /\ effects'[i].id = "none" \/ effects'[i].id # effects'[j].id
    <3>1. CASE i \in DOMAIN effects /\ j \in DOMAIN effects  BY <2>1, <2>5, <3>1 DEF OnceEach
    <3>2. CASE i \in DOMAIN effects /\ j = Len(effects) + 1  BY <2>1, <2>3, <3>2
    <3>3. CASE i = Len(effects) + 1 /\ j \in DOMAIN effects  BY <2>1, <2>3, <3>3
    <3> QED  BY <2>1, <2>5, <3>1, <3>2, <3>3
  <2> QED  BY <2>4, <2>5 DEF OnceEach
<1> QED  BY <1>1, <1>2, RunStep, CommitStep DEF RunGoesOn, RunMoves

\* The inductive invariant of AgentPipe: what the kernel read, the outcome, the receipt, the calls.
THEOREM PipeInductive == PipeSpec => []PipeInv
<1>1. ASSUME PipeInit PROVE PipeInv
  <2>1. PipeTyping
    <3>1. agentRun \in RunRecords /\ inside \in InsideRecords /\ inside.at = "none"
      BY <1>1 DEF PipeInit, Untouched, NoCall, RunRecords, InsideRecords, Sayings
    <3>2. /\ added \in 0..MaxAddedNodes
          /\ intent \in [state : {"none", "reserved", "applied", "failed", "revoked"}, verb : AllVerbs \cup {"none"}]
          /\ receipt \in [verb : AllVerbs \cup {"none"}, said : Sayings]
      <4>1. MaxAddedNodes \in Nat  BY PipeAssumption
      <4> QED  BY <4>1, <1>1 DEF NoIntent, Sayings, PipeInit
    <3>0. {coreUp, listening, sealed, unsent} \subseteq BOOLEAN  BY <1>1 DEF PipeInit
    <3> QED  BY <3>0, <1>1, <3>1, <3>2 DEF PipeTyping, PipeInit, Unasked, CallRecords, CommandIds
  <2>2. InsideInv /\ OutcomeInv  BY <1>1 DEF PipeInit, NoCall, Untouched, InsideInv, OutcomeInv, SettleVerbs
  <2>3. ReceiptInv /\ CallInv /\ SettledAsTold /\ AnswersAreTrue
    BY <1>1 DEF PipeInit, Unasked, ReceiptInv, CallInv, EffectsOf, Fine, SettledAsTold, AnswersAreTrue, Told
  <2>4. OnceEach /\ NothingOutOfPlace  BY <1>1 DEF PipeInit, OnceEach, NothingOutOfPlace
  <2> QED  BY <2>1, <2>2, <2>3, <2>4 DEF PipeInv
<1>2. ASSUME PipeInv, [PipeNext]_pipeVars PROVE PipeInv'
  <2>1. CASE PipeNext
    <3>1. PipeTyping' /\ InsideInv' /\ CallInv'  BY <1>2, <2>1, PipeTypesStep, InsideStep, CallInvStep DEF PipeInv
    <3>2. OutcomeInv' /\ ReceiptInv'  BY <1>2, <2>1, OutcomeStep, ReceiptStep DEF PipeInv
    <3>3. SettledAsTold' /\ AnswersAreTrue'  BY <1>2, <2>1, ToldStep, TrueStep DEF PipeInv
    <3>4. OnceEach' /\ NothingOutOfPlace'  BY <1>2, <2>1, OnceStep DEF PipeInv
    <3> QED  BY <3>1, <3>2, <3>3, <3>4 DEF PipeInv
  <2>2. CASE UNCHANGED pipeVars
    BY <1>2, <2>2 DEF pipeVars, PipeInv, PipeTyping, InsideInv, Handled, HasId, NotActive, EffectsOf, OutcomeInv,
      ReceiptInv, CallInv, SettledAsTold, Told, AnswersAreTrue, OnceEach, NothingOutOfPlace
  <2> QED  BY <1>2, <2>1, <2>2
<1> QED  BY <1>1, <1>2, PTL DEF PipeSpec

\* An agent is told what was done, and it is done once (PipeSafety, for any calls and limits).
THEOREM PipeIsSafe == PipeSpec => []PipeSafety
<1>1. PipeInv => PipeSafety
  <2> SUFFICES ASSUME PipeInv PROVE PipeSafety  OBVIOUS
  <2>1. PipeTypeOK  BY DEF PipeInv, PipeTyping, PipeTypeOK, CallRecords, RunRecords
  <2>2. SameAnswer  BY DEF PipeInv, ReceiptInv, SameAnswer
  <2> QED  BY <2>1, <2>2 DEF PipeInv, PipeSafety
<1> QED  BY <1>1, PipeInductive, PTL

----
(* How a directory becomes a project that runs.                            *)

MountStages == {"idle", "resolved", "attached", "assembling", "started", "recovered"}
FolderRows == {Unowned} \cup [project : Paths, kind : {"primary", "additional"}]

MountTyping ==
    /\ MountTypeOK
    /\ folderRow \in [Paths -> FolderRows]
    /\ mount \in [Requests -> [stage : MountStages, path : Paths \cup {NoPath}]]
    /\ \A r \in Requests : ~At(r, "idle") => mount[r].path \in Paths

\* A folder belongs to a project that is known, and a project has its own folder.
FoldersInv ==
    /\ \A p \in Paths : folderRow[p] # Unowned => projectRow[folderRow[p].project] # "none"
    /\ \A p \in Paths : projectRow[p] # "none" => folderRow[p].kind = "primary" \/ p \in overtaken

\* A request that has resolved its path goes to no folder of another project.
ResolvedInv ==
    \A r \in Requests : At(r, "resolved") =>
        folderRow[mount[r].path].kind # "additional" \/ mount[r].path \in overtaken

\* A project that is being assembled is not listed yet.
AssemblyInv ==
    /\ \A r \in Requests : At(r, "assembling") => mount[r].path \notin listed \/ mount[r].path \in overlapped
    /\ \A r, o \in Requests :
         r # o /\ At(r, "assembling") /\ At(o, "assembling") /\ mount[r].path = mount[o].path =>
             mount[r].path \in overlapped
    /\ \A p \in Paths : p \in listed \/ schedulers[p] = 0

\* What is listed has its ports, or somebody is at it, or something has gone wrong.
ListedInv ==
    \A p \in listed :
        \/ p \in ports \cup unready
        \/ \E r \in Requests : mount[r].stage \in {"started", "recovered"} /\ mount[r].path = p

MountInv ==
    /\ MountTyping /\ FoldersInv /\ ResolvedInv /\ AssemblyInv /\ ListedInv
    /\ OneScheduler

\* The state of folders, requests and schedulers keeps its form.
LEMMA MountTypesStep ==
    ASSUME MountTyping, MountNext
    PROVE  MountTyping'
<1> USE MountAssumption
<1> DEFINE M == [stage : MountStages, path : Paths \cup {NoPath}]
<1>0. /\ mount \in [Requests -> M] /\ folderRow \in [Paths -> FolderRows]
      /\ schedulers \in [Paths -> Nat] /\ projectRow \in [Paths -> {"none", "registered", "missing"}]
      /\ mountWork \in 0..MaxMountWork
      /\ present \subseteq Paths /\ mounted \subseteq Paths /\ listed \subseteq Paths /\ ports \subseteq Paths
      /\ imported \in BOOLEAN
      /\ \A r \in Requests : ~At(r, "idle") => mount[r].path \in Paths
  BY DEF MountTyping, MountTypeOK
<1>1. mountWork' \in 0..MaxMountWork
  <2>1. MountBudget \/ mountWork' = mountWork
    BY DEF MountNext, AddFolder, RemoveFolder, ImportSession, ResolveMount, AttachProject, AttachFails,
      AlreadyAssembled, BeginAssembly, StartScheduler, RecoverActions, RegisterPorts, AssemblyFails, DetachProject,
      DirectoryMoves, CoreRestart
  <2> QED  BY <1>0, <2>1 DEF MountBudget
<1>2. /\ present' \subseteq Paths /\ mounted' \subseteq Paths /\ listed' \subseteq Paths /\ ports' \subseteq Paths
      /\ imported' \in BOOLEAN
  <2>1. CASE UNCHANGED <<present, mounted, listed, ports>> /\ imported' \in BOOLEAN  BY <1>0, <2>1
  <2>2. CASE \E h, p \in Paths : AddFolder(h, p) \/ RemoveFolder(h, p)
    BY <1>0, <2>1, <2>2 DEF AddFolder, RemoveFolder, execution
  <2>3. CASE \E S \in SUBSET Paths : ImportSession(S)  BY <1>0, <2>1, <2>3 DEF ImportSession, execution
  <2>4. ASSUME NEW r \in Requests,
               \/ AttachFails(r) \/ AlreadyAssembled(r) \/ BeginAssembly(r) \/ RecoverActions(r) \/ AssemblyFails(r)
               \/ \E p \in Paths : ResolveMount(r, p)
        PROVE  UNCHANGED <<present, mounted, listed, ports, imported>>
    BY <2>4 DEF AttachFails, AlreadyAssembled, BeginAssembly, RecoverActions, AssemblyFails, ResolveMount, execution,
      registry
  <2>5. ASSUME NEW r \in Requests, AttachProject(r) \/ StartScheduler(r) \/ RegisterPorts(r)
        PROVE  /\ mount[r].path \in Paths /\ UNCHANGED <<present, imported>>
               /\ mounted' \subseteq mounted \cup {mount[r].path} /\ listed' \subseteq listed \cup {mount[r].path}
               /\ ports' \subseteq ports \cup {mount[r].path}
    BY <1>0, <2>5 DEF AttachProject, StartScheduler, RegisterPorts, execution, registry, At
  <2>6. CASE \E p \in Paths : DetachProject(p) \/ DirectoryMoves(p)
    BY <1>0, <2>6 DEF DetachProject, DirectoryMoves, execution, registry
  <2>7. CASE CoreRestart  BY <1>0, <2>7 DEF CoreRestart, registry
  <2> QED  BY <1>0, <2>1, <2>2, <2>3, <2>4, <2>5, <2>6, <2>7 DEF MountNext
<1>3. schedulers' \in [Paths -> Nat]
  <2>1. ASSUME NEW r \in Requests, StartScheduler(r) PROVE schedulers' \in [Paths -> Nat]
    BY <1>0, <2>1 DEF StartScheduler, At
  <2>2. CASE CoreRestart  BY <2>2 DEF CoreRestart
  <2>3. CASE schedulers' = schedulers  BY <1>0, <2>3
  <2> QED
    BY <2>1, <2>2, <2>3 DEF MountNext, AddFolder, RemoveFolder, ImportSession, ResolveMount, AttachProject, AttachFails,
      AlreadyAssembled, BeginAssembly, RecoverActions, RegisterPorts, AssemblyFails, DetachProject, DirectoryMoves,
      execution
<1>4. projectRow' \in [Paths -> {"none", "registered", "missing"}]
  <2>1. ASSUME NEW S \in SUBSET Paths, ImportSession(S) PROVE projectRow' \in [Paths -> {"none", "registered", "missing"}]
    BY <1>0, <2>1 DEF ImportSession
  <2>2. ASSUME NEW r \in Requests, AttachProject(r) PROVE projectRow' \in [Paths -> {"none", "registered", "missing"}]
    BY <1>0, <2>2 DEF AttachProject
  <2>3. CASE projectRow' = projectRow  BY <1>0, <2>3
  <2> QED
    BY <2>1, <2>2, <2>3 DEF MountNext, AddFolder, RemoveFolder, ResolveMount, AttachFails, AlreadyAssembled,
      BeginAssembly, StartScheduler, RecoverActions, RegisterPorts, AssemblyFails, DetachProject, DirectoryMoves,
      CoreRestart, registry
<1>5. folderRow' \in [Paths -> FolderRows]
  <2>1. ASSUME NEW S PROVE WithPrimary(folderRow, S) \in [Paths -> FolderRows]  BY <1>0 DEF WithPrimary, FolderRows
  <2>2. ASSUME NEW h \in Paths, NEW p \in Paths, AddFolder(h, p) \/ RemoveFolder(h, p)
        PROVE  folderRow' \in [Paths -> FolderRows]
    BY <1>0, <2>2 DEF AddFolder, RemoveFolder, FolderRows
  <2>3. CASE folderRow' = folderRow  BY <1>0, <2>3
  <2> QED
    BY <2>1, <2>2, <2>3 DEF MountNext, ImportSession, AttachProject, ResolveMount, AttachFails, AlreadyAssembled,
      BeginAssembly, StartScheduler, RecoverActions, RegisterPorts, AssemblyFails, DetachProject, DirectoryMoves,
      CoreRestart, registry
<1>6. mount' \in [Requests -> M] /\ \A r \in Requests : mount'[r].stage # "idle" => mount'[r].path \in Paths
  <2>1. ASSUME NEW r \in Requests, NEW s \in MountStages, NEW p \in Paths, Goes(r, s, p)
        PROVE  mount' \in [Requests -> M] /\ \A o \in Requests : mount'[o].stage # "idle" => mount'[o].path \in Paths
    BY <1>0, <2>1 DEF Goes, At
  <2>2. ASSUME NEW r \in Requests, Ends(r)
        PROVE  mount' \in [Requests -> M] /\ \A o \in Requests : mount'[o].stage # "idle" => mount'[o].path \in Paths
    BY <1>0, <2>2 DEF Ends, At, Resting, MountStages
  <2>3. ASSUME NEW r \in Requests, NEW p \in Paths, ResolveMount(r, p)
        PROVE  Goes(r, "resolved", HomeOf(p)) /\ HomeOf(p) \in Paths
    BY <1>0, <2>3 DEF ResolveMount, HomeOf, FolderRows
  <2>4. ASSUME NEW r \in Requests,
               AttachProject(r) \/ BeginAssembly(r) \/ StartScheduler(r) \/ RecoverActions(r)
        PROVE  \E s \in MountStages, p \in Paths : Goes(r, s, p)
    BY <1>0, <2>4 DEF AttachProject, BeginAssembly, StartScheduler, RecoverActions, At, MountStages
  <2>5. CASE mount' = mount  BY <1>0, <2>5 DEF At
  <2>6. CASE CoreRestart  BY <1>0, <2>6 DEF CoreRestart, Resting, MountStages
  <2>7. "resolved" \in MountStages  BY DEF MountStages
  <2> HIDE DEF M
  <2> QED
    BY <2>1, <2>2, <2>3, <2>4, <2>5, <2>6, <2>7 DEF MountNext, AddFolder, RemoveFolder, ImportSession, AttachFails,
      AlreadyAssembled, RegisterPorts, AssemblyFails, DetachProject, DirectoryMoves
<1> QED  BY <1>1, <1>2, <1>3, <1>4, <1>5, <1>6 DEF MountTyping, MountTypeOK, At, FolderRows

\* Who is given another folder, or has it imported, around a request for it, stays overtaken.
LEMMA OvertakenStays ==
    ASSUME MountNext
    PROVE  overtaken \subseteq overtaken'
BY DEF MountNext, AddFolder, RemoveFolder, ImportSession, ResolveMount, AttachProject, AttachFails, AlreadyAssembled,
  BeginAssembly, StartScheduler, RecoverActions, RegisterPorts, AssemblyFails, DetachProject, DirectoryMoves,
  CoreRestart, around

\* A bound folder has a project, and a project has its folder, unless it was overtaken.
LEMMA FoldersStep ==
    ASSUME MountTyping, FoldersInv, ResolvedInv, MountNext
    PROVE  FoldersInv'
<1>0. /\ folderRow \in [Paths -> FolderRows] /\ projectRow \in [Paths -> {"none", "registered", "missing"}]
      /\ Unowned.kind = "none"
  BY DEF MountTyping, MountTypeOK, Unowned
<1>1. ASSUME NEW h \in Paths, NEW p \in Paths, AddFolder(h, p) \/ RemoveFolder(h, p) PROVE FoldersInv'
  BY <1>0, <1>1, OvertakenStays DEF FoldersInv, AddFolder, RemoveFolder, registry, Unowned
<1>2. ASSUME NEW S \in SUBSET Paths, ImportSession(S) PROVE FoldersInv'
  <2>1. /\ \A p \in Paths : projectRow'[p] # "none" <=> projectRow[p] # "none" \/ p \in S
        /\ \A p \in Paths : folderRow'[p] = IF projectRow'[p] # "none" /\ folderRow[p] = Unowned
                                             THEN [project |-> p, kind |-> "primary"] ELSE folderRow[p]
        /\ \A p \in S : folderRow[p].kind = "additional" => p \in overtaken'
    BY <1>0, <1>2 DEF ImportSession, WithPrimary
  <2>2. \A p \in Paths : folderRow[p] # Unowned => folderRow[p].project \in Paths /\ folderRow[p].kind \in {"primary", "additional"}
    BY <1>0 DEF FolderRows
  <2>3. ASSUME NEW p \in Paths, folderRow'[p] # Unowned PROVE projectRow'[folderRow'[p].project] # "none"
    <3>1. CASE projectRow'[p] # "none" /\ folderRow[p] = Unowned
      <4>1. folderRow'[p] = [project |-> p, kind |-> "primary"]  BY <2>1, <3>1
      <4> QED  BY <3>1, <4>1
    <3>2. CASE ~(projectRow'[p] # "none" /\ folderRow[p] = Unowned)  BY <2>1, <2>3, <2>2, <3>2 DEF FoldersInv
    <3> QED  BY <3>1, <3>2
  <2>4. ASSUME NEW p \in Paths, projectRow'[p] # "none" PROVE folderRow'[p].kind = "primary" \/ p \in overtaken'
    <3>1. CASE folderRow[p] = Unowned
      <4>1. folderRow'[p] = [project |-> p, kind |-> "primary"]  BY <2>1, <2>4, <3>1
      <4> QED  BY <4>1
    <3>2. CASE folderRow[p] # Unowned
      <4>1. folderRow'[p] = folderRow[p]  BY <2>1, <3>2
      <4>2. projectRow[p] # "none" \/ p \in S  BY <2>1, <2>4
      <4> QED  BY <2>1, <2>2, <3>2, <4>1, <4>2, OvertakenStays DEF FoldersInv
    <3> QED  BY <3>1, <3>2
  <2> QED  BY <2>3, <2>4 DEF FoldersInv
<1>3. ASSUME NEW r \in Requests, AttachProject(r) PROVE FoldersInv'
  <2> DEFINE q == mount[r].path
  <2>1. q \in Paths /\ (folderRow[q].kind # "additional" \/ q \in overtaken)
    BY <1>3 DEF AttachProject, MountTyping, ResolvedInv, At
  <2>2. /\ projectRow' = [projectRow EXCEPT ![q] = "registered"]
        /\ \A p \in Paths : folderRow'[p] = IF p = q /\ folderRow[p] = Unowned
                                             THEN [project |-> p, kind |-> "primary"] ELSE folderRow[p]
    BY <1>3 DEF AttachProject, WithPrimary
  <2>3. \A p \in Paths : folderRow[p] # Unowned => folderRow[p].project \in Paths /\ folderRow[p].kind \in {"primary", "additional"}
    BY <1>0 DEF FolderRows
  <2> HIDE DEF q
  <2>4. ASSUME NEW p \in Paths, folderRow'[p] # Unowned PROVE projectRow'[folderRow'[p].project] # "none"
    <3>1. CASE p = q /\ folderRow[p] = Unowned
      <4>1. folderRow'[p] = [project |-> p, kind |-> "primary"]  BY <2>2, <3>1
      <4>2. projectRow'[q] = "registered"  BY <1>0, <2>1, <2>2
      <4> QED  BY <3>1, <4>1, <4>2
    <3>2. CASE ~(p = q /\ folderRow[p] = Unowned)  BY <1>0, <2>2, <2>3, <2>4, <3>2 DEF FoldersInv
    <3> QED  BY <3>1, <3>2
  <2>5. ASSUME NEW p \in Paths, projectRow'[p] # "none" PROVE folderRow'[p].kind = "primary" \/ p \in overtaken'
    <3>1. CASE p = q /\ folderRow[p] = Unowned
      <4>1. folderRow'[p] = [project |-> p, kind |-> "primary"]  BY <2>2, <3>1
      <4> QED  BY <4>1
    <3>2. CASE ~(p = q /\ folderRow[p] = Unowned)
      <4>1. folderRow'[p] = folderRow[p]  BY <2>2, <3>2
      <4>2. CASE p = q  BY <2>1, <2>3, <3>2, <4>1, <4>2, OvertakenStays
      <4>3. CASE p # q
        <5>1. projectRow[p] # "none"  BY <1>0, <2>2, <2>5, <4>3
        <5> QED  BY <4>1, <5>1, OvertakenStays DEF FoldersInv
      <4> QED  BY <4>2, <4>3
    <3> QED  BY <3>1, <3>2
  <2> QED  BY <2>4, <2>5 DEF FoldersInv
<1>4. CASE UNCHANGED <<folderRow, projectRow>>  BY <1>4, OvertakenStays DEF FoldersInv
<1> QED
  BY <1>1, <1>2, <1>3, <1>4 DEF MountNext, ResolveMount, AttachFails, AlreadyAssembled, BeginAssembly, StartScheduler,
    RecoverActions, RegisterPorts, AssemblyFails, DetachProject, DirectoryMoves, CoreRestart, registry

\* A request that has resolved its path is not at a folder of another project.
LEMMA ResolvedStep ==
    ASSUME MountTyping, FoldersInv, ResolvedInv, MountNext
    PROVE  ResolvedInv'
<1>0. /\ folderRow \in [Paths -> FolderRows] /\ mount \in [Requests -> [stage : MountStages, path : Paths \cup {NoPath}]]
      /\ \A r \in Requests : ~At(r, "idle") => mount[r].path \in Paths
      /\ Unowned.kind = "none"
  BY DEF MountTyping, Unowned
<1>1. SUFFICES ASSUME NEW o \in Requests, mount'[o].stage = "resolved"
               PROVE  folderRow'[mount'[o].path].kind # "additional" \/ mount'[o].path \in overtaken'
  BY DEF ResolvedInv, At
<1>2. ASSUME NEW h \in Paths, NEW p \in Paths, AddFolder(h, p) \/ RemoveFolder(h, p)
      PROVE  folderRow'[mount'[o].path].kind # "additional" \/ mount'[o].path \in overtaken'
  <2>1. mount' = mount /\ mount[o].path \in Paths  BY <1>0, <1>1, <1>2 DEF AddFolder, RemoveFolder, At
  <2>2. CASE AddFolder(h, p) /\ p = mount[o].path  BY <1>1, <2>1, <2>2 DEF AddFolder, At
  <2>3. CASE AddFolder(h, p) /\ p # mount[o].path
    BY <1>0, <1>1, <2>1, <2>3, OvertakenStays DEF AddFolder, At, ResolvedInv
  <2>4. CASE RemoveFolder(h, p)  BY <1>0, <1>1, <2>1, <2>4, OvertakenStays DEF RemoveFolder, At, ResolvedInv
  <2> QED  BY <1>2, <2>2, <2>3, <2>4
<1>3. ASSUME NEW S, folderRow' = WithPrimary(folderRow, S), mount'[o] = mount[o]
      PROVE  folderRow'[mount'[o].path].kind # "additional" \/ mount'[o].path \in overtaken'
  <2>1. mount[o].path \in Paths  BY <1>0, <1>1, <1>3 DEF At
  <2> QED  BY <1>1, <1>3, <2>1, OvertakenStays DEF WithPrimary, ResolvedInv, At
<1>4. ASSUME NEW r \in Requests, NEW p \in Paths, ResolveMount(r, p)
      PROVE  folderRow'[mount'[o].path].kind # "additional" \/ mount'[o].path \in overtaken'
  <2>1. folderRow' = folderRow /\ mount' = [mount EXCEPT ![r] = [stage |-> "resolved", path |-> HomeOf(p)]]
    BY <1>4 DEF ResolveMount, Goes, registry
  <2>2. CASE o = r
    <3>1. mount'[o].path = HomeOf(p)  BY <1>0, <2>1, <2>2
    <3>2. CASE folderRow[p] = Unowned  BY <1>0, <2>1, <3>1, <3>2 DEF HomeOf
    <3>3. CASE folderRow[p] # Unowned  BY <2>1, <3>1, <3>3, <1>0, OvertakenStays DEF FoldersInv, FolderRows, HomeOf
    <3> QED  BY <3>2, <3>3
  <2>3. CASE o # r  BY <1>0, <1>1, <2>1, <2>3, OvertakenStays DEF ResolvedInv, At
  <2> QED  BY <2>2, <2>3
<1>5. ASSUME folderRow' = folderRow, mount'[o] = mount[o]
      PROVE  folderRow'[mount'[o].path].kind # "additional" \/ mount'[o].path \in overtaken'
  BY <1>1, <1>5, OvertakenStays DEF ResolvedInv, At
<1>6. ASSUME NEW r \in Requests,
             \/ AttachProject(r) \/ AttachFails(r) \/ AlreadyAssembled(r) \/ BeginAssembly(r)
             \/ StartScheduler(r) \/ RecoverActions(r) \/ RegisterPorts(r) \/ AssemblyFails(r)
      PROVE  r # o /\ mount'[o] = mount[o]
  <2>1. CASE Ends(r)  BY <1>0, <1>1, <2>1 DEF Ends, Resting
  <2>2. CASE \E s \in {"attached", "assembling", "started", "recovered"} : Goes(r, s, mount[r].path)
    BY <1>0, <1>1, <2>2 DEF Goes
  <2> QED  BY <1>6, <2>1, <2>2 DEF AttachProject, AttachFails, AlreadyAssembled, BeginAssembly, StartScheduler,
      RecoverActions, RegisterPorts, AssemblyFails
<1>7. CASE CoreRestart  BY <1>1, <1>7 DEF CoreRestart, Resting
<1>8. CASE \E S \in SUBSET Paths : ImportSession(S)  BY <1>3, <1>8 DEF ImportSession
<1>9. CASE \E r \in Requests : AttachProject(r)  BY <1>3, <1>6, <1>9 DEF AttachProject
<1>10. CASE \E r \in Requests : \/ AttachFails(r) \/ AlreadyAssembled(r) \/ BeginAssembly(r)
                               \/ StartScheduler(r) \/ RecoverActions(r) \/ RegisterPorts(r) \/ AssemblyFails(r)
  <2>1. folderRow' = folderRow
    BY <1>10 DEF AttachFails, AlreadyAssembled, BeginAssembly, StartScheduler, RecoverActions, RegisterPorts,
      AssemblyFails, registry
  <2> QED  BY <1>5, <1>6, <1>10, <2>1
<1>11. CASE \E p \in Paths : DetachProject(p) \/ DirectoryMoves(p)
  BY <1>5, <1>11 DEF DetachProject, DirectoryMoves, registry
<1> QED  BY <1>2, <1>4, <1>7, <1>8, <1>9, <1>10, <1>11 DEF MountNext

\* Where a request stands after a step, and what has become of the schedulers.
MountGoesOn(r) ==
    \/ mount'[r] = mount[r]
    \/ mount'[r].stage \notin {"assembling", "started", "recovered"} /\ mount[r].stage \notin {"started", "recovered"}
    \/ AssemblyFails(r) \/ RegisterPorts(r) \/ BeginAssembly(r) \/ StartScheduler(r) \/ RecoverActions(r)

\* Every step but a restart moves a request as MountGoesOn says.
LEMMA MountsStep ==
    ASSUME MountTyping, MountNext, ~CoreRestart, NEW o \in Requests
    PROVE  MountGoesOn(o)
<1>0. mount \in [Requests -> [stage : MountStages, path : Paths \cup {NoPath}]]  BY DEF MountTyping
<1>1. CASE mount' = mount  BY <1>1 DEF MountGoesOn
<1>2. ASSUME NEW r \in Requests,
             \/ AttachProject(r) \/ AttachFails(r) \/ AlreadyAssembled(r) \/ \E p \in Paths : ResolveMount(r, p)
      PROVE  MountGoesOn(o)
  <2>1. /\ mount[r].stage \notin {"started", "recovered"}
        /\ Ends(r) \/ \E s \in {"resolved", "attached"} : \E p : Goes(r, s, p)
    BY <1>2 DEF AttachProject, AttachFails, AlreadyAssembled, ResolveMount, At
  <2> QED  BY <1>0, <2>1 DEF Ends, Goes, Resting, MountGoesOn
<1>3. ASSUME NEW r \in Requests,
             \/ AssemblyFails(r) \/ RegisterPorts(r) \/ BeginAssembly(r) \/ StartScheduler(r) \/ RecoverActions(r)
      PROVE  MountGoesOn(o)
  <2>1. CASE o = r  BY <1>3, <2>1 DEF MountGoesOn
  <2>2. CASE o # r
    <3>1. mount'[o] = mount[o]
      BY <1>0, <1>3, <2>2 DEF AssemblyFails, RegisterPorts, BeginAssembly, StartScheduler, RecoverActions, Ends, Goes
    <3> QED  BY <3>1 DEF MountGoesOn
  <2> QED  BY <2>1, <2>2
<1> QED  BY <1>1, <1>2, <1>3 DEF MountNext, AddFolder, RemoveFolder, ImportSession, DetachProject, DirectoryMoves

\* Who starts a scheduler, or works at the map of orchestrators.
LEMMA SchedulersStep ==
    ASSUME MountNext, ~CoreRestart
    PROVE  /\ UNCHANGED <<schedulers, listed>> \/ \E r \in Requests : StartScheduler(r)
           /\ overlapped \subseteq overlapped' /\ unready \subseteq unready'
           /\ ports \subseteq ports' \/ \E p \in Paths : DetachProject(p)
<1>1. UNCHANGED <<schedulers, listed>> \/ \E r \in Requests : StartScheduler(r)
  BY DEF MountNext, AddFolder, RemoveFolder, ImportSession, ResolveMount, AttachProject, AttachFails, AlreadyAssembled,
    BeginAssembly, RecoverActions, RegisterPorts, AssemblyFails, DetachProject, DirectoryMoves, execution
<1>2. overlapped \subseteq overlapped'
  BY DEF MountNext, AddFolder, RemoveFolder, ImportSession, ResolveMount, AttachProject, AttachFails, AlreadyAssembled,
    BeginAssembly, RecoverActions, RegisterPorts, AssemblyFails, DetachProject, DirectoryMoves, StartScheduler, around
<1>3. unready \subseteq unready'
  BY DEF MountNext, AddFolder, RemoveFolder, ImportSession, ResolveMount, AttachProject, AttachFails, AlreadyAssembled,
    BeginAssembly, RecoverActions, RegisterPorts, AssemblyFails, DetachProject, DirectoryMoves, StartScheduler, around
<1>4. ports \subseteq ports' \/ \E p \in Paths : DetachProject(p)
  BY DEF MountNext, AddFolder, RemoveFolder, ImportSession, ResolveMount, AttachProject, AttachFails, AlreadyAssembled,
    BeginAssembly, RecoverActions, RegisterPorts, AssemblyFails, DirectoryMoves, StartScheduler, execution
<1> QED  BY <1>1, <1>2, <1>3, <1>4

\* One request assembles a project, and its store gets one scheduler.
LEMMA AssemblyStep ==
    ASSUME MountTyping, AssemblyInv, OneScheduler, MountNext
    PROVE  AssemblyInv' /\ OneScheduler'
<1>0. /\ schedulers \in [Paths -> Nat] /\ mount \in [Requests -> [stage : MountStages, path : Paths \cup {NoPath}]]
      /\ \A r \in Requests : ~At(r, "idle") => mount[r].path \in Paths
  BY DEF MountTyping, MountTypeOK
<1>1. CASE CoreRestart  BY <1>1 DEF CoreRestart, Resting, AssemblyInv, OneScheduler, At
<1>2. CASE ~CoreRestart
  <2>1. ASSUME NEW r \in Requests, mount'[r].stage = "assembling"
        PROVE  \/ mount'[r] = mount[r]
               \/ BeginAssembly(r) /\ mount'[r].path = mount[r].path
    <3>1. MountGoesOn(r)  BY <1>2, MountsStep
    <3> QED
      BY <1>0, <2>1, <3>1 DEF MountGoesOn, AssemblyFails, RegisterPorts, BeginAssembly, StartScheduler, RecoverActions,
        Ends, Goes, Resting
  <2>2. overlapped \subseteq overlapped' /\ (UNCHANGED <<schedulers, listed>> \/ \E r \in Requests : StartScheduler(r))
    BY <1>2, SchedulersStep
  <2>3. ASSUME NEW r \in Requests, StartScheduler(r)
        PROVE  /\ mount[r].path \in Paths /\ mount[r].stage = "assembling" /\ mount'[r].stage # "assembling"
               /\ schedulers' = [schedulers EXCEPT ![mount[r].path] = @ + 1]
               /\ listed' = listed \cup {mount[r].path}
    BY <1>0, <2>3 DEF StartScheduler, At, Goes
  <2>4. ASSUME NEW r \in Requests, mount'[r].stage = "assembling"
        PROVE  mount'[r].path \notin listed' \/ mount'[r].path \in overlapped'
    <3>1. CASE mount'[r] = mount[r] /\ UNCHANGED listed  BY <2>2, <2>4, <3>1 DEF AssemblyInv, At
    <3>2. CASE mount'[r] = mount[r] /\ \E o \in Requests : StartScheduler(o)
      BY <2>2, <2>3, <2>4, <3>2 DEF AssemblyInv, At
    <3>3. CASE BeginAssembly(r) /\ mount'[r].path = mount[r].path  BY <3>3 DEF BeginAssembly, Assembled, execution
    <3> QED  BY <2>1, <2>2, <2>4, <3>1, <3>2, <3>3
  <2>5. ASSUME NEW r \in Requests, NEW o \in Requests, r # o, mount'[r].stage = "assembling",
               mount'[o].stage = "assembling", mount'[r].path = mount'[o].path
        PROVE  mount'[r].path \in overlapped'
    <3>1. CASE mount'[r] = mount[r] /\ mount'[o] = mount[o]  BY <2>2, <2>5, <3>1 DEF AssemblyInv, At
    <3>2. ASSUME NEW x \in Requests, NEW y \in Requests, x # y, BeginAssembly(x), mount'[x].path = mount[x].path,
                 mount'[y].stage = "assembling", mount'[y].path = mount'[x].path
          PROVE  mount'[x].path \in overlapped'
      <4>1. mount'[y] = mount[y]  BY <1>0, <3>2 DEF BeginAssembly, Goes
      <4> QED  BY <3>2, <4>1 DEF BeginAssembly, At
    <3> QED  BY <2>1, <2>5, <3>1, <3>2
  <2>6. ASSUME NEW p \in Paths, schedulers'[p] > 1 PROVE p \in overlapped'
    <3>1. CASE schedulers' = schedulers  BY <2>2, <2>6, <3>1 DEF OneScheduler
    <3>2. ASSUME NEW r \in Requests, StartScheduler(r) PROVE p \in overlapped'
      <4>1. CASE p # mount[r].path  BY <1>0, <2>2, <2>3, <2>6, <3>2, <4>1 DEF OneScheduler
      <4>2. CASE p = mount[r].path
        <5>1. schedulers[p] # 0  BY <1>0, <2>3, <2>6, <3>2, <4>2
        <5>2. p \in listed  BY <5>1 DEF AssemblyInv
        <5> QED  BY <2>2, <2>3, <3>2, <4>2, <5>2 DEF AssemblyInv, At
      <4> QED  BY <4>1, <4>2
    <3> QED  BY <2>2, <3>1, <3>2
  <2> QED  BY <2>4, <2>5, <1>0, <2>2, <2>3, <2>6 DEF AssemblyInv, OneScheduler, At
<1> QED  BY <1>1, <1>2

\* A listed project has its ports, or somebody is at it.
LEMMA ListedStep ==
    ASSUME MountTyping, ListedInv, MountNext
    PROVE  ListedInv'
<1>0. /\ mount \in [Requests -> [stage : MountStages, path : Paths \cup {NoPath}]] /\ listed \subseteq Paths
  BY DEF MountTyping, MountTypeOK
<1>1. CASE CoreRestart  BY <1>1 DEF CoreRestart, ListedInv
<1>2. CASE ~CoreRestart
  <2>1. SUFFICES ASSUME NEW p \in listed'
                 PROVE  \/ p \in ports' \cup unready'
                        \/ \E r \in Requests : mount'[r].stage \in {"started", "recovered"} /\ mount'[r].path = p
    BY DEF ListedInv
  <2>2. ASSUME NEW r \in Requests, StartScheduler(r), p \notin listed
        PROVE  mount'[r].stage = "started" /\ mount'[r].path = p
    BY <1>0, <2>1, <2>2 DEF StartScheduler, Goes
  <2>3. CASE p \in listed /\ p \in ports \cup unready
    <3>1. ASSUME NEW q \in Paths, DetachProject(q) PROVE p \in ports' \cup unready'  BY <2>3, <3>1 DEF DetachProject
    <3> QED  BY <1>2, <2>3, <3>1, SchedulersStep
  <2>4. ASSUME NEW r \in Requests, mount[r].stage \in {"started", "recovered"}, mount[r].path = p
        PROVE  \/ p \in ports' \cup unready'
               \/ mount'[r].stage \in {"started", "recovered"} /\ mount'[r].path = p
    <3>1. MountGoesOn(r)  BY <1>2, MountsStep
    <3>2. CASE AssemblyFails(r) \/ RegisterPorts(r)  BY <2>4, <3>2 DEF AssemblyFails, RegisterPorts
    <3>3. CASE BeginAssembly(r) \/ StartScheduler(r)  BY <2>4, <3>3 DEF BeginAssembly, StartScheduler, At
    <3>4. CASE RecoverActions(r)  BY <1>0, <2>4, <3>4 DEF RecoverActions, Goes
    <3> QED  BY <2>4, <3>1, <3>2, <3>3, <3>4 DEF MountGoesOn
  <2> QED  BY <2>2, <2>3, <2>4, <1>2, <2>1, SchedulersStep DEF ListedInv
<1> QED  BY <1>1, <1>2

\* The inductive invariant of ProjectMount: folders, requests, schedulers and ports.
THEOREM MountInductive == MountSpec => []MountInv
<1>1. ASSUME MountInit PROVE MountInv
  <2>1. MountTypeOK
    <3>1. 0 \in 0..MaxMountWork  BY MountAssumption
    <3> QED  BY <1>1, <3>1 DEF MountInit, MountTypeOK
  <2>2. FoldersInv /\ ResolvedInv /\ AssemblyInv /\ ListedInv /\ OneScheduler
    BY <1>1 DEF MountInit, FoldersInv, ResolvedInv, AssemblyInv, ListedInv, OneScheduler, At, Resting
  <2> QED  BY <2>1, <1>1, <2>2 DEF MountInv, MountTyping, MountInit, FolderRows, Resting, MountStages, At
<1>2. ASSUME MountInv, [MountNext]_mountVars PROVE MountInv'
  <2>1. CASE MountNext  BY <1>2, <2>1, MountTypesStep, FoldersStep, ResolvedStep, AssemblyStep, ListedStep DEF MountInv
  <2>2. CASE UNCHANGED mountVars
    BY <1>2, <2>2 DEF mountVars, registry, execution, around, MountInv, MountTyping, MountTypeOK, FoldersInv,
      ResolvedInv, AssemblyInv, ListedInv, OneScheduler, At
  <2> QED  BY <1>2, <2>1, <2>2
<1> QED  BY <1>1, <1>2, PTL DEF MountSpec

\* A folder of one project becomes no root of another, a store has one scheduler, and a project
\* that is listed is ready (MountSafety, for any finite set of paths and of requests).
THEOREM MountIsSafe == MountSpec => []MountSafety
<1>1. MountInv => MountSafety
  <2> SUFFICES ASSUME MountInv PROVE MountSafety  OBVIOUS
  <2>1. FolderIsNoRoot  BY DEF MountInv, FoldersInv, FolderIsNoRoot
  <2>2. ListedIsReady  BY DEF MountInv, ListedInv, ListedIsReady
  <2> QED  BY <2>1, <2>2 DEF MountInv, MountTyping, MountSafety
<1> QED  BY <1>1, MountInductive, PTL

----
(* Sessions that a person starts beside a run.                             *)

AdStatuses == {"none", "starting", "working"} \cup Ended
CreationStages == {"none", "display", "launch", "stdin", "waiter", "reader", "mark",
                   "show", "undo", "undoShown", "compensate", "started", "failed", "lost"}
ExitRecords == [id : AdHocs, good : BOOLEAN]
Pumped(a) == adPump.pc # "idle" /\ adPump.id = a
AwaitedExit(a) == \E i \in DOMAIN exits : exits[i].id = a
Unreported(a) == adReader[a] = "none" /\ ~AwaitedExit(a) /\ ~Pumped(a)
DidIt(a) == adProcess[a].status = "ended" /\ adProcess[a].good

AdHocTyping ==
    /\ AdHocTypeOK
    /\ adPump \in [id : AdHocs \cup {0}, status : {"none"} \cup Ended, pc : {"idle", "row", "shown"}]
    /\ adPump.pc # "idle" => adPump.id \in AdHocs /\ adPump.status \in Ended

\* What is there of a session at each stage of its creation.
CreationOf(a) ==
    /\ creation[a] = "none" => adRow[a] = "none"
    /\ creation[a] \in {"none", "display", "launch"} => adProcess[a].status = "none" /\ a \notin adRegistry
    /\ creation[a] \in {"none", "display", "launch", "stdin", "waiter", "reader", "undo", "undoShown"} =>
         Unreported(a)
    /\ creation[a] \in {"stdin", "waiter", "reader", "mark", "show", "started"} =>
         a \in adRegistry \cup adKilled
    /\ creation[a] = "undoShown" => adRow[a] = "dead"
    /\ creation[a] = "failed" /\ a \notin excused => Unreported(a) /\ adRow[a] = "dead" /\ adShown[a] = "dead"
    /\ creation[a] \in {"compensate", "lost"} => a \in excused
    /\ adRow[a] = "working" => creation[a] \in {"show", "started", "lost"}
    /\ adProcess[a].status = "live" => a \in adRegistry \cup adKilled
    /\ creation[a] \in {"undo", "undoShown", "compensate", "failed"} => a \notin adRegistry

\* A report tells what the process did, and so does the row.
ReportOf(a) ==
    /\ adReader[a] = "yes" => DidIt(a)
    /\ Pumped(a) /\ adPump.status = "done" => DidIt(a) /\ adContract[a] # "never"
    /\ adRow[a] = "done" => DidIt(a) /\ adContract[a] # "never"
GoodExits == \A i \in DOMAIN exits : exits[i].good => DidIt(exits[i].id)

\* A report is on its way until both rows have it.
PumpOf(a) ==
    /\ Pumped(a) /\ adPump.pc = "shown" =>
         adRow[a] \in Ended /\ (a \notin excused => adRow[a] = adPump.status)
    /\ a \notin excused =>
         /\ adRow[a] \in {"starting", "working"} /\ adReader[a] \in {"reported", "over"} =>
              AwaitedExit(a) \/ Pumped(a)
         /\ adRow[a] \in Ended /\ creation[a] = "started" /\ ~Pumped(a) => adShown[a] = adRow[a]

AdHocInv ==
    /\ AdHocTyping /\ GoodExits
    /\ \A a \in AdHocs : CreationOf(a) /\ ReportOf(a) /\ PumpOf(a)

\* A report that is waited for stays in the queue until the pump takes it.
ExitsGo(a) ==
    /\ UNCHANGED exits => (AwaitedExit(a)' <=> AwaitedExit(a))
    /\ \A e \in ExitRecords : exits' = Append(exits, e) => (AwaitedExit(a)' <=> AwaitedExit(a) \/ e.id = a)
    /\ exits # <<>> /\ exits' = Tail(exits) =>
         /\ Head(exits) \in ExitRecords
         /\ AwaitedExit(a)' => AwaitedExit(a)
         /\ AwaitedExit(a) => AwaitedExit(a)' \/ Head(exits).id = a
         /\ Head(exits).id = a => AwaitedExit(a)
    /\ exits' = <<>> => ~AwaitedExit(a)'

\* The queue of exits gets a report at its end and gives one from its head.
LEMMA AwaitedStep ==
    ASSUME exits \in Seq(ExitRecords), NEW a \in AdHocs
    PROVE  ExitsGo(a)
<1>1. ASSUME NEW e \in ExitRecords, exits' = Append(exits, e) PROVE AwaitedExit(a)' <=> AwaitedExit(a) \/ e.id = a
  BY <1>1 DEF AwaitedExit
<1>2. ASSUME exits # <<>>, exits' = Tail(exits)
      PROVE  /\ Head(exits) \in ExitRecords
             /\ AwaitedExit(a)' => AwaitedExit(a)
             /\ AwaitedExit(a) => AwaitedExit(a)' \/ Head(exits).id = a
             /\ Head(exits).id = a => AwaitedExit(a)
  <2>1. /\ DOMAIN exits = 1..Len(exits) /\ DOMAIN exits' = 1..Len(exits) - 1 /\ Len(exits) \in Nat /\ Len(exits) > 0
        /\ \A i \in 1..Len(exits) - 1 : exits'[i] = exits[i + 1]
        /\ exits[1] = Head(exits) /\ Head(exits) \in ExitRecords
    BY <1>2
  <2>2. AwaitedExit(a)' => AwaitedExit(a)  BY <2>1 DEF AwaitedExit
  <2>3. ASSUME NEW i \in 1..Len(exits), exits[i].id = a PROVE AwaitedExit(a)' \/ Head(exits).id = a
    <3>1. CASE i = 1  BY <2>1, <2>3, <3>1
    <3>2. CASE i # 1
      <4>1. i - 1 \in 1..Len(exits) - 1 /\ exits'[i - 1] = exits[i]  BY <2>1, <3>2
      <4> QED  BY <2>1, <2>3, <4>1 DEF AwaitedExit
    <3> QED  BY <3>1, <3>2
  <2>4. Head(exits).id = a => AwaitedExit(a)  BY <2>1 DEF AwaitedExit
  <2> QED  BY <2>1, <2>2, <2>3, <2>4 DEF AwaitedExit
<1>3. exits' = <<>> => ~AwaitedExit(a)'  BY DEF AwaitedExit
<1> QED  BY <1>1, <1>2, <1>3 DEF ExitsGo, AwaitedExit

\* The state of sessions, creations and exits keeps its form.
LEMMA AdHocTypesStep ==
    ASSUME AdHocTyping, [AdHocNext]_adHocVars
    PROVE  AdHocTyping'
<1>0. exits # <<>> => Head(exits) \in ExitRecords
  <2>1. exits \in Seq(ExitRecords)  BY DEF AdHocTyping, AdHocTypeOK, ExitRecords
  <2> QED  BY <2>1
<1>1. ASSUME NEW a \in AdHocs, NEW c \in Contracts, InsertAdHoc(a, c)
      PROVE  AdHocTyping'
  BY ContractsAssumption, <1>1 DEF InsertAdHoc, CreationGoes, adRows, adThreads, adHost, AdHocTyping, AdHocTypeOK, Ended
<1>2. ASSUME NEW a \in AdHocs,
             CreateDisplay(a)
      PROVE  AdHocTyping'
  BY ContractsAssumption, <1>2 DEF CreateDisplay, CreationGoes, adRows, adThreads, adHost, AdHocTyping, AdHocTypeOK,
    Ended
<1>3. ASSUME NEW a \in AdHocs,
             SpawnAdHoc(a)
      PROVE  AdHocTyping'
  BY ContractsAssumption, <1>3 DEF SpawnAdHoc, CreationGoes, adRows, adThreads, adHost, AdHocTyping, AdHocTypeOK, Ended
<1>4. ASSUME NEW a \in AdHocs,
             SpawnAdHocFails(a)
      PROVE  AdHocTyping'
  BY ContractsAssumption, <1>4 DEF SpawnAdHocFails, CreationGoes, adRows, adThreads, adHost, AdHocTyping, AdHocTypeOK,
    Ended
<1>5. ASSUME NEW a \in AdHocs,
             WriteFirstInput(a)
      PROVE  AdHocTyping'
  BY ContractsAssumption, <1>5 DEF WriteFirstInput, CreationGoes, adRows, adThreads, adHost, AdHocTyping, AdHocTypeOK,
    Ended
<1>6. ASSUME NEW a \in AdHocs,
             StartWaiter(a)
      PROVE  AdHocTyping'
  BY ContractsAssumption, <1>6 DEF StartWaiter, CreationGoes, adRows, adThreads, adHost, AdHocTyping, AdHocTypeOK, Ended
<1>7. ASSUME NEW a \in AdHocs,
             StartReader(a)
      PROVE  AdHocTyping'
  BY ContractsAssumption, <1>7 DEF StartReader, CreationGoes, adRows, adThreads, adHost, AdHocTyping, AdHocTypeOK, Ended
<1>8. ASSUME NEW a \in AdHocs,
             LaunchFails(a)
      PROVE  AdHocTyping'
  BY ContractsAssumption, <1>8 DEF LaunchFails, Reap, CreationGoes, adRows, adThreads, adHost, AdHocTyping, AdHocTypeOK,
    Ended
<1>9. ASSUME NEW a \in AdHocs,
             UndoAdHoc(a)
      PROVE  AdHocTyping'
  BY ContractsAssumption, <1>9 DEF UndoAdHoc, CreationGoes, adRows, adThreads, adHost, AdHocTyping, AdHocTypeOK, Ended
<1>10. ASSUME NEW a \in AdHocs,
             UndoShown(a)
      PROVE  AdHocTyping'
  BY ContractsAssumption, <1>10 DEF UndoShown, CreationGoes, adRows, adThreads, adHost, AdHocTyping, AdHocTypeOK, Ended
<1>11. ASSUME NEW a \in AdHocs,
             MarkLaunched(a)
      PROVE  AdHocTyping'
  BY ContractsAssumption, <1>11 DEF MarkLaunched, Working, CreationGoes, adRows, adThreads, adHost, AdHocTyping,
    AdHocTypeOK, Ended
<1>12. ASSUME NEW a \in AdHocs,
             MarkFails(a)
      PROVE  AdHocTyping'
  BY ContractsAssumption, <1>12 DEF MarkFails, KillAdHoc, CreationGoes, adRows, adThreads, adHost, AdHocTyping,
    AdHocTypeOK, Ended
<1>13. ASSUME NEW a \in AdHocs,
             Compensate(a)
      PROVE  AdHocTyping'
  BY ContractsAssumption, <1>13 DEF Compensate, CreationGoes, adRows, adThreads, adHost, AdHocTyping, AdHocTypeOK, Ended
<1>14. ASSUME NEW a \in AdHocs,
             ShowWorking(a)
      PROVE  AdHocTyping'
  BY ContractsAssumption, <1>14 DEF ShowWorking, CreationGoes, adRows, adThreads, adHost, AdHocTyping, AdHocTypeOK,
    Ended
<1>15. ASSUME NEW a \in AdHocs,
             WaiterReaps(a)
      PROVE  AdHocTyping'
  BY ContractsAssumption, <1>15 DEF WaiterReaps, CreationGoes, adRows, adThreads, adHost, AdHocTyping, AdHocTypeOK,
    Ended
<1>16. ASSUME NEW a \in AdHocs,
             ReaderEof(a)
      PROVE  AdHocTyping'
  BY ContractsAssumption, <1>16 DEF ReaderEof, Met, CreationGoes, adRows, adThreads, adHost, AdHocTyping, AdHocTypeOK,
    Ended
<1>17. ASSUME NEW a \in AdHocs,
             ReaderReports(a)
      PROVE  AdHocTyping'
  BY ContractsAssumption, <1>17 DEF ReaderReports, CreationGoes, adRows, adThreads, adHost, AdHocTyping, AdHocTypeOK,
    Ended
<1>18. ASSUME NEW a \in AdHocs,
             ReaderLeaves(a)
      PROVE  AdHocTyping'
  BY ContractsAssumption, <1>18 DEF ReaderLeaves, KillAdHoc, CreationGoes, adRows, adThreads, adHost, AdHocTyping,
    AdHocTypeOK, Ended
<1>19. ASSUME NEW a \in AdHocs,
             StopAdHoc(a)
      PROVE  AdHocTyping'
  BY ContractsAssumption, <1>19 DEF StopAdHoc, KillAdHoc, CreationGoes, adRows, adThreads, adHost, AdHocTyping,
    AdHocTypeOK, Ended
<1>20. ASSUME NEW a \in AdHocs, NEW good \in BOOLEAN, ProcessOver(a, good)
      PROVE  AdHocTyping'
  BY ContractsAssumption, <1>20 DEF ProcessOver, CreationGoes, adRows, adThreads, adHost, AdHocTyping, AdHocTypeOK,
    Ended
<1>21. CASE PumpTakesExit
  <2>1. /\ adPump.pc = "idle" /\ exits # <<>> /\ exits' = Tail(exits) /\ Head(exits) \in ExitRecords
        /\ UNCHANGED <<adRows, adThreads, adHost, excused>>
    BY <1>0, <1>21 DEF PumpTakesExit
  <2>2. CASE StillOpen(Head(exits).id)
    <3>1. adPump' = [id |-> Head(exits).id, status |-> OutcomeOf(Head(exits)), pc |-> "row"]
      BY <1>21, <2>2 DEF PumpTakesExit
    <3>2. OutcomeOf(Head(exits)) \in Ended /\ Head(exits).id \in AdHocs  BY <2>1 DEF OutcomeOf, Ended, ExitRecords
    <3> QED
      BY ContractsAssumption, <2>1, <2>2, <3>1, <3>2 DEF StillOpen, OutcomeOf, CreationGoes, adRows, adThreads, adHost,
        AdHocTyping, AdHocTypeOK, Ended
  <2>3. CASE ~StillOpen(Head(exits).id)
    <3>1. adPump' = [id |-> 0, status |-> "none", pc |-> "idle"]  BY <1>21, <2>3 DEF PumpTakesExit, NoExit
    <3> QED
      BY ContractsAssumption, <2>1, <2>3, <3>1 DEF StillOpen, CreationGoes, adRows, adThreads, adHost, AdHocTyping,
        AdHocTypeOK, Ended
  <2> QED  BY <2>2, <2>3
<1>22. CASE PumpEndsRow
  BY ContractsAssumption, <1>22 DEF PumpEndsRow, CreationGoes, adRows, adThreads, adHost, AdHocTyping, AdHocTypeOK,
    Ended
<1>23. CASE PumpEndsShown
  BY ContractsAssumption, <1>23 DEF PumpEndsShown, NoExit, CreationGoes, adRows, adThreads, adHost, AdHocTyping,
    AdHocTypeOK, Ended
<1>24. CASE RestartCore
  BY ContractsAssumption, <1>24 DEF RestartCore, NoExit, CreationGoes, adRows, adThreads, adHost, AdHocTyping,
    AdHocTypeOK, Ended
<1>25. CASE UNCHANGED adHocVars
  BY ContractsAssumption, <1>25 DEF adHocVars, adRows, adThreads, adHost, AdHocTyping, AdHocTypeOK, Ended
<1> QED  BY <1>1, <1>2, <1>3, <1>4, <1>5, <1>6, <1>7, <1>8, <1>9, <1>10, <1>11, <1>12, <1>13, <1>14,
            <1>15, <1>16, <1>17, <1>18, <1>19, <1>20, <1>21, <1>22, <1>23, <1>24, <1>25
            DEF AdHocNext

\* What there is of a session fits the stage of its creation, after every step.
LEMMA CreationStep ==
    ASSUME AdHocInv, [AdHocNext]_adHocVars, NEW b \in AdHocs
    PROVE  CreationOf(b)'
<1>0. /\ AdHocTyping /\ CreationOf(b) /\ ReportOf(b) /\ PumpOf(b) /\ ExitsGo(b)
  BY AwaitedStep DEF AdHocInv, AdHocTyping, AdHocTypeOK, ExitRecords
<1>a. /\ GoodExits /\ (exits # <<>> => Head(exits) \in ExitRecords /\ (Head(exits).good => DidIt(Head(exits).id)))
  <2>1. exits # <<>> => 1 \in DOMAIN exits /\ Head(exits) = exits[1] /\ exits \in Seq(ExitRecords)
    BY DEF AdHocInv, AdHocTyping, AdHocTypeOK, ExitRecords
  <2> QED  BY <2>1 DEF AdHocInv, GoodExits
<1>b. ASSUME NEW a \in AdHocs, ReaderReports(a) PROVE AwaitedExit(b)' <=> AwaitedExit(b) \/ a = b
  <2>1. [id |-> a, good |-> adReader[a] = "yes"] \in ExitRecords  BY DEF ExitRecords
  <2> QED  BY <1>0, <1>b, <2>1 DEF ExitsGo, ReaderReports
<1>1. ASSUME NEW a \in AdHocs, NEW c \in Contracts, InsertAdHoc(a, c)
      PROVE  CreationOf(b)'
  BY <1>0, <1>a, <1>1 DEF InsertAdHoc, CreationGoes, adRows, adThreads, adHost, ExitsGo, CreationOf, ReportOf, PumpOf,
    Pumped, Unreported, DidIt, AdHocTyping, AdHocTypeOK, Ended, ExitRecords
<1>2. ASSUME NEW a \in AdHocs,
             CreateDisplay(a) \/ SpawnAdHoc(a) \/ SpawnAdHocFails(a) \/ WriteFirstInput(a) \/
               StartWaiter(a) \/ StartReader(a)
      PROVE  CreationOf(b)'
  BY <1>0, <1>a, <1>2 DEF CreateDisplay, SpawnAdHoc, SpawnAdHocFails, WriteFirstInput, StartWaiter, StartReader,
    CreationGoes, adRows, adThreads, adHost, ExitsGo, CreationOf, ReportOf, PumpOf, Pumped, Unreported, DidIt,
    AdHocTyping, AdHocTypeOK, Ended, ExitRecords
<1>3. ASSUME NEW a \in AdHocs,
             LaunchFails(a) \/ UndoAdHoc(a) \/ UndoShown(a)
      PROVE  CreationOf(b)'
  BY <1>0, <1>a, <1>3 DEF LaunchFails, UndoAdHoc, UndoShown, Reap, CreationGoes, adRows, adThreads, adHost, ExitsGo,
    CreationOf, ReportOf, PumpOf, Pumped, Unreported, DidIt, AdHocTyping, AdHocTypeOK, Ended, ExitRecords
<1>4. ASSUME NEW a \in AdHocs,
             MarkLaunched(a) \/ MarkFails(a) \/ Compensate(a) \/ ShowWorking(a)
      PROVE  CreationOf(b)'
  BY <1>0, <1>a, <1>4 DEF MarkLaunched, MarkFails, Compensate, ShowWorking, Working, KillAdHoc, CreationGoes, adRows,
    adThreads, adHost, ExitsGo, CreationOf, ReportOf, PumpOf, Pumped, Unreported, DidIt, AdHocTyping, AdHocTypeOK,
    Ended, ExitRecords
<1>5. ASSUME NEW a \in AdHocs,
             WaiterReaps(a) \/ ReaderEof(a)
      PROVE  CreationOf(b)'
  BY <1>0, <1>a, <1>5 DEF WaiterReaps, ReaderEof, Met, CreationGoes, adRows, adThreads, adHost, ExitsGo, CreationOf,
    ReportOf, PumpOf, Pumped, Unreported, DidIt, AdHocTyping, AdHocTypeOK, Ended, ExitRecords
<1>6. ASSUME NEW a \in AdHocs,
             ReaderReports(a)
      PROVE  CreationOf(b)'
  BY <1>0, <1>b, <1>6 DEF ReaderReports, CreationGoes, adRows, adThreads, adHost, CreationOf, ReportOf, PumpOf, Pumped,
    Unreported, DidIt, AdHocTyping, AdHocTypeOK, Ended, ExitRecords
<1>7. ASSUME NEW a \in AdHocs,
             ReaderLeaves(a) \/ StopAdHoc(a)
      PROVE  CreationOf(b)'
  BY <1>0, <1>a, <1>7 DEF ReaderLeaves, StopAdHoc, KillAdHoc, CreationGoes, adRows, adThreads, adHost, ExitsGo,
    CreationOf, ReportOf, PumpOf, Pumped, Unreported, DidIt, AdHocTyping, AdHocTypeOK, Ended, ExitRecords
<1>8. ASSUME NEW a \in AdHocs, NEW good \in BOOLEAN, ProcessOver(a, good)
      PROVE  CreationOf(b)'
  BY <1>0, <1>a, <1>8 DEF ProcessOver, CreationGoes, adRows, adThreads, adHost, ExitsGo, CreationOf, ReportOf, PumpOf,
    Pumped, Unreported, DidIt, AdHocTyping, AdHocTypeOK, Ended, ExitRecords
<1>9. CASE PumpTakesExit
  <2>1. /\ adPump.pc = "idle" /\ exits # <<>> /\ exits' = Tail(exits) /\ Head(exits) \in ExitRecords
        /\ UNCHANGED <<adRows, adThreads, adHost, excused>>
    BY <1>0, <1>a, <1>9 DEF PumpTakesExit
  <2>2. CASE StillOpen(Head(exits).id)
    <3>1. adPump' = [id |-> Head(exits).id, status |-> OutcomeOf(Head(exits)), pc |-> "row"]
      BY <1>9, <2>2 DEF PumpTakesExit
    <3> QED
      BY <1>0, <1>a, <2>1, <2>2, <3>1 DEF StillOpen, OutcomeOf, CreationGoes, adRows, adThreads, adHost, ExitsGo,
        CreationOf, ReportOf, PumpOf, Pumped, Unreported, DidIt, AdHocTyping, AdHocTypeOK, Ended, ExitRecords
  <2>3. CASE ~StillOpen(Head(exits).id)
    <3>1. adPump' = [id |-> 0, status |-> "none", pc |-> "idle"]  BY <1>9, <2>3 DEF PumpTakesExit, NoExit
    <3> QED
      BY <1>0, <1>a, <2>1, <2>3, <3>1 DEF StillOpen, CreationGoes, adRows, adThreads, adHost, ExitsGo, CreationOf,
        ReportOf, PumpOf, Pumped, Unreported, DidIt, AdHocTyping, AdHocTypeOK, Ended, ExitRecords
  <2> QED  BY <2>2, <2>3
<1>10. CASE PumpEndsRow \/ PumpEndsShown
  BY <1>0, <1>a, <1>10 DEF PumpEndsRow, PumpEndsShown, NoExit, CreationGoes, adRows, adThreads, adHost, ExitsGo,
    CreationOf, ReportOf, PumpOf, Pumped, Unreported, DidIt, AdHocTyping, AdHocTypeOK, Ended, ExitRecords
<1>11. CASE RestartCore
  BY <1>0, <1>a, <1>11 DEF RestartCore, NoExit, CreationGoes, adRows, adThreads, adHost, ExitsGo, CreationOf, ReportOf,
    PumpOf, Pumped, Unreported, DidIt, AdHocTyping, AdHocTypeOK, Ended, ExitRecords
<1>12. CASE UNCHANGED adHocVars
  BY <1>0, <1>a, <1>12 DEF adHocVars, adRows, adThreads, adHost, ExitsGo, CreationOf, ReportOf, PumpOf, Pumped,
    Unreported, DidIt, AdHocTyping, AdHocTypeOK, Ended, ExitRecords
<1> QED  BY <1>1, <1>2, <1>3, <1>4, <1>5, <1>6, <1>7, <1>8, <1>9, <1>10, <1>11, <1>12 DEF AdHocNext

\* A report that is on its way, and a row that is done, say what the process did.
LEMMA ReportStep ==
    ASSUME AdHocInv, [AdHocNext]_adHocVars, NEW b \in AdHocs
    PROVE  ReportOf(b)'
<1>0. /\ AdHocTyping /\ CreationOf(b) /\ ReportOf(b) /\ PumpOf(b) /\ ExitsGo(b)
  BY AwaitedStep DEF AdHocInv, AdHocTyping, AdHocTypeOK, ExitRecords
<1>a. /\ GoodExits /\ (exits # <<>> => Head(exits) \in ExitRecords /\ (Head(exits).good => DidIt(Head(exits).id)))
  <2>1. exits # <<>> => 1 \in DOMAIN exits /\ Head(exits) = exits[1] /\ exits \in Seq(ExitRecords)
    BY DEF AdHocInv, AdHocTyping, AdHocTypeOK, ExitRecords
  <2> QED  BY <2>1 DEF AdHocInv, GoodExits
<1>b. ASSUME NEW a \in AdHocs, ReaderReports(a) PROVE AwaitedExit(b)' <=> AwaitedExit(b) \/ a = b
  <2>1. [id |-> a, good |-> adReader[a] = "yes"] \in ExitRecords  BY DEF ExitRecords
  <2> QED  BY <1>0, <1>b, <2>1 DEF ExitsGo, ReaderReports
<1>1. ASSUME NEW a \in AdHocs, NEW c \in Contracts, InsertAdHoc(a, c)
      PROVE  ReportOf(b)'
  BY <1>0, <1>a, <1>1 DEF InsertAdHoc, CreationGoes, adRows, adThreads, adHost, ExitsGo, CreationOf, ReportOf, PumpOf,
    Pumped, Unreported, DidIt, AdHocTyping, AdHocTypeOK, Ended, ExitRecords
<1>2. ASSUME NEW a \in AdHocs,
             CreateDisplay(a) \/ SpawnAdHoc(a) \/ SpawnAdHocFails(a) \/ WriteFirstInput(a) \/
               StartWaiter(a) \/ StartReader(a)
      PROVE  ReportOf(b)'
  BY <1>0, <1>a, <1>2 DEF CreateDisplay, SpawnAdHoc, SpawnAdHocFails, WriteFirstInput, StartWaiter, StartReader,
    CreationGoes, adRows, adThreads, adHost, ExitsGo, CreationOf, ReportOf, PumpOf, Pumped, Unreported, DidIt,
    AdHocTyping, AdHocTypeOK, Ended, ExitRecords
<1>3. ASSUME NEW a \in AdHocs,
             LaunchFails(a) \/ UndoAdHoc(a) \/ UndoShown(a)
      PROVE  ReportOf(b)'
  BY <1>0, <1>a, <1>3 DEF LaunchFails, UndoAdHoc, UndoShown, Reap, CreationGoes, adRows, adThreads, adHost, ExitsGo,
    CreationOf, ReportOf, PumpOf, Pumped, Unreported, DidIt, AdHocTyping, AdHocTypeOK, Ended, ExitRecords
<1>4. ASSUME NEW a \in AdHocs,
             MarkLaunched(a) \/ MarkFails(a) \/ Compensate(a) \/ ShowWorking(a)
      PROVE  ReportOf(b)'
  BY <1>0, <1>a, <1>4 DEF MarkLaunched, MarkFails, Compensate, ShowWorking, Working, KillAdHoc, CreationGoes, adRows,
    adThreads, adHost, ExitsGo, CreationOf, ReportOf, PumpOf, Pumped, Unreported, DidIt, AdHocTyping, AdHocTypeOK,
    Ended, ExitRecords
<1>5. ASSUME NEW a \in AdHocs,
             WaiterReaps(a) \/ ReaderEof(a)
      PROVE  ReportOf(b)'
  BY <1>0, <1>a, <1>5 DEF WaiterReaps, ReaderEof, Met, CreationGoes, adRows, adThreads, adHost, ExitsGo, CreationOf,
    ReportOf, PumpOf, Pumped, Unreported, DidIt, AdHocTyping, AdHocTypeOK, Ended, ExitRecords
<1>6. ASSUME NEW a \in AdHocs,
             ReaderReports(a)
      PROVE  ReportOf(b)'
  BY <1>0, <1>b, <1>6 DEF ReaderReports, CreationGoes, adRows, adThreads, adHost, CreationOf, ReportOf, PumpOf, Pumped,
    Unreported, DidIt, AdHocTyping, AdHocTypeOK, Ended, ExitRecords
<1>7. ASSUME NEW a \in AdHocs,
             ReaderLeaves(a) \/ StopAdHoc(a)
      PROVE  ReportOf(b)'
  BY <1>0, <1>a, <1>7 DEF ReaderLeaves, StopAdHoc, KillAdHoc, CreationGoes, adRows, adThreads, adHost, ExitsGo,
    CreationOf, ReportOf, PumpOf, Pumped, Unreported, DidIt, AdHocTyping, AdHocTypeOK, Ended, ExitRecords
<1>8. ASSUME NEW a \in AdHocs, NEW good \in BOOLEAN, ProcessOver(a, good)
      PROVE  ReportOf(b)'
  BY <1>0, <1>a, <1>8 DEF ProcessOver, CreationGoes, adRows, adThreads, adHost, ExitsGo, CreationOf, ReportOf, PumpOf,
    Pumped, Unreported, DidIt, AdHocTyping, AdHocTypeOK, Ended, ExitRecords
<1>9. CASE PumpTakesExit
  <2>1. /\ adPump.pc = "idle" /\ exits # <<>> /\ exits' = Tail(exits) /\ Head(exits) \in ExitRecords
        /\ UNCHANGED <<adRows, adThreads, adHost, excused>>
    BY <1>0, <1>a, <1>9 DEF PumpTakesExit
  <2>2. CASE StillOpen(Head(exits).id)
    <3>1. adPump' = [id |-> Head(exits).id, status |-> OutcomeOf(Head(exits)), pc |-> "row"]
      BY <1>9, <2>2 DEF PumpTakesExit
    <3> QED
      BY <1>0, <1>a, <2>1, <2>2, <3>1 DEF StillOpen, OutcomeOf, CreationGoes, adRows, adThreads, adHost, ExitsGo,
        CreationOf, ReportOf, PumpOf, Pumped, Unreported, DidIt, AdHocTyping, AdHocTypeOK, Ended, ExitRecords
  <2>3. CASE ~StillOpen(Head(exits).id)
    <3>1. adPump' = [id |-> 0, status |-> "none", pc |-> "idle"]  BY <1>9, <2>3 DEF PumpTakesExit, NoExit
    <3> QED
      BY <1>0, <1>a, <2>1, <2>3, <3>1 DEF StillOpen, CreationGoes, adRows, adThreads, adHost, ExitsGo, CreationOf,
        ReportOf, PumpOf, Pumped, Unreported, DidIt, AdHocTyping, AdHocTypeOK, Ended, ExitRecords
  <2> QED  BY <2>2, <2>3
<1>10. CASE PumpEndsRow \/ PumpEndsShown
  BY <1>0, <1>a, <1>10 DEF PumpEndsRow, PumpEndsShown, NoExit, CreationGoes, adRows, adThreads, adHost, ExitsGo,
    CreationOf, ReportOf, PumpOf, Pumped, Unreported, DidIt, AdHocTyping, AdHocTypeOK, Ended, ExitRecords
<1>11. CASE RestartCore
  BY <1>0, <1>a, <1>11 DEF RestartCore, NoExit, CreationGoes, adRows, adThreads, adHost, ExitsGo, CreationOf, ReportOf,
    PumpOf, Pumped, Unreported, DidIt, AdHocTyping, AdHocTypeOK, Ended, ExitRecords
<1>12. CASE UNCHANGED adHocVars
  BY <1>0, <1>a, <1>12 DEF adHocVars, adRows, adThreads, adHost, ExitsGo, CreationOf, ReportOf, PumpOf, Pumped,
    Unreported, DidIt, AdHocTyping, AdHocTypeOK, Ended, ExitRecords
<1> QED  BY <1>1, <1>2, <1>3, <1>4, <1>5, <1>6, <1>7, <1>8, <1>9, <1>10, <1>11, <1>12 DEF AdHocNext

\* A report is on its way until both rows have it.
LEMMA PumpStep ==
    ASSUME AdHocInv, [AdHocNext]_adHocVars, NEW b \in AdHocs
    PROVE  PumpOf(b)'
<1>0. /\ AdHocTyping /\ CreationOf(b) /\ ReportOf(b) /\ PumpOf(b) /\ ExitsGo(b)
  BY AwaitedStep DEF AdHocInv, AdHocTyping, AdHocTypeOK, ExitRecords
<1>a. /\ GoodExits /\ (exits # <<>> => Head(exits) \in ExitRecords /\ (Head(exits).good => DidIt(Head(exits).id)))
  <2>1. exits # <<>> => 1 \in DOMAIN exits /\ Head(exits) = exits[1] /\ exits \in Seq(ExitRecords)
    BY DEF AdHocInv, AdHocTyping, AdHocTypeOK, ExitRecords
  <2> QED  BY <2>1 DEF AdHocInv, GoodExits
<1>b. ASSUME NEW a \in AdHocs, ReaderReports(a) PROVE AwaitedExit(b)' <=> AwaitedExit(b) \/ a = b
  <2>1. [id |-> a, good |-> adReader[a] = "yes"] \in ExitRecords  BY DEF ExitRecords
  <2> QED  BY <1>0, <1>b, <2>1 DEF ExitsGo, ReaderReports
<1>1. ASSUME NEW a \in AdHocs, NEW c \in Contracts, InsertAdHoc(a, c)
      PROVE  PumpOf(b)'
  BY <1>0, <1>a, <1>1 DEF InsertAdHoc, CreationGoes, adRows, adThreads, adHost, ExitsGo, CreationOf, ReportOf, PumpOf,
    Pumped, Unreported, DidIt, AdHocTyping, AdHocTypeOK, Ended, ExitRecords
<1>2. ASSUME NEW a \in AdHocs,
             CreateDisplay(a) \/ SpawnAdHoc(a) \/ SpawnAdHocFails(a) \/ WriteFirstInput(a) \/
               StartWaiter(a) \/ StartReader(a)
      PROVE  PumpOf(b)'
  BY <1>0, <1>a, <1>2 DEF CreateDisplay, SpawnAdHoc, SpawnAdHocFails, WriteFirstInput, StartWaiter, StartReader,
    CreationGoes, adRows, adThreads, adHost, ExitsGo, CreationOf, ReportOf, PumpOf, Pumped, Unreported, DidIt,
    AdHocTyping, AdHocTypeOK, Ended, ExitRecords
<1>3. ASSUME NEW a \in AdHocs,
             LaunchFails(a) \/ UndoAdHoc(a) \/ UndoShown(a)
      PROVE  PumpOf(b)'
  BY <1>0, <1>a, <1>3 DEF LaunchFails, UndoAdHoc, UndoShown, Reap, CreationGoes, adRows, adThreads, adHost, ExitsGo,
    CreationOf, ReportOf, PumpOf, Pumped, Unreported, DidIt, AdHocTyping, AdHocTypeOK, Ended, ExitRecords
<1>4. ASSUME NEW a \in AdHocs,
             MarkLaunched(a) \/ MarkFails(a) \/ Compensate(a) \/ ShowWorking(a)
      PROVE  PumpOf(b)'
  BY <1>0, <1>a, <1>4 DEF MarkLaunched, MarkFails, Compensate, ShowWorking, Working, KillAdHoc, CreationGoes, adRows,
    adThreads, adHost, ExitsGo, CreationOf, ReportOf, PumpOf, Pumped, Unreported, DidIt, AdHocTyping, AdHocTypeOK,
    Ended, ExitRecords
<1>5. ASSUME NEW a \in AdHocs,
             WaiterReaps(a) \/ ReaderEof(a)
      PROVE  PumpOf(b)'
  BY <1>0, <1>a, <1>5 DEF WaiterReaps, ReaderEof, Met, CreationGoes, adRows, adThreads, adHost, ExitsGo, CreationOf,
    ReportOf, PumpOf, Pumped, Unreported, DidIt, AdHocTyping, AdHocTypeOK, Ended, ExitRecords
<1>6. ASSUME NEW a \in AdHocs,
             ReaderReports(a)
      PROVE  PumpOf(b)'
  BY <1>0, <1>b, <1>6 DEF ReaderReports, CreationGoes, adRows, adThreads, adHost, CreationOf, ReportOf, PumpOf, Pumped,
    Unreported, DidIt, AdHocTyping, AdHocTypeOK, Ended, ExitRecords
<1>7. ASSUME NEW a \in AdHocs,
             ReaderLeaves(a) \/ StopAdHoc(a)
      PROVE  PumpOf(b)'
  BY <1>0, <1>a, <1>7 DEF ReaderLeaves, StopAdHoc, KillAdHoc, CreationGoes, adRows, adThreads, adHost, ExitsGo,
    CreationOf, ReportOf, PumpOf, Pumped, Unreported, DidIt, AdHocTyping, AdHocTypeOK, Ended, ExitRecords
<1>8. ASSUME NEW a \in AdHocs, NEW good \in BOOLEAN, ProcessOver(a, good)
      PROVE  PumpOf(b)'
  BY <1>0, <1>a, <1>8 DEF ProcessOver, CreationGoes, adRows, adThreads, adHost, ExitsGo, CreationOf, ReportOf, PumpOf,
    Pumped, Unreported, DidIt, AdHocTyping, AdHocTypeOK, Ended, ExitRecords
<1>9. CASE PumpTakesExit
  <2>1. /\ adPump.pc = "idle" /\ exits # <<>> /\ exits' = Tail(exits) /\ Head(exits) \in ExitRecords
        /\ UNCHANGED <<adRows, adThreads, adHost, excused>>
    BY <1>0, <1>a, <1>9 DEF PumpTakesExit
  <2>2. CASE StillOpen(Head(exits).id)
    <3>1. adPump' = [id |-> Head(exits).id, status |-> OutcomeOf(Head(exits)), pc |-> "row"]
      BY <1>9, <2>2 DEF PumpTakesExit
    <3> QED
      BY <1>0, <1>a, <2>1, <2>2, <3>1 DEF StillOpen, OutcomeOf, CreationGoes, adRows, adThreads, adHost, ExitsGo,
        CreationOf, ReportOf, PumpOf, Pumped, Unreported, DidIt, AdHocTyping, AdHocTypeOK, Ended, ExitRecords
  <2>3. CASE ~StillOpen(Head(exits).id)
    <3>1. adPump' = [id |-> 0, status |-> "none", pc |-> "idle"]  BY <1>9, <2>3 DEF PumpTakesExit, NoExit
    <3> QED
      BY <1>0, <1>a, <2>1, <2>3, <3>1 DEF StillOpen, CreationGoes, adRows, adThreads, adHost, ExitsGo, CreationOf,
        ReportOf, PumpOf, Pumped, Unreported, DidIt, AdHocTyping, AdHocTypeOK, Ended, ExitRecords
  <2> QED  BY <2>2, <2>3
<1>10. CASE PumpEndsRow \/ PumpEndsShown
  BY <1>0, <1>a, <1>10 DEF PumpEndsRow, PumpEndsShown, NoExit, CreationGoes, adRows, adThreads, adHost, ExitsGo,
    CreationOf, ReportOf, PumpOf, Pumped, Unreported, DidIt, AdHocTyping, AdHocTypeOK, Ended, ExitRecords
<1>11. CASE RestartCore
  BY <1>0, <1>a, <1>11 DEF RestartCore, NoExit, CreationGoes, adRows, adThreads, adHost, ExitsGo, CreationOf, ReportOf,
    PumpOf, Pumped, Unreported, DidIt, AdHocTyping, AdHocTypeOK, Ended, ExitRecords
<1>12. CASE UNCHANGED adHocVars
  BY <1>0, <1>a, <1>12 DEF adHocVars, adRows, adThreads, adHost, ExitsGo, CreationOf, ReportOf, PumpOf, Pumped,
    Unreported, DidIt, AdHocTyping, AdHocTypeOK, Ended, ExitRecords
<1> QED  BY <1>1, <1>2, <1>3, <1>4, <1>5, <1>6, <1>7, <1>8, <1>9, <1>10, <1>11, <1>12 DEF AdHocNext

\* A process that ended well goes on having ended well.
LEMMA DidItStays ==
    ASSUME AdHocInv, [AdHocNext]_adHocVars, NEW b \in AdHocs, DidIt(b)
    PROVE  DidIt(b)'
<1>0. /\ adProcess \in [AdHocs -> [status : {"none", "live", "ended"}, good : BOOLEAN]]
      /\ \A a \in AdHocs : creation[a] = "launch" => adProcess[a].status = "none"
  BY DEF AdHocInv, AdHocTyping, AdHocTypeOK, CreationOf
<1>1. ASSUME NEW a \in AdHocs, SpawnAdHoc(a)
      PROVE  DidIt(b)'
  BY <1>0, <1>1 DEF SpawnAdHoc, CreationGoes, DidIt
<1>2. ASSUME NEW a \in AdHocs, NEW good \in BOOLEAN, ProcessOver(a, good)
      PROVE  DidIt(b)'
  BY <1>0, <1>2 DEF ProcessOver, DidIt
<1>3. CASE RestartCore  BY <1>0, <1>3 DEF RestartCore, DidIt
<1>4. CASE UNCHANGED adProcess  BY <1>4 DEF DidIt
<1> QED
  BY <1>1, <1>2, <1>3, <1>4 DEF AdHocNext, InsertAdHoc, CreateDisplay, SpawnAdHocFails, WriteFirstInput, StartWaiter,
    StartReader, LaunchFails, UndoAdHoc, UndoShown, MarkLaunched, MarkFails, Compensate, ShowWorking, WaiterReaps,
    ReaderEof, ReaderReports, ReaderLeaves, StopAdHoc, PumpTakesExit, PumpEndsRow, PumpEndsShown, adHocVars, adHost

\* Every good exit in the queue is of a process that ended well.
LEMMA GoodExitsStep ==
    ASSUME AdHocInv, [AdHocNext]_adHocVars
    PROVE  GoodExits'
<1>0. /\ exits \in Seq(ExitRecords) /\ GoodExits
      /\ \A a \in AdHocs : DidIt(a) => DidIt(a)'
      /\ \A a \in AdHocs : adReader[a] = "yes" => DidIt(a)
  <2>1. \A a \in AdHocs : DidIt(a) => DidIt(a)'  BY DidItStays
  <2> QED  BY <2>1 DEF AdHocInv, ReportOf, AdHocTyping, AdHocTypeOK, ExitRecords
<1>1. CASE UNCHANGED exits
  <2>1. \A i \in DOMAIN exits : exits[i] \in ExitRecords  BY <1>0
  <2> QED  BY <1>0, <1>1, <2>1 DEF GoodExits, ExitRecords
<1>2. ASSUME NEW a \in AdHocs, ReaderReports(a)
      PROVE  GoodExits'
  <2>0. PICK e \in ExitRecords : exits' = Append(exits, e) /\ e.id = a /\ (e.good <=> adReader[a] = "yes")
    <3>1. [id |-> a, good |-> adReader[a] = "yes"] \in ExitRecords  BY DEF ExitRecords
    <3> QED  BY <1>2, <3>1 DEF ReaderReports
  <2>1. /\ DOMAIN exits' = 1..Len(exits) + 1 /\ Len(exits) \in Nat /\ exits'[Len(exits) + 1] = e
        /\ \A i \in 1..Len(exits) : i \in DOMAIN exits /\ exits'[i] = exits[i] /\ exits[i] \in ExitRecords
    BY <1>0, <2>0
  <2>2. ASSUME NEW i \in 1..Len(exits) + 1, exits'[i].good
        PROVE  adProcess'[exits'[i].id].status = "ended" /\ adProcess'[exits'[i].id].good
    <3>1. CASE i = Len(exits) + 1
      <4>1. DidIt(a)'  BY <1>0, <2>0, <2>1, <2>2, <3>1
      <4> QED  BY <2>0, <2>1, <3>1, <4>1 DEF DidIt
    <3>2. CASE i # Len(exits) + 1
      <4>1. i \in 1..Len(exits)  BY <2>1, <3>2
      <4> QED  BY <1>0, <2>1, <2>2, <4>1 DEF DidIt, GoodExits, ExitRecords
    <3> QED  BY <3>1, <3>2
  <2> QED  BY <2>1, <2>2 DEF GoodExits, DidIt
<1>3. CASE PumpTakesExit
  <2>1. exits # <<>> /\ exits' = Tail(exits)  BY <1>3 DEF PumpTakesExit
  <2>2. /\ DOMAIN exits' = 1..Len(exits) - 1 /\ Len(exits) \in Nat
        /\ \A i \in 1..Len(exits) - 1 : i + 1 \in DOMAIN exits /\ exits'[i] = exits[i + 1]
                                        /\ exits[i + 1] \in ExitRecords
    BY <1>0, <2>1
  <2> QED  BY <1>0, <2>2 DEF GoodExits, ExitRecords
<1>4. CASE RestartCore  BY <1>4 DEF RestartCore, GoodExits
<1> QED
  BY <1>1, <1>2, <1>3, <1>4 DEF AdHocNext, InsertAdHoc, CreateDisplay, SpawnAdHoc, SpawnAdHocFails, WriteFirstInput,
    StartWaiter, StartReader, LaunchFails, UndoAdHoc, UndoShown, MarkLaunched, MarkFails, Compensate, ShowWorking,
    ProcessOver, WaiterReaps, ReaderEof, ReaderLeaves, StopAdHoc, PumpEndsRow, PumpEndsShown, adHocVars

\* The inductive invariant of AdHocSession: what there is at each stage of the creation, what a
\* report says, and where it is until both rows have it.
THEOREM AdHocInductive ==
    AdHocSpec => []AdHocInv
<1>1. ASSUME AdHocInit
      PROVE  AdHocInv
  <2>1. /\ \A a \in AdHocs : adRow[a] = "none" /\ adShown[a] = "none" /\ creation[a] = "none"
                             /\ adProcess[a].status = "none" /\ adReader[a] = "none"
        /\ adRegistry = {} /\ exits = <<>> /\ adPump.pc = "idle"
    BY <1>1 DEF AdHocInit, NoExit
  <2>2. AdHocTyping  BY <1>1, <2>1 DEF AdHocInit, AdHocTyping, AdHocTypeOK, NoExit, Ended
  <2>3. GoodExits /\ \A a \in AdHocs : Unreported(a) /\ ~Pumped(a)
    BY <2>1 DEF GoodExits, Unreported, AwaitedExit, Pumped
  <2> QED  BY <2>1, <2>2, <2>3 DEF AdHocInv, CreationOf, ReportOf, PumpOf, Ended
<1>2. AdHocInv /\ [AdHocNext]_adHocVars => AdHocInv'
  <2> SUFFICES ASSUME AdHocInv, [AdHocNext]_adHocVars PROVE AdHocInv'  OBVIOUS
  <2>1. AdHocTyping' /\ GoodExits'  BY AdHocTypesStep, GoodExitsStep DEF AdHocInv
  <2> QED  BY <2>1, CreationStep, ReportStep, PumpStep DEF AdHocInv
<1> QED  BY <1>1, <1>2, PTL DEF AdHocSpec

\* A session that a person starts (create_ad_hoc_session, launch_ad_hoc_pty, apply_ad_hoc_exit): a
\* creation that was answered with an error leaves no process behind, the end of a process comes to
\* both rows, and a session is done only if its process did what the contract asks - for any number
\* of sessions.
THEOREM AdHocIsSafe ==
    AdHocSpec => []AdHocSafety
<1>1. ASSUME AdHocInv
      PROVE  AdHocSafety
  <2>1. AdHocTypeOK  BY <1>1 DEF AdHocInv, AdHocTyping
  <2>2. NoOrphan /\ DoneMeansMet  BY <1>1 DEF AdHocInv, CreationOf, ReportOf, DidIt, NoOrphan, DoneMeansMet
  <2>3. ASSUME NEW a \in AdHocs, a \notin excused
        PROVE  /\ adRow[a] = "working" => a \in adRegistry \cup adKilled
               /\ adRow[a] \in {"starting", "working"} /\ adReader[a] \in {"reported", "over"} =>
                    (\E i \in DOMAIN exits : exits[i].id = a) \/ adPump.id = a
               /\ adRow[a] \in Ended /\ creation[a] \in {"started", "failed"} /\ adPump.id # a =>
                    adShown[a] = adRow[a]
    <3>1. CreationOf(a) /\ PumpOf(a)  BY <1>1 DEF AdHocInv
    <3> QED  BY <2>3, <3>1 DEF PumpOf, AwaitedExit, Pumped, CreationOf
  <2>4. EndIsReported  BY <2>3 DEF EndIsReported
  <2> QED  BY <2>1, <2>2, <2>4 DEF AdHocSafety
<1> QED  BY <1>1, AdHocInductive, PTL

\* No step brings a session back that has ended (apply_ad_hoc_exit and the creation in either
\* order), for any number of sessions.
THEOREM AdHocEndStays ==
    AdHocSpec => EndedStays
<1>1. ASSUME AdHocInv, [AdHocNext]_adHocVars
      PROVE  [\A a \in AdHocs : adRow[a] \in Ended => adRow'[a] \in Ended]_adRow
  <2> SUFFICES ASSUME NEW b \in AdHocs, adRow[b] \in Ended PROVE adRow'[b] \in Ended  OBVIOUS
  <2>0. /\ adRow \in [AdHocs -> AdStatuses]
        /\ \A a \in AdHocs : creation[a] = "none" => adRow[a] = "none"
        /\ adPump.pc = "row" => adPump.status \in Ended
    BY <1>1 DEF AdHocInv, AdHocTyping, AdHocTypeOK, AdStatuses, CreationOf
  <2>1. ASSUME NEW a \in AdHocs, NEW c \in Contracts, InsertAdHoc(a, c)
        PROVE  adRow'[b] \in Ended
    BY <2>0, <2>1 DEF InsertAdHoc, CreationGoes, Ended
  <2>2. ASSUME NEW a \in AdHocs, UndoAdHoc(a) \/ MarkLaunched(a) \/ Compensate(a)
        PROVE  adRow'[b] \in Ended
    BY <2>0, <2>2 DEF UndoAdHoc, MarkLaunched, Working, Compensate, Ended
  <2>3. CASE PumpEndsRow  BY <2>0, <2>3 DEF PumpEndsRow
  <2>4. CASE UNCHANGED adRow  BY <2>4
  <2> QED
    BY <1>1, <2>1, <2>2, <2>3, <2>4 DEF AdHocNext, CreateDisplay, SpawnAdHoc, SpawnAdHocFails, WriteFirstInput,
      StartWaiter, StartReader, LaunchFails, UndoShown, MarkFails, ShowWorking, ProcessOver, WaiterReaps, ReaderEof,
      ReaderReports, ReaderLeaves, StopAdHoc, PumpTakesExit, PumpEndsShown, RestartCore, adHocVars, adRows
<1>2. AdHocSpec => []AdHocInv /\ [][AdHocNext]_adHocVars  BY AdHocInductive DEF AdHocSpec
<1> QED  BY <1>1, <1>2, PTL DEF EndedStays

----
(* The entry link.                                                         *)

NonceRow == [age : 0..NonceTTL, live : BOOLEAN]
Publisher == [pc : {"idle", "open", "write", "rename", "remove", "again"}, nonce : 0..MaxNonces,
              open : 0..4, met : BOOLEAN]
EntrySession == [nonce : 1..MaxNonces, age : 0..NonceTTL]
FileNames == {"target", "staging"}
Latest == Len(nonces)
Stands(w) == publishers[w].pc

EntryTyping ==
    /\ nonces \in Seq(NonceRow) /\ Latest \in 1..MaxNonces
    /\ rate \in [age : 0..RateTicks, count : 0..ExchangeLimit] /\ timer \in 0..RefreshEvery
    /\ inodes \in [Inodes -> 0..MaxNonces] /\ \A i \in Inodes : inodes[i] <= Latest
    /\ names \in [FileNames -> {0} \cup Inodes]
    /\ publishers \in [Writers -> Publisher]
    /\ links \subseteq 1..Latest
    /\ disturbed \in BOOLEAN /\ captured \in BOOLEAN /\ entryFaults \in Nat

\* A writer that is at work has a link to write, and a file open only while it writes.
WriterInv ==
    \A w \in Writers : /\ Stands(w) # "idle" => publishers[w].nonce \in 1..Latest
                       /\ IF Stands(w) = "write" THEN publishers[w].open # 0 ELSE publishers[w].open = 0

\* A nonce that has opened a session is forgotten.
SpentInv ==
    /\ sessions \in Seq(EntrySession)
    /\ \A i \in 1..Len(sessions) : /\ sessions[i].age < NonceTTL /\ sessions[i].nonce <= Latest
                                   /\ ~nonces[sessions[i].nonce].live
    /\ \A i, j \in 1..Len(sessions) : sessions[i].nonce = sessions[j].nonce => i = j

\* The newest nonce is known, and no older than the last renewal.
LatestInv == nonces[Latest].live /\ nonces[Latest].age <= timer

\* A writer that has met no other is alone, writes the newest link and has the staging file.
AloneInv ==
    \A w \in Busy : ~publishers[w].met =>
        /\ Busy = {w} /\ publishers[w].nonce = Latest
        /\ Stands(w) = "write" => names["staging"] = publishers[w].open
        /\ Stands(w) \in {"rename", "remove", "again"} =>
              names["staging"] # 0 /\ inodes[names["staging"]] = Latest

FileInv ==
    /\ names["target"] # 0 => names["target"] # names["staging"]
    /\ ~disturbed => /\ \A w \in Busy : ~publishers[w].met
                     /\ names["target"] # 0 => inodes[names["target"]] # 0
                     /\ Busy = {} => names["target"] # 0 /\ inodes[names["target"]] = Latest

EntryInv == EntryTyping /\ WriterInv /\ SpentInv /\ LatestInv /\ AloneInv /\ FileInv

----
\* What the typing says of the parts.
LEMMA EntrySizes ==
    ASSUME EntryTyping
    PROVE  /\ Latest \in Nat \ {0} /\ DOMAIN nonces = 1..Latest /\ MaxNonces \in Nat \ {0} /\ NonceTTL \in Nat \ {0}
           /\ nonces \in [1..Latest -> NonceRow]
           /\ \A n \in 1..Latest : /\ nonces[n] \in NonceRow /\ nonces[n].age \in 0..NonceTTL
                                   /\ nonces[n].live \in BOOLEAN
           /\ names["target"] \in {0} \cup Inodes /\ names["staging"] \in {0} \cup Inodes
           /\ \A w \in Writers : publishers[w] \in Publisher
<1>1. nonces \in [1..Latest -> NonceRow] /\ Latest \in Nat \ {0} /\ DOMAIN nonces = 1..Latest
  BY EntryAssumption DEF EntryTyping, Latest
<1>2. \A n \in 1..Latest : nonces[n] \in NonceRow  BY <1>1
<1>3. \A n \in 1..Latest : nonces[n].age \in 0..NonceTTL /\ nonces[n].live \in BOOLEAN  BY <1>2, Zenon DEF NonceRow
<1> QED  BY <1>1, <1>2, <1>3, EntryAssumption DEF EntryTyping, FileNames

\* A nonce more: the others are no better known than before.
LEMMA IssuedIs ==
    ASSUME NEW ns \in Seq(NonceRow)
    PROVE  /\ Issued(ns) \in Seq(NonceRow) /\ Len(Issued(ns)) = Len(ns) + 1
           /\ Issued(ns)[Len(ns) + 1].live /\ Issued(ns)[Len(ns) + 1].age = 0
           /\ \A n \in 1..Len(ns) : Issued(ns)[n].live => ns[n].live
<1> DEFINE new == [age |-> 0, live |-> TRUE]
           Kept(n) == [ns[n] EXCEPT !.live = ns[n].live /\ ns[n].age < NonceTTL]
           I == Issued(ns)
<1>1. Len(ns) \in Nat /\ ns \in [1..Len(ns) -> NonceRow]  OBVIOUS
<1>2. 0 \in 0..NonceTTL  BY EntryAssumption
<1>3. new \in NonceRow /\ new.live /\ new.age = 0  BY <1>2, Zenon DEF NonceRow
<1>4. ASSUME NEW n \in 1..Len(ns) PROVE Kept(n) \in NonceRow /\ (Kept(n).live => ns[n].live)
  <2> DEFINE b == ns[n].live /\ ns[n].age < NonceTTL
  <2>1. ns[n] \in NonceRow /\ b \in BOOLEAN  BY <1>1
  <2>2. Kept(n) = [ns[n] EXCEPT !.live = b]  OBVIOUS
  <2>3. b => ns[n].live  OBVIOUS
  <2> HIDE DEF b, Kept
  <2>4. Kept(n) \in NonceRow /\ Kept(n).live = b  BY <2>1, <2>2, Zenon DEF NonceRow
  <2> QED  BY <2>3, <2>4
<1>5. I = [n \in 1..Len(ns) + 1 |-> IF n > Len(ns) THEN new ELSE Kept(n)]  BY DEF Issued
<1> HIDE DEF new, Kept
<1>6. ASSUME NEW n \in 1..Len(ns) + 1
      PROVE  I[n] \in NonceRow /\ (n > Len(ns) => I[n] = new) /\ (~(n > Len(ns)) => I[n] = Kept(n))
  <2>1. ~(n > Len(ns)) => n \in 1..Len(ns)  BY <1>1
  <2> QED  BY <1>3, <1>4, <1>5, <2>1
<1>7. I \in [1..Len(ns) + 1 -> NonceRow]  BY <1>5, <1>6
<1>8. I \in Seq(NonceRow) /\ Len(I) = Len(ns) + 1  BY <1>1, <1>7
<1>9. I[Len(ns) + 1] = new  BY <1>1, <1>6
<1>10. \A n \in 1..Len(ns) : I[n] = Kept(n)  BY <1>1, <1>6
<1> QED  BY <1>3, <1>4, <1>8, <1>9, <1>10

\* A nonce is forgotten.
LEMMA RemovedIs ==
    ASSUME EntryTyping, NEW n \in 1..Latest
    PROVE  /\ Removed(n) \in Seq(NonceRow) /\ Len(Removed(n)) = Latest /\ ~Removed(n)[n].live
           /\ \A m \in 1..Latest : m # n => Removed(n)[m] = nonces[m]
<1> DEFINE r == [nonces[n] EXCEPT !.live = FALSE]
<1>1. nonces[n] \in NonceRow /\ nonces \in Seq(NonceRow) /\ FALSE \in BOOLEAN  BY EntrySizes DEF EntryTyping
<1>2. r \in NonceRow /\ r.live = FALSE  BY <1>1, Zenon DEF NonceRow
<1>3. Removed(n) = [nonces EXCEPT ![n] = r]  BY DEF Removed
<1> HIDE DEF r
<1> QED  BY <1>2, <1>1, <1>3, ExceptSeq DEF Latest

\* No step makes a nonce known again.
NoncesGo ==
    /\ nonces' \in Seq(NonceRow) /\ Latest' \in Latest..MaxNonces
    /\ \A n \in 1..Latest : nonces'[n].live => nonces[n].live

\* A nonce that was spent stays spent.
LEMMA SpentStays ==
    ASSUME EntryTyping, SpentInv, NoncesGo, UNCHANGED sessions
    PROVE  SpentInv'
<1>1. ASSUME NEW i \in 1..Len(sessions)
      PROVE  sessions[i].age < NonceTTL /\ sessions[i].nonce <= Latest' /\ ~nonces'[sessions[i].nonce].live
  <2>1. sessions[i] \in EntrySession  BY DEF SpentInv
  <2>2. sessions[i].nonce \in 1..Latest  BY <2>1, EntrySizes DEF SpentInv, EntrySession
  <2>3. sessions[i].nonce <= Latest'  BY <2>2, EntrySizes DEF NoncesGo
  <2> QED  BY <2>2, <2>3 DEF SpentInv, NoncesGo
<1> QED  BY <1>1 DEF SpentInv

\* A link that is good opens a session, and is good no more.
LEMMA SpentGrows ==
    ASSUME EntryTyping, SpentInv, NoncesGo, NEW n \in 1..Latest, nonces[n].live, nonces[n].age < NonceTTL,
           ~nonces'[n].live, sessions' = Append(sessions, [nonce |-> n, age |-> nonces[n].age])
    PROVE  SpentInv'
<1> DEFINE s == [nonce |-> n, age |-> nonces[n].age]
<1>1. s \in EntrySession /\ s.nonce = n /\ s.age < NonceTTL  BY EntrySizes DEF EntryTyping, EntrySession
<1>2. sessions \in Seq(EntrySession) /\ Len(sessions) \in Nat  BY DEF SpentInv
<1>3. sessions' = Append(sessions, s)  OBVIOUS
<1> HIDE DEF s
<1>4. /\ sessions' \in Seq(EntrySession) /\ Len(sessions') = Len(sessions) + 1
      /\ \A i \in 1..Len(sessions) : sessions'[i] = sessions[i]
      /\ sessions'[Len(sessions) + 1] = s
  BY <1>1, <1>2, <1>3, AppendProperties
<1>5. ASSUME NEW i \in 1..Len(sessions)
      PROVE  /\ sessions[i].age < NonceTTL /\ sessions[i].nonce <= Latest' /\ ~nonces'[sessions[i].nonce].live
             /\ sessions[i].nonce # n
  <2>1. sessions[i] \in EntrySession  BY <1>2
  <2>2. sessions[i].nonce \in 1..Latest  BY <2>1, EntrySizes DEF SpentInv, EntrySession
  <2>3. sessions[i].nonce <= Latest'  BY <2>2, EntrySizes DEF NoncesGo
  <2> QED  BY <2>2, <2>3 DEF SpentInv, NoncesGo
<1>6. n <= Latest'  BY EntrySizes DEF NoncesGo
<1>7. ASSUME NEW i \in 1..Len(sessions') PROVE i \in 1..Len(sessions) \/ i = Len(sessions) + 1  BY <1>2, <1>4
<1>8. ASSUME NEW i \in 1..Len(sessions')
      PROVE  sessions'[i].age < NonceTTL /\ sessions'[i].nonce <= Latest' /\ ~nonces'[sessions'[i].nonce].live
  BY <1>1, <1>4, <1>5, <1>6, <1>7
<1>9. ASSUME NEW i \in 1..Len(sessions'), NEW j \in 1..Len(sessions'), sessions'[i].nonce = sessions'[j].nonce
      PROVE  i = j
  <2>1. \A a, b \in 1..Len(sessions) : sessions[a].nonce = sessions[b].nonce => a = b  BY DEF SpentInv
  <2>2. i \in 1..Len(sessions) \/ i = Len(sessions) + 1  BY <1>7
  <2>3. j \in 1..Len(sessions) \/ j = Len(sessions) + 1  BY <1>7
  <2> QED  BY <1>1, <1>4, <1>5, <1>9, <2>1, <2>2, <2>3
<1> QED  BY <1>4, <1>8, <1>9 DEF SpentInv

----
\* A writer goes on, and the others stand where they stood.
LEMMA WriterIs ==
    ASSUME EntryTyping, NEW w \in Writers, NEW p \in Publisher, WriterGoes(w, p)
    PROVE  /\ publishers' \in [Writers -> Publisher] /\ publishers'[w] = p
           /\ \A x \in Writers : x # w => publishers'[x] = publishers[x]
           /\ Busy' = (Busy \ {w}) \cup (IF p.pc # "idle" THEN {w} ELSE {})
<1>1. publishers \in [Writers -> Publisher] /\ publishers' = [publishers EXCEPT ![w] = p]
  BY DEF EntryTyping, WriterGoes
<1>2. /\ publishers' \in [Writers -> Publisher] /\ publishers'[w] = p
      /\ \A x \in Writers : x # w => publishers'[x] = publishers[x]
  BY <1>1, Zenon
<1> QED  BY <1>2 DEF Busy

\* A writer that begins has its link and no file open.
LEMMA OpensIs ==
    ASSUME NEW n \in 0..MaxNonces
    PROVE  Opens(n) \in Publisher /\ Opens(n).pc = "open" /\ Opens(n).nonce = n /\ Opens(n).open = 0
<1>1. 0 \in 0..4 /\ 0 \in 0..MaxNonces /\ FALSE \in BOOLEAN  BY EntryAssumption
<1> DEFINE a == [Quiet EXCEPT !.pc = "open"]
<1>2. Quiet \in Publisher /\ Quiet.open = 0  BY <1>1, Zenon DEF Quiet, Publisher
<1>3. a \in Publisher /\ a.pc = "open" /\ a.open = 0  BY <1>2, Zenon DEF Publisher
<1>4. Opens(n) = [a EXCEPT !.nonce = n]  BY DEF Opens
<1> HIDE DEF a
<1> QED  BY <1>3, <1>4, Zenon DEF Publisher

\* A writer begins with a new link: who else is at work has met it.
LEMMA PublishIs ==
    ASSUME EntryTyping, WriterInv, NEW w \in Writers, Stands(w) = "idle", NoncesGo, Publish(w, Latest'),
           UNCHANGED <<names, inodes>>, FileInv
    PROVE  /\ publishers' \in [Writers -> Publisher] /\ disturbed' \in BOOLEAN
           /\ WriterInv' /\ AloneInv' /\ FileInv'
<1> DEFINE n == Latest'
           met == Busy # {}
           p == [Opens(n) EXCEPT !.met = met]
           q(x) == [publishers[x] EXCEPT !.met = publishers[x].met \/ publishers[x].pc # "idle"]
<1>0. n \in 0..MaxNonces /\ n \in 1..Latest' /\ Latest \in 1..MaxNonces /\ Latest <= Latest' /\ Latest' \in Nat /\ Latest \in Nat
  BY EntrySizes DEF NoncesGo, EntryTyping
<1>1. p \in Publisher /\ p.pc = "open" /\ p.nonce = n /\ p.open = 0 /\ p.met = met
  <2>1. met \in BOOLEAN  OBVIOUS
  <2> DEFINE o == Opens(n)
  <2>2. o \in Publisher /\ o.pc = "open" /\ o.nonce = n /\ o.open = 0 /\ p = [o EXCEPT !.met = met]  BY <1>0, OpensIs
  <2> HIDE DEF met, o, p
  <2> QED  BY <2>1, <2>2, Zenon DEF Publisher
<1>2. publishers' = [x \in Writers |-> IF x = w THEN p ELSE q(x)] /\ disturbed' = (disturbed \/ met)  BY DEF Publish
<1>3. ASSUME NEW x \in Writers
      PROVE  /\ q(x) \in Publisher /\ q(x).pc = publishers[x].pc /\ q(x).nonce = publishers[x].nonce
             /\ q(x).open = publishers[x].open /\ (publishers[x].pc # "idle" => q(x).met)
  <2> DEFINE b == publishers[x].met \/ publishers[x].pc # "idle"
  <2>1. publishers[x] \in Publisher /\ b \in BOOLEAN  BY EntrySizes
  <2>2. q(x) = [publishers[x] EXCEPT !.met = b] /\ (publishers[x].pc # "idle" => b)  OBVIOUS
  <2> HIDE DEF b, q
  <2>3. /\ q(x) \in Publisher /\ q(x).pc = publishers[x].pc /\ q(x).nonce = publishers[x].nonce
        /\ q(x).open = publishers[x].open /\ q(x).met = b
    BY <2>1, <2>2, Zenon DEF Publisher
  <2> QED  BY <2>2, <2>3
<1> HIDE DEF n, p, q
<1>4. /\ publishers' \in [Writers -> Publisher] /\ publishers'[w] = p
      /\ \A x \in Writers : x # w => publishers'[x] = q(x)
  BY <1>1, <1>2, <1>3
<1>5. Busy' = Busy \cup {w}  BY <1>1, <1>3, <1>4 DEF Busy, Stands
<1>6. \A x \in Busy : x # w /\ publishers'[x].met  BY <1>3, <1>4 DEF Busy, Stands
<1>7. WriterInv'
  <2>1. ASSUME NEW x \in Writers
        PROVE  /\ publishers'[x].pc # "idle" => publishers'[x].nonce \in 1..Latest'
               /\ IF publishers'[x].pc = "write" THEN publishers'[x].open # 0 ELSE publishers'[x].open = 0
    <3>1. CASE x = w  BY <1>0, <1>1, <1>4, <3>1
    <3>2. CASE x # w  BY <1>0, <1>3, <1>4, <3>2 DEF WriterInv, Stands
    <3> QED  BY <3>1, <3>2
  <2> QED  BY <2>1 DEF WriterInv, Stands
<1>8. AloneInv'
  <2>1. ASSUME NEW x \in Busy', ~publishers'[x].met
        PROVE  x = w /\ Busy' = {w}
    BY <1>1, <1>4, <1>5, <1>6, <2>1 DEF met
  <2> QED  BY <2>1, <1>1, <1>4 DEF AloneInv, Stands, n
<1>9. disturbed' \in BOOLEAN  BY <1>2 DEF EntryTyping
<1>10. FileInv'
  <2>1. ~disturbed' => ~disturbed /\ Busy = {}  BY <1>2
  <2>2. Busy' # {}  BY <1>5
  <2> QED  BY <2>1, <1>1, <1>4, <1>5, <2>2 DEF FileInv
<1> QED  BY <1>4, <1>7, <1>8, <1>9, <1>10

\* A step of a writer leaves the nonces and the sessions alone.
LEMMA WriterLeaves ==
    ASSUME EntryTyping, SpentInv, LatestInv, EntryRest,
           inodes' \in [Inodes -> 0..MaxNonces], \A i \in Inodes : inodes'[i] <= Latest,
           names' \in [FileNames -> {0} \cup Inodes], publishers' \in [Writers -> Publisher],
           disturbed' \in BOOLEAN, entryFaults' \in Nat
    PROVE  EntryTyping' /\ SpentInv' /\ LatestInv' /\ Latest' = Latest
BY DEF EntryTyping, SpentInv, LatestInv, EntryRest, Latest

\* Who is not named in a step of a writer keeps what the invariant says of it.
LEMMA OthersStay ==
    ASSUME EntryTyping, WriterInv, NEW w \in Writers, NEW p \in Publisher, WriterGoes(w, p), UNCHANGED nonces,
           p.pc # "idle" => p.nonce = publishers[w].nonce /\ Stands(w) # "idle",
           IF p.pc = "write" THEN p.open # 0 ELSE p.open = 0
    PROVE  WriterInv'
<1>1. Latest' = Latest  BY DEF Latest
<1>2. ASSUME NEW x \in Writers
      PROVE  /\ publishers'[x].pc # "idle" => publishers'[x].nonce \in 1..Latest
             /\ IF publishers'[x].pc = "write" THEN publishers'[x].open # 0 ELSE publishers'[x].open = 0
  BY WriterIs DEF Stands, WriterInv
<1> QED  BY <1>1, <1>2 DEF WriterInv, Stands

\* There is a file that nobody uses, for who begins to write.
LEMMA FreeIs ==
    ASSUME EntryTyping, WriterInv, NEW w \in Writers, Stands(w) = "open", names["staging"] = 0
    PROVE  Free \in Inodes /\ Free # names["target"]
<1>1. \A x \in Writers : publishers[x].open \in 0..4 /\ publishers[w].open = 0
  <2>1. \A x \in Writers : publishers[x].open \in 0..4  BY EntrySizes, Zenon DEF Publisher
  <2>2. publishers[w].open = 0  BY DEF WriterInv
  <2> QED  BY <2>1, <2>2
<1>2. \E a, b : {publishers[x].open : x \in Writers} \subseteq {0, a, b}
  <2>1. CASE w = "start"
    <3>1. {publishers[x].open : x \in Writers} \subseteq {0, publishers["renew"].open, publishers["serve"].open}
      BY <1>1, <2>1 DEF Writers
    <3> QED  BY <3>1
  <2>2. CASE w = "renew"
    <3>1. {publishers[x].open : x \in Writers} \subseteq {0, publishers["start"].open, publishers["serve"].open}
      BY <1>1, <2>2 DEF Writers
    <3> QED  BY <3>1
  <2>3. CASE w = "serve"
    <3>1. {publishers[x].open : x \in Writers} \subseteq {0, publishers["renew"].open, publishers["start"].open}
      BY <1>1, <2>3 DEF Writers
    <3> QED  BY <3>1
  <2> QED  BY <2>1, <2>2, <2>3 DEF Writers
<1>3. PICK a, b : {publishers[x].open : x \in Writers} \subseteq {0, a, b}  BY <1>2
<1>4. PICK i \in {1, 2, 3, 4} : i # names["target"] /\ i # 0 /\ i # a /\ i # b  OBVIOUS
<1> QED  BY <1>3, <1>4 DEF Free, Inodes

\* Nobody who has met no other is met by somebody at work.
LEMMA AloneMeets ==
    ASSUME EntryTyping, AloneInv, FileInv, NEW w \in Busy, ~publishers[w].met \/ ~disturbed
    PROVE  Busy = {w} /\ ~publishers[w].met
BY DEF AloneInv, FileInv

\* A writer opens the staging file, its own or the one of who failed, and empties it.
LEMMA OpenGoes ==
    ASSUME EntryInv, NEW w \in Writers, OpenStaging(w)
    PROVE  EntryInv'
<1> USE DEF EntryInv
<1> DEFINE i == IF names["staging"] # 0 THEN names["staging"] ELSE Free
           p == [publishers[w] EXCEPT !.pc = "write", !.open = i]
<1>0. /\ Stands(w) = "open" /\ names' = [names EXCEPT !["staging"] = i] /\ inodes' = [inodes EXCEPT ![i] = 0]
      /\ WriterGoes(w, p) /\ EntryRest /\ UNCHANGED <<disturbed, entryFaults>>
  BY DEF OpenStaging, Stands
<1>1. i \in Inodes /\ i # 0 /\ i # names["target"] /\ i \in 0..4  BY <1>0, FreeIs, EntrySizes DEF FileInv, Inodes
<1> HIDE DEF i
<1>2. p \in Publisher /\ p.pc = "write" /\ p.open = i /\ p.nonce = publishers[w].nonce /\ p.met = publishers[w].met
  BY <1>1, EntrySizes, Zenon DEF Publisher
<1> HIDE DEF p
<1>3. /\ publishers' \in [Writers -> Publisher] /\ publishers'[w] = p
      /\ \A x \in Writers : x # w => publishers'[x] = publishers[x]
      /\ Busy' = Busy /\ w \in Busy
  <2>1. w \in Busy  BY <1>0 DEF Busy, Stands
  <2> QED  BY <1>0, <1>2, <2>1, WriterIs
<1>4. /\ names' \in [FileNames -> {0} \cup Inodes] /\ names'["staging"] = i /\ names'["target"] = names["target"]
  BY <1>0, <1>1 DEF EntryTyping, FileNames
<1>5. /\ inodes' \in [Inodes -> 0..MaxNonces] /\ \A j \in Inodes : inodes'[j] <= Latest
      /\ \A j \in Inodes : j # i => inodes'[j] = inodes[j]
  BY <1>0, <1>1, EntrySizes DEF EntryTyping
<1>6. EntryTyping' /\ SpentInv' /\ LatestInv' /\ Latest' = Latest
  BY <1>0, <1>3, <1>4, <1>5, WriterLeaves DEF EntryTyping
<1>7. WriterInv'  BY <1>0, <1>1, <1>2, OthersStay DEF EntryRest
<1>8. AloneInv'
  <2>1. ASSUME NEW x \in Busy, ~publishers'[x].met
        PROVE  /\ x = w /\ Busy = {w} /\ publishers'[x].nonce = Latest
    <3>1. x \in Writers /\ ~publishers[x].met  BY <1>2, <1>3, <2>1 DEF Busy
    <3>2. Busy = {x} /\ publishers[x].nonce = Latest  BY <3>1 DEF AloneInv
    <3> QED  BY <1>2, <1>3, <3>2
  <2> QED  BY <1>2, <1>3, <1>4, <1>6, <2>1 DEF AloneInv, Stands
<1>9. FileInv'
  <2>1. ~disturbed => \A x \in Busy : ~publishers'[x].met  BY <1>2, <1>3 DEF FileInv, Busy
  <2>2. names["target"] # 0 => inodes'[names["target"]] = inodes[names["target"]]  BY <1>1, <1>5, EntrySizes
  <2> QED  BY <1>0, <1>1, <1>3, <1>4, <2>1, <2>2 DEF FileInv
<1> QED  BY <1>6, <1>7, <1>8, <1>9

\* It writes its link there: the newest if it has met nobody.
LEMMA LinkGoes ==
    ASSUME EntryInv, NEW w \in Writers, WriteLink(w)
    PROVE  EntryInv'
<1> USE DEF EntryInv
<1> DEFINE i == publishers[w].open
           p == [publishers[w] EXCEPT !.pc = "rename", !.open = 0]
<1>0. /\ Stands(w) = "write" /\ inodes' = [inodes EXCEPT ![i] = publishers[w].nonce]
      /\ WriterGoes(w, p) /\ EntryRest /\ UNCHANGED <<names, disturbed, entryFaults>>
  BY DEF WriteLink, Stands
<1>1. i \in Inodes /\ publishers[w].nonce \in 1..Latest
  <2>1. i \in 0..4  BY EntrySizes, Zenon DEF Publisher
  <2> QED  BY <1>0, <2>1 DEF WriterInv, Inodes
<1>2. /\ p \in Publisher /\ p.pc = "rename" /\ p.open = 0 /\ p.nonce = publishers[w].nonce /\ p.met = publishers[w].met
  <2>1. 0 \in 0..4  OBVIOUS
  <2> QED  BY <2>1, EntrySizes, Zenon DEF Publisher
<1> HIDE DEF p
<1>3. /\ publishers' \in [Writers -> Publisher] /\ publishers'[w] = p
      /\ \A x \in Writers : x # w => publishers'[x] = publishers[x]
      /\ Busy' = Busy /\ w \in Busy
  <2>1. w \in Busy  BY <1>0 DEF Busy, Stands
  <2> QED  BY <1>0, <1>2, <2>1, WriterIs
<1>4. /\ inodes' \in [Inodes -> 0..MaxNonces] /\ \A j \in Inodes : inodes'[j] <= Latest
      /\ \A j \in Inodes : j # i => inodes'[j] = inodes[j]
      /\ inodes'[i] = publishers[w].nonce
  BY <1>0, <1>1, EntrySizes DEF EntryTyping
<1>5. EntryTyping' /\ SpentInv' /\ LatestInv' /\ Latest' = Latest  BY <1>0, <1>3, <1>4, WriterLeaves DEF EntryTyping
<1>6. WriterInv'  BY <1>0, <1>1, <1>2, OthersStay DEF EntryRest
<1>7. AloneInv'
  <2>1. ASSUME NEW x \in Busy, ~publishers'[x].met
        PROVE  /\ x = w /\ Busy = {w} /\ publishers'[x].nonce = Latest /\ publishers[w].nonce = Latest
               /\ names["staging"] = i
    <3>1. x \in Writers /\ ~publishers[x].met  BY <1>2, <1>3, <2>1 DEF Busy
    <3> QED  BY <1>0, <1>2, <1>3, <3>1 DEF AloneInv
  <2> QED  BY <1>0, <1>1, <1>2, <1>3, <1>4, <1>5, <2>1 DEF AloneInv, Stands, Inodes
<1>8. FileInv'  BY <1>0, <1>2, <1>3, <1>4, <1>5, AloneMeets, EntrySizes DEF FileInv, AloneInv
<1> QED  BY <1>5, <1>6, <1>7, <1>8

\* The rename fails: the writer goes on to remove the link that is there.
LEMMA FailGoes ==
    ASSUME EntryInv, NEW w \in Writers, RenameFails(w)
    PROVE  EntryInv'
<1> USE DEF EntryInv
<1> DEFINE p == [publishers[w] EXCEPT !.pc = "remove"]
<1>0. Stands(w) = "rename" /\ WriterGoes(w, p) /\ EntryRest /\ UNCHANGED <<names, inodes, disturbed>>
  BY DEF RenameFails, Stands
<1>a. entryFaults' \in Nat  BY DEF RenameFails, EntryTyping
<1>1. /\ p \in Publisher /\ p.pc = "remove" /\ p.open = publishers[w].open
      /\ p.nonce = publishers[w].nonce /\ p.met = publishers[w].met
  BY EntrySizes, Zenon DEF Publisher
<1> HIDE DEF p
<1>2. /\ publishers' \in [Writers -> Publisher] /\ publishers'[w] = p
      /\ \A x \in Writers : x # w => publishers'[x] = publishers[x]
      /\ Busy' = Busy /\ w \in Busy
  <2>1. w \in Busy  BY <1>0 DEF Busy, Stands
  <2> QED  BY <1>0, <1>1, <2>1, WriterIs
<1>3. EntryTyping' /\ SpentInv' /\ LatestInv' /\ Latest' = Latest  BY <1>0, <1>a, <1>2, WriterLeaves DEF EntryTyping
<1>4. WriterInv'
  <2>1. p.open = 0  BY <1>0, <1>1 DEF WriterInv
  <2> QED  BY <1>0, <1>1, <2>1, OthersStay DEF EntryRest
<1>5. AloneInv'
  <2>1. ASSUME NEW x \in Busy, ~publishers'[x].met
        PROVE  /\ x = w /\ Busy = {w} /\ publishers'[x].nonce = Latest
               /\ names["staging"] # 0 /\ inodes[names["staging"]] = Latest
    BY <1>0, <1>1, <1>2, <2>1 DEF AloneInv, Busy
  <2> QED  BY <1>0, <1>1, <1>2, <1>3, <2>1 DEF AloneInv, Stands
<1>6. FileInv'  BY <1>0, <1>2, <1>1 DEF FileInv, Busy
<1> QED  BY <1>3, <1>4, <1>5, <1>6

\* The link that was there is removed: there is none for a moment.
LEMMA RemoveGoes ==
    ASSUME EntryInv, NEW w \in Writers, RemoveTarget(w)
    PROVE  EntryInv'
<1> USE DEF EntryInv
<1> DEFINE p == [publishers[w] EXCEPT !.pc = "again"]
<1>0. /\ Stands(w) = "remove" /\ WriterGoes(w, p) /\ EntryRest /\ UNCHANGED <<inodes, disturbed, entryFaults>>
      /\ names' = [names EXCEPT !["target"] = 0]
  BY DEF RemoveTarget, Stands
<1>1. /\ p \in Publisher /\ p.pc = "again" /\ p.open = publishers[w].open
      /\ p.nonce = publishers[w].nonce /\ p.met = publishers[w].met
  BY EntrySizes, Zenon DEF Publisher
<1> HIDE DEF p
<1>2. /\ publishers' \in [Writers -> Publisher] /\ publishers'[w] = p
      /\ \A x \in Writers : x # w => publishers'[x] = publishers[x]
      /\ Busy' = Busy /\ w \in Busy
  <2>1. w \in Busy  BY <1>0 DEF Busy, Stands
  <2> QED  BY <1>0, <1>1, <2>1, WriterIs
<1>3. /\ names' \in [FileNames -> {0} \cup Inodes] /\ names'["staging"] = names["staging"] /\ names'["target"] = 0
  BY <1>0 DEF EntryTyping, FileNames
<1>4. EntryTyping' /\ SpentInv' /\ LatestInv' /\ Latest' = Latest  BY <1>0, <1>2, <1>3, WriterLeaves DEF EntryTyping
<1>5. WriterInv'
  <2>1. p.open = 0  BY <1>0, <1>1 DEF WriterInv
  <2> QED  BY <1>0, <1>1, <2>1, OthersStay DEF EntryRest
<1>6. AloneInv'
  <2>1. ASSUME NEW x \in Busy, ~publishers'[x].met
        PROVE  /\ x = w /\ Busy = {w} /\ publishers'[x].nonce = Latest
               /\ names["staging"] # 0 /\ inodes[names["staging"]] = Latest
    BY <1>0, <1>1, <1>2, <2>1 DEF AloneInv, Busy
  <2> QED  BY <1>0, <1>1, <1>2, <1>3, <1>4, <2>1 DEF AloneInv, Stands
<1>7. FileInv'  BY <1>0, <1>2, <1>3, <1>1 DEF FileInv, Busy
<1> QED  BY <1>4, <1>5, <1>6, <1>7

\* Who is done stands where nobody is.
LEMMA QuietIs ==
    Quiet \in Publisher /\ Quiet.pc = "idle" /\ Quiet.open = 0
<1>1. 0 \in 0..4 /\ 0 \in 0..MaxNonces /\ FALSE \in BOOLEAN  BY EntryAssumption
<1> QED  BY <1>1, Zenon DEF Quiet, Publisher

\* A writer that is done leaves a link that is the newest if it was alone all the time.
LEMMA DoneGoes ==
    ASSUME EntryInv, NEW w \in Writers, Stands(w) \in {"rename", "again"}, WriterGoes(w, Quiet), EntryRest,
           UNCHANGED <<inodes, entryFaults>>, disturbed' \in BOOLEAN,
           \/ names["staging"] # 0 /\ Renamed /\ disturbed' = publishers[w].met
           \/ names["staging"] = 0 /\ disturbed' /\ UNCHANGED names
    PROVE  EntryInv'
<1> USE DEF EntryInv
<1>1. /\ publishers' \in [Writers -> Publisher] /\ publishers'[w] = Quiet
      /\ \A x \in Writers : x # w => publishers'[x] = publishers[x]
      /\ Busy' = Busy \ {w} /\ w \in Busy
  <2>1. w \in Busy  BY DEF Busy, Stands
  <2> QED  BY <2>1, QuietIs, WriterIs
<1>2. names' \in [FileNames -> {0} \cup Inodes]  BY EntrySizes DEF EntryTyping, FileNames, Renamed
<1>3. EntryTyping' /\ SpentInv' /\ LatestInv' /\ Latest' = Latest  BY <1>1, <1>2, WriterLeaves DEF EntryTyping
<1>4. WriterInv'  BY QuietIs, OthersStay DEF EntryRest
<1>5. AloneInv'
  <2>1. ASSUME NEW x \in Busy', ~publishers'[x].met
        PROVE  FALSE
    <3>1. x \in Busy /\ x # w /\ x \in Writers  BY <1>1 DEF Busy
    <3>2. ~publishers[x].met  BY <1>1, <2>1, <3>1
    <3>3. Busy = {x}  BY <3>1, <3>2 DEF AloneInv
    <3> QED  BY <1>1, <3>1, <3>3
  <2> QED  BY <2>1 DEF AloneInv
<1>6. FileInv'
  <2>1. CASE names["staging"] # 0 /\ Renamed /\ disturbed' = publishers[w].met
    <3>1. ASSUME ~disturbed'
          PROVE  Busy' = {} /\ inodes[names["staging"]] = Latest
      <4>1. ~publishers[w].met  BY <2>1, <3>1
      <4> QED  BY <1>1, <4>1 DEF AloneInv
    <3>2. Latest # 0  BY EntrySizes
    <3> QED  BY <1>3, <2>1, <3>1, <3>2 DEF FileInv, Renamed
  <2>2. CASE disturbed' /\ UNCHANGED names  BY <2>2 DEF FileInv
  <2> QED  BY <2>1, <2>2
<1> QED  BY <1>3, <1>4, <1>5, <1>6

\* The rename of a writer, at once or after the link was removed.
LEMMA RenameGoes ==
    ASSUME EntryInv, NEW w \in Writers, RenameLink(w) \/ RenameAgain(w)
    PROVE  EntryInv'
<1>1. publishers[w].met \in BOOLEAN /\ TRUE \in BOOLEAN  BY EntrySizes, Zenon DEF Publisher, EntryInv
<1>2. CASE RenameLink(w)  BY <1>1, <1>2, DoneGoes DEF RenameLink, Published, Stands
<1>3. CASE RenameAgain(w)  BY <1>1, <1>3, DoneGoes DEF RenameAgain, Published, Stands
<1> QED  BY <1>2, <1>3

----
\* A step that begins no publication and goes on with none.
LEMMA StandStill ==
    ASSUME EntryInv, NoncesGo, Latest' = Latest, nonces'[Latest].live, nonces'[Latest].age <= timer',
           rate' \in [age : 0..RateTicks, count : 0..ExchangeLimit], timer' \in 0..RefreshEvery,
           links' \subseteq 1..Latest, captured' \in BOOLEAN, SpentInv',
           UNCHANGED <<inodes, names, publishers, disturbed, entryFaults>>
    PROVE  EntryInv'
<1>1. EntryTyping'  BY DEF EntryInv, EntryTyping, NoncesGo, Latest
<1>2. WriterInv'  BY DEF EntryInv, WriterInv, Stands
<1>3. LatestInv'  BY DEF LatestInv
<1>4. AloneInv'  BY DEF EntryInv, AloneInv, Busy, Stands
<1>5. FileInv'  BY DEF EntryInv, FileInv, Busy
<1> QED  BY <1>1, <1>2, <1>3, <1>4, <1>5 DEF EntryInv

\* A step that begins a publication, with a nonce made for it.
LEMMA PublishGoes ==
    ASSUME EntryInv, NEW w \in Writers, Stands(w) = "idle", NoncesGo, Latest' = Latest + 1,
           nonces'[Latest'].live, nonces'[Latest'].age = 0, Publish(w, Latest'),
           rate' \in [age : 0..RateTicks, count : 0..ExchangeLimit], timer' \in 0..RefreshEvery,
           links' \subseteq 1..Latest, SpentInv', UNCHANGED <<inodes, names, captured, entryFaults>>
    PROVE  EntryInv'
<1> USE DEF EntryInv
<1>1. /\ publishers' \in [Writers -> Publisher] /\ disturbed' \in BOOLEAN
      /\ WriterInv' /\ AloneInv' /\ FileInv'
  BY PublishIs
<1>2. Latest' \in 1..MaxNonces /\ Latest \in Nat /\ Latest <= Latest'  BY EntrySizes DEF NoncesGo
<1>3. links' \subseteq 1..Latest' /\ \A i \in Inodes : inodes'[i] <= Latest'
  <2>1. \A i \in Inodes : inodes[i] \in Nat /\ inodes[i] <= Latest  BY EntrySizes DEF EntryTyping
  <2> QED  BY <1>2, <2>1
<1>4. EntryTyping'  BY <1>1, <1>2, <1>3 DEF EntryTyping, NoncesGo
<1>5. LatestInv'  BY DEF LatestInv
<1> QED  BY <1>1, <1>4, <1>5

\* The file is renewed.
LEMMA RenewGoes ==
    ASSUME EntryInv, Renew
    PROVE  EntryInv'
<1> USE DEF EntryInv
<1>1. nonces \in Seq(NonceRow) /\ Latest \in Nat /\ Latest < MaxNonces /\ MaxNonces \in Nat
  BY EntrySizes DEF EntryTyping, Renew, Latest
<1>2. nonces' = Issued(nonces)  BY DEF Renew
<1>3. /\ nonces' \in Seq(NonceRow) /\ Latest' = Latest + 1 /\ nonces'[Latest'].live /\ nonces'[Latest'].age = 0
      /\ \A n \in 1..Latest : nonces'[n].live => nonces[n].live
  BY <1>1, <1>2, IssuedIs DEF Latest
<1>4. NoncesGo  BY <1>1, <1>3 DEF NoncesGo
<1>5. SpentInv'  BY <1>4, SpentStays DEF Renew
<1>6. timer' \in 0..RefreshEvery  BY EntryAssumption DEF Renew
<1> QED  BY <1>3, <1>4, <1>5, <1>6, PublishGoes DEF Renew, EntryTyping, Stands, Writers, Latest

\* The window of the rate limit, and one exchange more in it.
LEMMA WindowIs ==
    ASSUME EntryTyping
    PROVE  /\ Window \in [age : 0..RateTicks, count : 0..ExchangeLimit]
           /\ Within /\ Counted => rate' \in [age : 0..RateTicks, count : 0..ExchangeLimit]
<1> DEFINE Rates == [age : 0..RateTicks, count : 0..ExchangeLimit]
<1>1. 0 \in 0..RateTicks /\ 0 \in 0..ExchangeLimit /\ ExchangeLimit \in Nat  BY EntryAssumption
<1>2. [age |-> 0, count |-> 0] \in Rates  BY <1>1, Zenon
<1>3. Window \in Rates  BY <1>2 DEF Window, EntryTyping
<1>4. ASSUME Within, Counted PROVE rate' \in Rates
  <2> DEFINE c == Window.count + 1
             v == Window
  <2>1. v.count \in 0..ExchangeLimit  BY <1>3
  <2>2. c \in 0..ExchangeLimit  BY <1>1, <1>4, <2>1 DEF Within
  <2>3. rate' = [v EXCEPT !.count = c] /\ v \in Rates  BY <1>3, <1>4 DEF Counted
  <2> HIDE DEF c, v
  <2> QED  BY <2>2, <2>3, Zenon
<1> QED  BY <1>3, <1>4

\* The newest nonce lets the user in.
LEMMA LatestIsUsable ==
    ASSUME EntryInv
    PROVE  Latest \in 1..Latest /\ Usable(Latest)
<1>1. nonces[Latest].live /\ nonces[Latest].age <= timer  BY DEF EntryInv, LatestInv
<1>2. Latest \in Nat \ {0} /\ nonces[Latest].age \in Nat  BY EntrySizes, EntryAssumption DEF EntryInv
<1>3. timer \in Nat /\ timer <= RefreshEvery /\ RefreshEvery \in Nat /\ NonceTTL \in Nat /\ RefreshEvery < NonceTTL
  BY EntryAssumption DEF EntryInv, EntryTyping
<1>4. nonces[Latest].age < NonceTTL  BY <1>1, <1>2, <1>3
<1> QED  BY <1>1, <1>2, <1>4 DEF Usable

\* A link is exchanged for a session.
LEMMA ExchangeGoes ==
    ASSUME EntryInv, NEW n \in links, Exchange(n)
    PROVE  EntryInv'
<1> USE DEF EntryInv
<1>0. n \in 1..Latest /\ links' \subseteq 1..Latest  BY DEF EntryTyping, Exchange, Arrives
<1>1. Latest \in Nat /\ Latest < MaxNonces /\ MaxNonces \in Nat  BY EntrySizes DEF Exchange, Latest
<1> DEFINE r == Removed(n)
<1>2. r \in Seq(NonceRow) /\ Len(r) = Latest /\ ~r[n].live /\ \A m \in 1..Latest : m # n => r[m] = nonces[m]
  BY <1>0, RemovedIs
<1>3. nonces' = Issued(r)  BY DEF Exchange
<1> HIDE DEF r
<1>4. /\ nonces' \in Seq(NonceRow) /\ Latest' = Latest + 1 /\ nonces'[Latest'].live /\ nonces'[Latest'].age = 0
      /\ \A m \in 1..Latest : nonces'[m].live => r[m].live
  BY <1>2, <1>3, IssuedIs DEF Latest
<1>5. \A m \in 1..Latest : nonces'[m].live => nonces[m].live /\ m # n  BY <1>2, <1>4
<1>6. NoncesGo  BY <1>1, <1>4, <1>5 DEF NoncesGo
<1>7. SpentInv'  BY <1>0, <1>5, <1>6, SpentGrows DEF Exchange, Usable
<1>8. timer' \in 0..RefreshEvery  BY DEF Exchange, EntryTyping
<1> QED  BY <1>0, <1>4, <1>6, <1>7, WindowIs, <1>8, PublishGoes DEF Exchange, Reissue, Arrives, LockFree, Stands,
    Writers, Latest

\* A link that lets nobody in is not the newest.
LEMMA RefusedGoes ==
    ASSUME EntryInv, NEW n \in links, ExchangeRefused(n)
    PROVE  EntryInv'
<1> USE DEF EntryInv
<1>0. n \in 1..Latest /\ links' \subseteq 1..Latest  BY DEF EntryTyping, ExchangeRefused, Arrives
<1>1. n # Latest  BY LatestIsUsable DEF ExchangeRefused
<1>2. /\ nonces' \in Seq(NonceRow) /\ Latest' = Latest /\ ~nonces'[n].live
      /\ \A m \in 1..Latest : m # n => nonces'[m] = nonces[m]
  BY <1>0, RemovedIs DEF ExchangeRefused, Latest
<1>3. NoncesGo  BY <1>2, EntrySizes DEF NoncesGo, EntryTyping
<1>4. SpentInv'  BY <1>3, SpentStays DEF ExchangeRefused
<1>5. nonces'[Latest] = nonces[Latest] /\ timer' = timer  BY <1>1, <1>2, LatestIsUsable DEF ExchangeRefused
<1> QED  BY <1>0, <1>2, <1>3, <1>4, <1>5, WindowIs, StandStill DEF ExchangeRefused, LatestInv, EntryTyping

\* Too many links came within a minute.
LEMMA LimitedGoes ==
    ASSUME EntryInv, NEW n \in links, RateLimited(n)
    PROVE  EntryInv'
<1> USE DEF EntryInv
<1>1. NoncesGo  BY EntrySizes DEF NoncesGo, EntryTyping, RateLimited, Latest
<1>2. SpentInv'  BY <1>1, SpentStays DEF RateLimited
<1> QED  BY <1>1, <1>2, WindowIs, StandStill DEF RateLimited, LatestInv, EntryTyping, Arrives, Latest

\* The tray hands a link to a browser: the one the core printed or the one in the file.
LEMMA TrayGoes ==
    ASSUME EntryInv, TrayOpens
    PROVE  EntryInv'
<1> USE DEF EntryInv
<1>1. OpenTarget \in 0..Latest
  <2>1. InFile \in 0..Latest  BY EntrySizes DEF InFile, EntryTyping
  <2> QED  BY <2>1, EntrySizes DEF OpenTarget
<1>2. links' \subseteq 1..Latest  BY <1>1, EntrySizes DEF TrayOpens, EntryTyping
<1>3. NoncesGo  BY EntrySizes DEF NoncesGo, EntryTyping, TrayOpens, Latest
<1>4. SpentInv'  BY <1>3, SpentStays DEF TrayOpens
<1> QED  BY <1>2, <1>3, <1>4, StandStill DEF TrayOpens, EntryTyping, LatestInv, Latest

\* A clock that stops at its limit.
LEMMA CappedIs ==
    ASSUME NEW limit \in Nat, NEW a \in 0..limit
    PROVE  Min({a + 1, limit}) \in 0..limit /\ Min({a + 1, limit}) <= a + 1
<1> DEFINE m == IF a + 1 <= limit THEN a + 1 ELSE limit
<1>1. Min({a + 1, limit}) = m  BY DEF Min
<1> QED  BY <1>1

\* A tick makes every nonce older, none older than the time since the renewal says.
LEMMA TickGoes ==
    ASSUME EntryInv, Tick
    PROVE  EntryInv'
<1> USE DEF EntryInv
<1> DEFINE Older(n) == [nonces[n] EXCEPT !.age = Min({nonces[n].age + 1, NonceTTL})]
<1>0. nonces' = [n \in 1..Latest |-> Older(n)] /\ timer' = timer + 1 /\ timer < RefreshEvery  BY EntrySizes DEF Tick
<1>1. ASSUME NEW n \in 1..Latest
      PROVE  /\ Older(n) \in NonceRow /\ Older(n).live = nonces[n].live
             /\ Older(n).age <= nonces[n].age + 1
  <2> DEFINE a == Min({nonces[n].age + 1, NonceTTL})
  <2>1. a \in 0..NonceTTL /\ a <= nonces[n].age + 1  BY CappedIs, EntrySizes
  <2>2. nonces[n] \in NonceRow /\ Older(n) = [nonces[n] EXCEPT !.age = a]  BY EntrySizes
  <2> HIDE DEF a, Older
  <2>3. Older(n) \in NonceRow /\ Older(n).live = nonces[n].live /\ Older(n).age = a  BY <2>1, <2>2, Zenon DEF NonceRow
  <2> QED  BY <2>1, <2>3
<1> HIDE DEF Older
<1>2. /\ nonces' \in Seq(NonceRow) /\ Latest' = Latest
      /\ \A n \in 1..Latest : nonces'[n].live = nonces[n].live /\ nonces'[n].age <= nonces[n].age + 1
  <2>1. Latest \in Nat  BY EntrySizes
  <2>2. nonces' \in [1..Latest -> NonceRow]  BY <1>0, <1>1
  <2>3. nonces' \in Seq(NonceRow) /\ Len(nonces') = Latest  BY <2>1, <2>2
  <2> QED  BY <1>0, <1>1, <2>3 DEF Latest
<1>3. NoncesGo  BY <1>2, EntrySizes DEF NoncesGo, EntryTyping
<1>4. SpentInv'  BY <1>3, SpentStays DEF Tick
<1>5. timer' \in 0..RefreshEvery  BY <1>0, EntryAssumption DEF EntryTyping
<1>6. nonces'[Latest].live /\ nonces'[Latest].age <= timer'
  <2>1. /\ Latest \in 1..Latest /\ nonces[Latest].live /\ nonces[Latest].age <= timer
        /\ nonces[Latest].age \in Nat /\ timer \in Nat
    BY LatestIsUsable, EntrySizes DEF LatestInv, EntryTyping
  <2>2. nonces'[Latest] \in NonceRow  BY <1>0, <1>1, <2>1
  <2>3. nonces'[Latest].age \in 0..NonceTTL  BY <2>2, Zenon DEF NonceRow
  <2>4. nonces'[Latest].age \in Int  BY <2>3, EntryAssumption
  <2> QED  BY <1>0, <1>2, <2>1, <2>4
<1>7. rate' \in [age : 0..RateTicks, count : 0..ExchangeLimit]
  <2> DEFINE a == Min({rate.age + 1, RateTicks})
  <2>1. a \in 0..RateTicks  BY CappedIs, EntryAssumption DEF EntryTyping
  <2>2. rate' = [rate EXCEPT !.age = a]  BY DEF Tick
  <2> HIDE DEF a
  <2> QED  BY <2>1, <2>2, Zenon DEF EntryTyping
<1> QED  BY <1>2, <1>3, <1>4, <1>5, <1>6, <1>7, StandStill DEF Tick, EntryTyping

\* Who writes when the core begins: the thread that starts it.
Starting ==
    /\ Latest \in 1..MaxNonces
    /\ publishers = [w \in Writers |-> IF w = "start" THEN Opens(Latest) ELSE Quiet]
Started == publishers \in [Writers -> Publisher] /\ WriterInv /\ AloneInv /\ Busy = {"start"}

\* Nobody else writes then.
LEMMA StartIs == Starting => Started
<1> SUFFICES ASSUME Starting PROVE Started  OBVIOUS
<1> DEFINE n == Latest
<1>0. n \in 1..MaxNonces /\ publishers = [w \in Writers |-> IF w = "start" THEN Opens(n) ELSE Quiet]  BY DEF Starting
<1> HIDE DEF n
<1>1. /\ Opens(n) \in Publisher /\ Opens(n).pc = "open" /\ Opens(n).nonce = n /\ Opens(n).open = 0
      /\ Quiet \in Publisher /\ Quiet.pc = "idle" /\ Quiet.open = 0
  BY <1>0, OpensIs, QuietIs, EntryAssumption
<1>2. publishers \in [Writers -> Publisher] /\ "start" \in Writers  BY <1>0, <1>1 DEF Writers
<1>3. publishers["start"] = Opens(n) /\ \A w \in Writers : w # "start" => publishers[w] = Quiet  BY <1>0, <1>2
<1>4. Busy = {"start"}  BY <1>1, <1>2, <1>3 DEF Busy
<1>5. WriterInv
  <2>1. ASSUME NEW w \in Writers
        PROVE  /\ publishers[w].pc # "idle" => publishers[w].nonce = n
               /\ publishers[w].pc # "write" /\ publishers[w].open = 0
    BY <1>1, <1>3
  <2> QED  BY <1>0, <2>1 DEF WriterInv, Stands, n
<1>6. AloneInv  BY <1>1, <1>3, <1>4 DEF AloneInv, Stands, n
<1> QED  BY <1>2, <1>4, <1>5, <1>6 DEF Started

\* The same of the state after a step.
LEMMA StartIsNext == Starting' => Started'
BY StartIs, PTL

\* A core that starts again knows the new nonce only.
LEMMA RestartGoes ==
    ASSUME EntryInv, CoreRestarts
    PROVE  EntryInv'
<1> USE DEF EntryInv
<1> DEFINE new == [age |-> 0, live |-> TRUE]
           Erased(n) == [nonces[n] EXCEPT !.live = FALSE]
<1>0. Latest \in Nat /\ Latest >= 1 /\ Latest + 1 \in 1..MaxNonces /\ MaxNonces \in Nat
  BY EntrySizes DEF CoreRestarts, Latest
<1>1. nonces' = [n \in 1..Latest + 1 |-> IF n > Latest THEN new ELSE Erased(n)]  BY DEF CoreRestarts, Latest
<1>2. new \in NonceRow /\ new.live /\ new.age = 0
  <2>1. 0 \in 0..NonceTTL  BY EntryAssumption
  <2> QED  BY <2>1, Zenon DEF NonceRow
<1>3. ASSUME NEW n \in 1..Latest PROVE Erased(n) \in NonceRow /\ ~Erased(n).live
  <2>1. nonces[n] \in NonceRow /\ FALSE \in BOOLEAN  BY EntrySizes
  <2>2. Erased(n) \in NonceRow /\ Erased(n).live = FALSE  BY <2>1, Zenon DEF NonceRow
  <2> QED  BY <2>2
<1> HIDE DEF new, Erased
<1>4. ASSUME NEW n \in 1..Latest + 1
      PROVE  nonces'[n] \in NonceRow /\ (n = Latest + 1 => nonces'[n] = new) /\ (n # Latest + 1 => ~nonces'[n].live)
  <2>1. n # Latest + 1 => n \in 1..Latest /\ ~(n > Latest)  BY <1>0
  <2>2. n = Latest + 1 => n > Latest  BY <1>0
  <2> QED  BY <1>1, <1>2, <1>3, <2>1, <2>2
<1>5. nonces' \in Seq(NonceRow) /\ Latest' = Latest + 1
  <2>1. nonces' \in [1..Latest + 1 -> NonceRow]  BY <1>1, <1>4
  <2> QED  BY <1>0, <2>1 DEF Latest
<1>6. NoncesGo  BY <1>0, <1>4, <1>5 DEF NoncesGo
<1>7. SpentInv'  BY <1>6, SpentStays DEF CoreRestarts
<1>8. nonces'[Latest + 1] = new  BY <1>0, <1>4
<1>9. LatestInv'
  <2>1. timer' = 0 /\ nonces'[Latest'] = new  BY <1>5, <1>8 DEF CoreRestarts
  <2>2. nonces'[Latest'].live /\ nonces'[Latest'].age = 0  BY <1>2, <2>1
  <2>3. nonces'[Latest'].age <= timer'  BY <2>1, <2>2
  <2> QED  BY <2>2, <2>3 DEF LatestInv
<1>10. publishers' \in [Writers -> Publisher] /\ WriterInv' /\ AloneInv' /\ Busy' = {"start"}
  <2>1. Starting'  BY <1>0, <1>5 DEF Starting, CoreRestarts, Latest
  <2> QED  BY <2>1, StartIsNext DEF Started
<1>11. rate' \in [age : 0..RateTicks, count : 0..ExchangeLimit] /\ timer' \in 0..RefreshEvery
  <2>1. 0 \in 0..RateTicks /\ 0 \in 0..ExchangeLimit /\ 0 \in 0..RefreshEvery  BY EntryAssumption
  <2> QED  BY <2>1, Zenon DEF CoreRestarts
<1>12. EntryTyping'
  <2>1. links' \subseteq 1..Latest' /\ \A i \in Inodes : inodes'[i] <= Latest'
    <3>1. \A i \in Inodes : inodes[i] \in Nat /\ inodes[i] <= Latest  BY EntrySizes DEF EntryTyping
    <3>2. links \subseteq 1..Latest /\ UNCHANGED <<links, inodes>>  BY DEF EntryTyping, CoreRestarts
    <3> QED  BY <1>0, <1>5, <3>1, <3>2
  <2>2. /\ inodes' \in [Inodes -> 0..MaxNonces] /\ names' \in [FileNames -> {0} \cup Inodes]
        /\ disturbed' \in BOOLEAN /\ captured' \in BOOLEAN /\ entryFaults' \in Nat
    BY DEF EntryTyping, CoreRestarts
  <2>3. nonces' \in Seq(NonceRow) /\ Latest' \in 1..MaxNonces  BY <1>0, <1>5
  <2> QED  BY <1>10, <1>11, <2>1, <2>2, <2>3 DEF EntryTyping
<1>13. FileInv'  BY DEF FileInv, CoreRestarts
<1> QED  BY <1>7, <1>9, <1>10, <1>12, <1>13

----
\* The start.
LEMMA EntryBegins ==
    ASSUME EntryInit
    PROVE  EntryInv
<1> DEFINE new == [age |-> 0, live |-> TRUE]
<1>1. nonces = <<new>> /\ new \in NonceRow /\ new.live /\ new.age = 0
  <2>1. 0 \in 0..NonceTTL  BY EntryAssumption
  <2> QED  BY <2>1, Zenon DEF EntryInit, NonceRow
<1> HIDE DEF new
<1>2. nonces \in Seq(NonceRow) /\ Latest = 1 /\ nonces[1] = new  BY <1>1 DEF Latest
<1>3. 1 \in 1..MaxNonces /\ 0 \in 0..MaxNonces  BY EntryAssumption
<1>4. publishers \in [Writers -> Publisher] /\ WriterInv /\ AloneInv /\ Busy = {"start"}
  BY <1>2, <1>3, StartIs DEF EntryInit, Starting, Started
<1>5. rate \in [age : 0..RateTicks, count : 0..ExchangeLimit] /\ timer \in 0..RefreshEvery
  <2>1. 0 \in 0..RateTicks /\ 0 \in 0..ExchangeLimit /\ 0 \in 0..RefreshEvery  BY EntryAssumption
  <2> QED  BY <2>1, Zenon DEF EntryInit
<1>6. names \in [FileNames -> {0} \cup Inodes] /\ names["target"] = 0  BY DEF EntryInit, FileNames
<1>7. EntryTyping  BY <1>2, <1>3, <1>4, <1>5, <1>6 DEF EntryTyping, EntryInit
<1>8. SpentInv
  <2>1. sessions = <<>> /\ Len(sessions) = 0  BY DEF EntryInit
  <2> QED  BY <2>1 DEF SpentInv
<1>9. LatestInv  BY <1>1, <1>2 DEF LatestInv, EntryInit
<1>10. FileInv  BY <1>6 DEF FileInv, EntryInit
<1> QED  BY <1>4, <1>7, <1>8, <1>9, <1>10 DEF EntryInv

\* Every step of the link keeps what holds of it.
LEMMA EntryStep ==
    ASSUME EntryInv, [EntryNext]_entryVars
    PROVE  EntryInv'
<1>1. CASE Renew  BY <1>1, RenewGoes
<1>2. CASE TrayOpens  BY <1>2, TrayGoes
<1>3. CASE Tick  BY <1>3, TickGoes
<1>4. CASE CoreRestarts  BY <1>4, RestartGoes
<1>5. ASSUME NEW w \in Writers, OpenStaging(w) \/ WriteLink(w)
      PROVE  EntryInv'
  BY <1>5, OpenGoes, LinkGoes
<1>6. ASSUME NEW w \in Writers, RenameLink(w) \/ RenameAgain(w)
      PROVE  EntryInv'
  BY <1>6, RenameGoes
<1>7. ASSUME NEW w \in Writers, RenameFails(w) \/ RemoveTarget(w)
      PROVE  EntryInv'
  BY <1>7, FailGoes, RemoveGoes
<1>8. ASSUME NEW n \in links, Exchange(n) \/ ExchangeRefused(n) \/ RateLimited(n)
      PROVE  EntryInv'
  BY <1>8, ExchangeGoes, RefusedGoes, LimitedGoes
<1>9. CASE UNCHANGED entryVars
  BY <1>9 DEF entryVars, EntryInv, EntryTyping, WriterInv, SpentInv, LatestInv, AloneInv, FileInv, Busy, Stands, Latest
<1> QED  BY <1>1, <1>2, <1>3, <1>4, <1>5, <1>6, <1>7, <1>8, <1>9 DEF EntryNext

\* A nonce opens one session within its time, and between publications the file has a link
\* that lets the user in (consume_nonce and issue_nonce in auth.rs, write_entry_url_to and the
\* thread that renews in workbench_serve.rs), for every time of a nonce and every interval
\* shorter than it.
THEOREM EntryInductive == EntrySpec => []EntryInv
<1>1. EntryInit => EntryInv  BY EntryBegins
<1>2. EntryInv /\ [EntryNext]_entryVars => EntryInv'  BY EntryStep
<1> QED  BY <1>1, <1>2, PTL DEF EntrySpec

\* What the run checks of the link holds for every value of the constants.
THEOREM EntryIsSafe == EntrySpec => []EntrySafety
<1>1. EntryInv => EntrySafety
  <2> SUFFICES ASSUME EntryInv PROVE EntrySafety  OBVIOUS
  <2> USE DEF EntryInv
  <2>1. EntryTypeOK
    <3>1. \A w \in Writers : publishers[w].pc \in {"idle", "open", "write", "rename", "remove", "again"}
      BY EntrySizes, Zenon DEF Publisher
    <3> QED  BY <3>1, EntrySizes DEF EntryTypeOK, EntryTyping, FileNames
  <2>2. OneSessionPerNonce
    <3>1. DOMAIN sessions = 1..Len(sessions)  BY DEF SpentInv
    <3> QED  BY <3>1 DEF OneSessionPerNonce, SpentInv
  <2>3. FileLetsIn  BY LatestIsUsable DEF FileLetsIn, FileInv, InFile
  <2>4. NoHalfLink  BY DEF NoHalfLink, FileInv
  <2> QED  BY <2>1, <2>2, <2>3, <2>4 DEF EntrySafety
<1> QED  BY <1>1, EntryInductive, PTL
=============================================================================
