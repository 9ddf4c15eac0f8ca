-------------------------- MODULE MCPlatformProofs --------------------------
(***************************************************************************)
(* The components that MCPlatform puts side by side, together: what is     *)
(* proved of each of them alone holds of all, for every value of their     *)
(* constants.                                                              *)
(***************************************************************************)
EXTENDS MCPlatform, PlatformProofs, StoreProofs

----
(* All of them together.                                                   *)

\* Every component moves by its own steps, whichever of them the first state chose.
LEMMA EachMoves ==
    ASSUME [Next]_vars
    PROVE  /\ [OwnerNext]_ownerVars /\ [CapabilityNext]_capabilityVars /\ [MountNext]_mountVars
           /\ [MergeNext]_mergeVars /\ [MigrationNext]_migrationVars /\ [GateNext]_gateVars
           /\ [AdHocNext]_adHocVars /\ [EntryNext]_entryVars /\ [AccessNext]_accessVars
           /\ [PipeNext]_pipeVars /\ [NeedsNext]_needsVars
<1>1. CASE Next  BY <1>1 DEF Next
<1>2. CASE UNCHANGED vars  BY <1>2 DEF vars
<1> QED  BY <1>1, <1>2

\* So each of them behaves as it does alone.
LEMMA EachBehaves ==
    Spec => /\ OwnerSpec /\ CapabilitySpec /\ MountSpec /\ MergeSpec /\ MigrationSpec
            /\ GateSpec /\ AdHocSpec /\ EntrySpec /\ AccessSpec /\ PipeSpec /\ NeedsSpec
<1>1. Init => /\ OwnerInit /\ CapabilityInit /\ MountInit /\ MergeInit /\ MigrationInit
              /\ GateInit /\ AdHocInit /\ EntryInit /\ AccessInit /\ PipeInit /\ NeedsInit
  BY DEF Init
<1>2. [Next]_vars =>
           /\ [OwnerNext]_ownerVars /\ [CapabilityNext]_capabilityVars /\ [MountNext]_mountVars
           /\ [MergeNext]_mergeVars /\ [MigrationNext]_migrationVars /\ [GateNext]_gateVars
           /\ [AdHocNext]_adHocVars /\ [EntryNext]_entryVars /\ [AccessNext]_accessVars
           /\ [PipeNext]_pipeVars /\ [NeedsNext]_needsVars
  BY EachMoves
<1> QED  BY <1>1, <1>2, PTL DEF Spec, OwnerSpec, CapabilitySpec, MountSpec, MergeSpec, MigrationSpec, GateSpec,
    AdHocSpec, EntrySpec, AccessSpec, PipeSpec, NeedsSpec


\* What the run checks of the runs that a project started and closed.
LEMMA CapabilitiesHold == CapabilitySpec => []CapabilitySafety
<1>1. CapabilityTypeOK /\ OneRunPerToken /\ UncopiedIsNotQuarantined => CapabilitySafety  BY DEF CapabilitySafety
<1> QED  BY <1>1, CapabilityTypes, OneRunPerTokenAlways, UncopiedIsNotQuarantinedAlways, PTL

\* What the run checks of these components holds together, for every value of the constants.
THEOREM PlatformIsSafe == Spec => []PlatformSafety
<1>1. /\ OwnerSafety /\ CapabilitySafety /\ MountSafety /\ MergeSafety /\ MigrationSafety
      /\ GateSafety /\ AdHocSafety /\ EntrySafety /\ AccessSafety /\ PipeSafety /\ NeedsSafety
      => PlatformSafety
  BY DEF PlatformSafety
<1> QED  BY <1>1, EachBehaves, OneOwnerAlways, CapabilitiesHold, MountIsSafe, MergeIsSafe, MigrationIsSafe, GateIsSafe,
    AdHocIsSafe, EntryIsSafe, AccessIsSafe, PipeIsSafe, NeedsIsSafe, PTL

\* No step displaces a core that is alive, settles or reports a run that a close has revoked,
\* takes a schema back or a backup away, or brings an ended session back, for every value of
\* the constants.
THEOREM PlatformStepsAlways == Spec => PlatformSteps
BY EachBehaves, FreshOwnerStaysAlways, RevokedForGoodAlways, SchemaNeverGoesBackAlways, AdHocEndStays, PTL DEF
  PlatformSteps
=============================================================================
