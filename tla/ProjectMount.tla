---------------------------- MODULE ProjectMount ----------------------------
(***************************************************************************)
(* How a directory becomes a project that runs (project_registry.rs,       *)
(* workbench_serve.rs, execution_ports.rs).  The registry of the service   *)
(* store knows the projects by their root and every folder by its owner; a *)
(* mount asks whose folder the path is, attaches that project to the       *)
(* kernel, and then gives it a scheduler and its ports, in steps that      *)
(* other requests get between.                                             *)
(*                                                                         *)
(* A project has the name of its root, which is unique and keeps the       *)
(* handle.  Paths are canonical already.                                   *)
(***************************************************************************)
EXTENDS Integers, FiniteSets

CONSTANTS
    Paths,
    Requests,     \* mounts under way at a time
    MaxMountWork  \* bound: mounts begun, starts of the core, directories moved

ASSUME MountAssumption == IsFiniteSet(Paths) /\ IsFiniteSet(Requests) /\ MaxMountWork \in Nat

VARIABLES
    present,     \* directories that exist
    projectRow,  \* project_registry: none, registered or missing
    folderRow,   \* project_folders: the owner and kind of a path
    imported,    \* the marker of the session import
    mounted,     \* projects the kernel has attached
    schedulers,  \* orchestrators running on each project store
    listed,      \* projects in the map of orchestrators
    ports,       \* projects with a lifecycle port and a start port
    mount,       \* how far each request has come, and with which path
    overtaken,   \* observer: paths given away, or imported, around a request for them
    overlapped,  \* observer: projects two requests have assembled at the same time
    unready,     \* observer: projects detached, or whose assembly failed, in this core
    mountWork

mountVars == <<present, projectRow, folderRow, imported, mounted, schedulers, listed, ports, mount,
               overtaken, overlapped, unready, mountWork>>
registry == <<projectRow, folderRow, imported>>
execution == <<schedulers, listed, ports>>
around == <<overtaken, overlapped, unready>>

NoPath == "none"
Unowned == [project |-> NoPath, kind |-> "none"]
Resting == [stage |-> "idle", path |-> NoPath]

MountTypeOK ==
    /\ present \subseteq Paths
    /\ projectRow \in [Paths -> {"none", "registered", "missing"}]
    /\ \A p \in Paths : folderRow[p] \in {Unowned} \cup [project : Paths, kind : {"primary", "additional"}]
    /\ mounted \subseteq Paths /\ listed \subseteq Paths /\ ports \subseteq Paths
    /\ schedulers \in [Paths -> Nat] /\ imported \in BOOLEAN /\ mountWork \in 0..MaxMountWork

MountInit ==
    /\ present = Paths /\ imported = FALSE
    /\ projectRow = [p \in Paths |-> "none"] /\ folderRow = [p \in Paths |-> Unowned]
    /\ mounted = {} /\ listed = {} /\ ports = {} /\ schedulers = [p \in Paths |-> 0]
    /\ mount = [r \in Requests |-> Resting]
    /\ overtaken = {} /\ overlapped = {} /\ unready = {} /\ mountWork = 0

MountBudget == mountWork < MaxMountWork /\ mountWork' = mountWork + 1
At(r, stage) == mount[r].stage = stage
Goes(r, stage, p) == mount' = [mount EXCEPT ![r] = [stage |-> stage, path |-> p]]
Ends(r) == mount' = [mount EXCEPT ![r] = Resting]

-----------------------------------------------------------------------------
(* The registry.                                                           *)

\* INSERT OR IGNORE of the primary row: the path may be somebody's folder already.
WithPrimary(rows, roots) ==
    [p \in Paths |-> IF p \in roots /\ rows[p] = Unowned THEN [project |-> p, kind |-> "primary"]
                     ELSE rows[p]]

\* The conflict is looked up in the same transaction.
AddFolder(h, p) ==
    /\ p \in present /\ projectRow[h] # "none"
    /\ folderRow[p] = Unowned
    /\ folderRow' = [folderRow EXCEPT ![p] = [project |-> h, kind |-> "additional"]]
    /\ overtaken' = overtaken \cup {q \in {p} : \E r \in Requests : At(r, "resolved") /\ mount[r].path = q}
    /\ UNCHANGED <<present, projectRow, imported, mounted, execution, mount, overlapped, unready,
                   mountWork>>

RemoveFolder(h, p) ==
    /\ folderRow[p] = [project |-> h, kind |-> "additional"]
    /\ folderRow' = [folderRow EXCEPT ![p] = Unowned]
    /\ UNCHANGED <<present, projectRow, imported, mounted, execution, mount, around, mountWork>>

\* The projects of the old session file, once; what cannot be found is listed as missing.
ImportSession(S) ==
    /\ ~imported /\ imported' = TRUE
    /\ projectRow' = [p \in Paths |->
          IF p \in S /\ projectRow[p] = "none"
          THEN IF p \in present THEN "registered" ELSE "missing"
          ELSE projectRow[p]]
    /\ folderRow' = WithPrimary(folderRow, {p \in Paths : projectRow'[p] # "none"})
    /\ overtaken' = overtaken \cup {p \in S : folderRow[p].kind = "additional"}
    /\ UNCHANGED <<present, mounted, execution, mount, overlapped, unready, mountWork>>

-----------------------------------------------------------------------------
(* A mount.                                                                *)

\* Mutant of HomeOf: additional folders are not looked at.
HomeOfRoot(p) == p
\* resolve_project_folder: the root of the project that owns the path.
HomeOf(p) == IF folderRow[p] = Unowned THEN p ELSE folderRow[p].project

ResolveMount(r, p) ==
    /\ At(r, "idle") /\ p \in present /\ MountBudget
    /\ Goes(r, "resolved", HomeOf(p))
    /\ UNCHANGED <<present, registry, mounted, execution, around>>

\* The registry row in one transaction, then the store of the project in the kernel.
AttachProject(r) ==
    LET p == mount[r].path
    IN  /\ At(r, "resolved") /\ p \in present
        /\ projectRow' = [projectRow EXCEPT ![p] = "registered"]
        /\ folderRow' = WithPrimary(folderRow, {p})
        /\ mounted' = mounted \cup {p}
        /\ Goes(r, "attached", p)
        /\ UNCHANGED <<present, imported, execution, around, mountWork>>

AttachFails(r) ==
    /\ At(r, "resolved") /\ mount[r].path \notin present
    /\ Ends(r)
    /\ UNCHANGED <<present, registry, mounted, execution, around, mountWork>>

\* Mutant of Assembled: the ports are looked at instead of the map.
HasPorts(p) == p \in ports
Assembled(p) == p \in listed

AlreadyAssembled(r) ==
    /\ At(r, "attached") /\ Assembled(mount[r].path)
    /\ Ends(r)
    /\ UNCHANGED <<present, registry, mounted, execution, around, mountWork>>

BeginAssembly(r) ==
    LET p == mount[r].path
    IN  /\ At(r, "attached") /\ ~Assembled(p)
        /\ Goes(r, "assembling", p)
        /\ overlapped' = overlapped \cup
              {q \in {p} : \E o \in Requests \ {r} : At(o, "assembling") /\ mount[o].path = q}
        /\ UNCHANGED <<present, registry, mounted, execution, overtaken, unready, mountWork>>

\* The scheduler runs its recovery and its threads before it is listed.
StartScheduler(r) ==
    LET p == mount[r].path
    IN  /\ At(r, "assembling")
        /\ schedulers' = [schedulers EXCEPT ![p] = @ + 1]
        /\ listed' = listed \cup {p}
        /\ Goes(r, "started", p)
        /\ UNCHANGED <<present, registry, mounted, ports, around, mountWork>>

\* The registration is looked up, the actions that are owed are executed, and the ports are
\* put in, whatever has become of the project meanwhile.
RecoverActions(r) ==
    /\ At(r, "started") /\ mount[r].path \in mounted
    /\ Goes(r, "recovered", mount[r].path)
    /\ UNCHANGED <<present, registry, mounted, execution, around, mountWork>>

RegisterPorts(r) ==
    /\ At(r, "recovered")
    /\ ports' = ports \cup {mount[r].path}
    /\ Ends(r)
    /\ UNCHANGED <<present, registry, mounted, schedulers, listed, around, mountWork>>

\* A detach in between, or an action that cannot be executed: the scheduler goes on, listed.
AssemblyFails(r) ==
    /\ mount[r].stage \in {"assembling", "started"}
    /\ unready' = unready \cup {mount[r].path}
    /\ Ends(r)
    /\ UNCHANGED <<present, registry, mounted, execution, overtaken, overlapped, mountWork>>

\* The kernel forgets the project and its ports; the scheduler is not told.
DetachProject(p) ==
    /\ p \in mounted
    /\ mounted' = mounted \ {p} /\ ports' = ports \ {p}
    /\ unready' = unready \cup {p}
    /\ UNCHANGED <<present, registry, schedulers, listed, mount, overtaken, overlapped, mountWork>>

-----------------------------------------------------------------------------
CoreRestart ==
    /\ MountBudget
    /\ mounted' = {} /\ ports' = {} /\ listed' = {} /\ schedulers' = [p \in Paths |-> 0]
    /\ mount' = [r \in Requests |-> Resting]
    /\ overlapped' = {} /\ unready' = {}
    /\ UNCHANGED <<present, registry, overtaken>>

DirectoryMoves(p) ==
    /\ MountBudget
    /\ present' = IF p \in present THEN present \ {p} ELSE present \cup {p}
    /\ UNCHANGED <<registry, mounted, execution, mount, around>>

MountNext ==
    \/ \E h, p \in Paths : AddFolder(h, p) \/ RemoveFolder(h, p)
    \/ \E S \in SUBSET Paths : ImportSession(S)
    \/ \E r \in Requests, p \in Paths : ResolveMount(r, p)
    \/ \E r \in Requests : AttachProject(r) \/ AttachFails(r) \/ AlreadyAssembled(r) \/ BeginAssembly(r)
    \/ \E r \in Requests : StartScheduler(r) \/ RecoverActions(r) \/ RegisterPorts(r) \/ AssemblyFails(r)
    \/ \E p \in Paths : DetachProject(p) \/ DirectoryMoves(p)
    \/ CoreRestart

MountSpec == MountInit /\ [][MountNext]_mountVars

-----------------------------------------------------------------------------
\* The folder of one project does not become the root of another, unless it was given away
\* between the two halves of a mount, or the session file lists it.
FolderIsNoRoot ==
    \A p \in Paths :
        folderRow[p].kind = "additional" /\ folderRow[p].project # p /\ projectRow[p] # "none" =>
            p \in overtaken

\* Two schedulers work on one store only if two mounts of it were assembled at the same time:
\* neither detaching nor mounting again, from whichever folder, starts a second one.
OneScheduler == \A p \in Paths : schedulers[p] > 1 => p \in overlapped

\* A listed project that is mounted and not being assembled has its ports, unless it was
\* detached or its assembly failed in this life of the core.
ListedIsReady ==
    \A p \in listed \cap mounted :
        \/ p \in ports \cup unready
        \/ \E r \in Requests : mount[r].stage \in {"started", "recovered"} /\ mount[r].path = p

MountSafety == MountTypeOK /\ FolderIsNoRoot /\ OneScheduler /\ ListedIsReady
=============================================================================
