----------------------------- MODULE EntryLink -----------------------------
(* The link that lets the user into the workbench: a nonce good for one    *)
(* session and a short time, printed by the core and kept fresh in a file  *)
(* from which the tray opens a browser (BootstrapAuth in auth.rs, entry.url *)
(* in workbench_serve.rs, tray_status.rs).  The thread that serves, the    *)
(* thread that renews the file and the start of the program all write that *)
(* file.  A publication is taken to be shorter than one tick of the clock. *)
EXTENDS Naturals, FiniteSets, Sequences, FiniteSetsExt

CONSTANTS
    NonceTTL,       \* bootstrap_nonce_ttl_secs, in ticks
    RefreshEvery,   \* entry_refresh_interval_secs, in ticks
    ExchangeLimit,  \* auth_exchange_rate_per_minute
    RateTicks,      \* a minute, in ticks
    MaxNonces,      \* bound: nonces made
    MaxEntryFaults  \* bound: renames that fail, cores that stop

\* The time of a nonce is clamped to 30..600 seconds, the interval to 10..60 and a third of it.
ASSUME EntryAssumption ==
    /\ {NonceTTL, RefreshEvery, ExchangeLimit, RateTicks, MaxNonces} \subseteq Nat \ {0}
    /\ RefreshEvery < NonceTTL /\ MaxEntryFaults \in Nat

VARIABLES
    nonces,         \* each nonce: its age and whether the core still knows it
    rate,           \* the window of the rate limit
    timer,          \* ticks since the file was renewed
    inodes,         \* what the files hold: the nonce of the link, 0 for a file cut short
    names,          \* which file the two names stand for, 0 for none
    publishers,     \* who is writing: where it stands, its nonce and its open file
    captured,       \* the tray still has the link that the core it started printed (nonce 1)
    links,          \* links handed to a browser
    sessions,       \* observer: the nonce behind each session, and its age at the time
    disturbed,      \* observer: a publication met another, failed or was cut short
    entryFaults     \* faults so far

entryVars == <<nonces, rate, timer, inodes, names, publishers, captured, links, sessions,
               disturbed, entryFaults>>

Writers == {"start", "renew", "serve"}
Inodes == 1..4
Quiet == [pc |-> "idle", nonce |-> 0, open |-> 0, met |-> FALSE]
Busy == {w \in Writers : publishers[w].pc # "idle"}

EntryTypeOK ==
    /\ \A n \in DOMAIN nonces : nonces[n].age \in 0..NonceTTL
    /\ rate \in [age : 0..RateTicks, count : 0..ExchangeLimit] /\ timer \in 0..RefreshEvery
    /\ inodes \in [Inodes -> 0..MaxNonces]
    /\ names \in [{"target", "staging"} -> {0} \cup Inodes]
    /\ \A w \in Writers :
         publishers[w].pc \in {"idle", "open", "write", "rename", "remove", "again"}

\* serve_workbench_full: the first nonce, to be written by the thread that starts the program.
Opens(n) == [Quiet EXCEPT !.pc = "open", !.nonce = n]
EntryInit ==
    /\ nonces = <<[age |-> 0, live |-> TRUE]>>
    /\ rate = [age |-> 0, count |-> 0] /\ timer = 0
    /\ inodes = [i \in Inodes |-> 0]
    /\ names = [f \in {"target", "staging"} |-> 0]
    /\ publishers = [w \in Writers |-> IF w = "start" THEN Opens(1) ELSE Quiet]
    /\ captured = TRUE
    /\ links = {} /\ sessions = <<>> /\ disturbed = TRUE /\ entryFaults = 0

\* Slip: known is enough.
UsableIfKnown(n) == nonces[n].live
Usable(n) == nonces[n].live /\ nonces[n].age < NonceTTL

\* issue_nonce: a new one, and those that are past their time are forgotten.
Issued(ns) == [n \in 1..Len(ns) + 1 |->
                 IF n > Len(ns) THEN [age |-> 0, live |-> TRUE]
                 ELSE [ns[n] EXCEPT !.live = @ /\ ns[n].age < NonceTTL]]
Publish(w, n) ==
    /\ publishers' = [x \in Writers |->
                         IF x = w THEN [Opens(n) EXCEPT !.met = Busy # {}]
                         ELSE [publishers[x] EXCEPT !.met = @ \/ publishers[x].pc # "idle"]]
    /\ disturbed' = (disturbed \/ Busy # {})
\* The serving thread holds the lock of the state while it publishes.
LockFree == publishers["serve"].pc = "idle"

Renew ==
    /\ timer = RefreshEvery /\ publishers["renew"].pc = "idle" /\ LockFree
    /\ Len(nonces) < MaxNonces
    /\ nonces' = Issued(nonces) /\ timer' = 0
    /\ Publish("renew", Len(nonces) + 1)
    /\ UNCHANGED <<rate, inodes, names, captured, links, sessions, entryFaults>>

(***************************************************************************)
(* write_entry_url_to: a staging file is written and renamed.  Both names  *)
(* are shared by all writers; a writer goes on writing to the file it      *)
(* opened whatever its name is by then.                                    *)
(***************************************************************************)
WriterGoes(w, p) == publishers' = [publishers EXCEPT ![w] = p]
EntryRest == UNCHANGED <<nonces, rate, timer, captured, links, sessions>>
Free == CHOOSE i \in Inodes : i \notin {names["target"], names["staging"]}
                                      \cup {publishers[w].open : w \in Writers}

OpenStaging(w) ==
    LET i == IF names["staging"] # 0 THEN names["staging"] ELSE Free IN
    /\ publishers[w].pc = "open"
    /\ names' = [names EXCEPT !["staging"] = i]
    /\ inodes' = [inodes EXCEPT ![i] = 0]
    /\ WriterGoes(w, [publishers[w] EXCEPT !.pc = "write", !.open = i])
    /\ EntryRest /\ UNCHANGED <<disturbed, entryFaults>>

WriteLink(w) ==
    /\ publishers[w].pc = "write"
    /\ inodes' = [inodes EXCEPT ![publishers[w].open] = publishers[w].nonce]
    /\ WriterGoes(w, [publishers[w] EXCEPT !.pc = "rename", !.open = 0])
    /\ EntryRest /\ UNCHANGED <<names, disturbed, entryFaults>>

\* A publication that was alone and succeeded settles what the earlier ones disturbed.
Published(w) ==
    /\ WriterGoes(w, Quiet)
    /\ disturbed' = publishers[w].met
Renamed == names' = [target |-> names["staging"], staging |-> 0]

RenameLink(w) ==
    /\ publishers[w].pc = "rename" /\ names["staging"] # 0
    /\ Renamed /\ Published(w)
    /\ EntryRest /\ UNCHANGED <<inodes, entryFaults>>

\* The staging file is gone, or the rename does not replace a file that is being read.
RenameFails(w) ==
    /\ publishers[w].pc = "rename"
    /\ \/ names["staging"] = 0 /\ UNCHANGED entryFaults
       \/ names["staging"] # 0 /\ entryFaults < MaxEntryFaults /\ entryFaults' = entryFaults + 1
    /\ WriterGoes(w, [publishers[w] EXCEPT !.pc = "remove"])
    /\ EntryRest /\ UNCHANGED <<inodes, names, disturbed>>

RemoveTarget(w) ==
    /\ publishers[w].pc = "remove"
    /\ names' = [names EXCEPT !["target"] = 0]
    /\ WriterGoes(w, [publishers[w] EXCEPT !.pc = "again"])
    /\ EntryRest /\ UNCHANGED <<inodes, disturbed, entryFaults>>

RenameAgain(w) ==
    /\ publishers[w].pc = "again"
    /\ IF names["staging"] # 0 THEN Renamed /\ Published(w)
       ELSE WriterGoes(w, Quiet) /\ disturbed' = TRUE /\ UNCHANGED names
    /\ EntryRest /\ UNCHANGED <<inodes, entryFaults>>

(***************************************************************************)
(* The exchange of a nonce for a session.                                  *)
(***************************************************************************)
Window == IF rate.age >= RateTicks THEN [age |-> 0, count |-> 0] ELSE rate
Within == Window.count < ExchangeLimit
Counted == rate' = [Window EXCEPT !.count = @ + 1]
Arrives(n) == n \in links /\ LockFree /\ links' = links \ {n}

\* Slips: the nonce stays; the file is left to the thread that renews it.
NotRemoved(n) == nonces
Removed(n) == [nonces EXCEPT ![n].live = FALSE]
NoReissue(n) == UNCHANGED <<publishers, disturbed>>
Reissue(n) == Publish("serve", n)

\* A nonce is removed before its age is looked at, and the file is renewed at once: its link
\* may be the one just used.
Exchange(n) ==
    /\ Arrives(n) /\ Within /\ Counted
    /\ Usable(n) /\ Len(nonces) < MaxNonces
    /\ nonces' = Issued(Removed(n))
    /\ sessions' = Append(sessions, [nonce |-> n, age |-> nonces[n].age])
    /\ Reissue(Len(nonces) + 1)
    /\ UNCHANGED <<timer, inodes, names, captured, entryFaults>>

ExchangeRefused(n) ==
    /\ Arrives(n) /\ Within /\ Counted
    /\ ~Usable(n)
    /\ nonces' = Removed(n)
    /\ UNCHANGED <<timer, inodes, names, publishers, captured, sessions, disturbed, entryFaults>>

RateLimited(n) ==
    /\ Arrives(n) /\ ~Within
    /\ rate' = Window
    /\ UNCHANGED <<nonces, timer, inodes, names, publishers, captured, sessions, disturbed,
                   entryFaults>>

(***************************************************************************)
(* The tray, the clock, and a core that stops.                             *)
(***************************************************************************)
\* read_entry_url: a file that is no link is not used.
InFile == IF names["target"] = 0 THEN 0 ELSE inodes[names["target"]]
\* open_target: the captured link once, then the file; without either the bare address.
Captured == captured /\ publishers["start"].pc = "idle"
OpenTarget == IF Captured THEN 1 ELSE InFile
TrayOpens ==
    /\ OpenTarget \notin links
    /\ links' = links \cup ({OpenTarget} \ {0})
    /\ captured' = (captured /\ ~Captured)
    /\ UNCHANGED <<nonces, rate, timer, inodes, names, publishers, sessions, disturbed,
                   entryFaults>>

\* entry_refresh_interval_secs: the thread that renews the file is not late by a tick.
Tick ==
    /\ Busy = {} /\ timer < RefreshEvery
    /\ timer' = timer + 1
    /\ nonces' = [n \in DOMAIN nonces |-> [nonces[n] EXCEPT !.age = Min({@ + 1, NonceTTL})]]
    /\ rate' = [rate EXCEPT !.age = Min({@ + 1, RateTicks})]
    /\ UNCHANGED <<inodes, names, publishers, captured, links, sessions, disturbed, entryFaults>>

\* All of it is in memory: after a restart only the file is left, with a link nobody knows.
CoreRestarts ==
    /\ entryFaults < MaxEntryFaults /\ entryFaults' = entryFaults + 1
    /\ Len(nonces) < MaxNonces
    /\ nonces' = [n \in 1..Len(nonces) + 1 |->
                    IF n > Len(nonces) THEN [age |-> 0, live |-> TRUE]
                    ELSE [nonces[n] EXCEPT !.live = FALSE]]
    /\ rate' = [age |-> 0, count |-> 0] /\ timer' = 0
    /\ publishers' = [w \in Writers |-> IF w = "start" THEN Opens(Len(nonces) + 1) ELSE Quiet]
    /\ disturbed' = TRUE
    /\ UNCHANGED <<inodes, names, captured, links, sessions>>

EntryNext ==
    \/ Renew \/ TrayOpens \/ Tick \/ CoreRestarts
    \/ \E w \in Writers : \/ OpenStaging(w) \/ WriteLink(w) \/ RenameLink(w)
                          \/ RenameFails(w) \/ RemoveTarget(w) \/ RenameAgain(w)
    \/ \E n \in links : Exchange(n) \/ ExchangeRefused(n) \/ RateLimited(n)

EntrySpec == EntryInit /\ [][EntryNext]_entryVars
-----------------------------------------------------------------------------
\* A nonce opens one session at most, and none after its time.
OneSessionPerNonce ==
    /\ \A i, j \in DOMAIN sessions : sessions[i].nonce = sessions[j].nonce => i = j
    /\ \A i \in DOMAIN sessions : sessions[i].age < NonceTTL

\* Between publications the file holds a link that lets the user in: never the one that was
\* just used, never one that has run out while nobody came; unless two publications met or
\* the last one failed, and then until the next that is alone.
FileLetsIn == Busy = {} /\ ~disturbed => InFile # 0 /\ Usable(InFile)

\* Nobody reads a link cut short, unless publications met.
NoHalfLink == ~disturbed /\ names["target"] # 0 => inodes[names["target"]] # 0

EntrySafety == EntryTypeOK /\ OneSessionPerNonce /\ FileLetsIn /\ NoHalfLink
=============================================================================
