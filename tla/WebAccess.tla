----------------------------- MODULE WebAccess -----------------------------
(* Who may write from a browser: web sessions with their roles             *)
(* (BootstrapAuth in auth.rs), the controller lease of the kernel, and the *)
(* tabs, which share one cookie per browser and each keep what they last   *)
(* learnt about their session (authorize, takeover_core and command_core   *)
(* in workbench_serve.rs, client.ts, main.tsx).  A tab that is turned away *)
(* asks who it is now and tries once more.  How a nonce is obtained is     *)
(* EntryLink; what a command does once it is dispatched is elsewhere.      *)
EXTENDS Naturals, Sequences, FiniteSets, FiniteSetsExt

CONSTANTS
    Tabs, BrowserOf,    \* tabs, and the browser of each: [Tabs -> Browsers]
    SlidingTTL,         \* web_session_ttl_secs, in ticks
    AbsoluteTTL,        \* WEB_SESSION_ABSOLUTE_MAX_SECS, in ticks
    MaxSessions,        \* bound: sessions opened
    MaxClicks,          \* bound: writes the users ask for
    MaxAccessFaults     \* bound: answers lost, restarts

ASSUME AccessAssumption ==
    /\ {MaxSessions, MaxClicks, SlidingTTL, AbsoluteTTL} \subseteq Nat \ {0}
    /\ MaxAccessFaults \in Nat

VARIABLES
    webSessions,    \* BootstrapAuth.sessions: role and ages in ticks, in the order opened
    lease,          \* the kernel's controller: the session of its client, and the epoch
    cookie,         \* each browser's mf_session, 0 for none
    tab,            \* each tab's context: session it believes in (client and CSRF), epoch, role
    request,        \* the one write of a tab that is on its way
    clicks,
    told,           \* observer: what each click was answered
    through,         \* observer: the writes that the server let through
    accessFaults    \* faults so far

accessVars == <<webSessions, lease, cookie, tab, request, clicks, told, through,
                accessFaults>>

Browsers == {BrowserOf[t] : t \in Tabs}
NoTab == [who |-> 0, epoch |-> 0, role |-> "none"]
NoRequest == [at |-> "none"]
\* A write: what the user asked, the headers of this try and the body, which is built once.
WriteKinds == {"command", "route", "takeover"}

AccessTypeOK ==
    /\ \A i \in DOMAIN webSessions : webSessions[i].role \in {"controller", "observer", "gone"}
    /\ lease.who \in 0..MaxSessions /\ lease.epoch \in Nat
    /\ cookie \in [Browsers -> 0..MaxSessions]
    /\ \A t \in Tabs : /\ tab[t].role \in {"none", "controller", "observer"}
                        /\ tab[t].who \in 0..MaxSessions
    /\ \A t \in Tabs : request[t].at \in {"none", "sent", "answered", "probed"}

AccessInit ==
    /\ webSessions = <<>> /\ lease = [who |-> 0, epoch |-> 0]
    /\ cookie = [b \in Browsers |-> 0] /\ tab = [t \in Tabs |-> NoTab]
    /\ request = [t \in Tabs |-> NoRequest]
    /\ clicks = 0 /\ told = <<>> /\ through = {} /\ accessFaults = 0

(***************************************************************************)
(* The sessions of the server.  A handler runs to its end before another.  *)
(***************************************************************************)
Known(s) == s \in DOMAIN webSessions /\ webSessions[s].role # "gone"
\* verify: past either time the session is removed.
\* Slip: activity keeps a session for ever.
InTimeWhileSeen(s) == webSessions[s].idle < SlidingTTL
InTime(s) == webSessions[s].idle < SlidingTTL /\ webSessions[s].age < AbsoluteTTL
Valid(s) == Known(s) /\ InTime(s)
Gone == [role |-> "gone", idle |-> 0, age |-> 0]
Forgotten(s) == [webSessions EXCEPT ![s] = Gone]
Touched(s) == [webSessions EXCEPT ![s].idle = 0]
Demoted(ws) == [i \in DOMAIN ws |->
                  IF ws[i].role = "controller" THEN [ws[i] EXCEPT !.role = "observer"] ELSE ws[i]]
Verified(s) ==
    IF Valid(s) THEN Touched(s) ELSE IF Known(s) THEN Forgotten(s) ELSE webSessions

\* grant_controller: the kernel's lease goes to the client, with the next epoch.
Granted(s) == lease' = [who |-> s, epoch |-> lease.epoch + 1]

\* auth_exchange with a good nonce: the new session is the controller and every other observes.
NewSession == [role |-> "controller", idle |-> 0, age |-> 0]
\* Slip: the old controller goes on.
OpenedToo == Append(webSessions, NewSession)
Opened == Append(Demoted(webSessions), NewSession)
Bootstrap(t) ==
    LET s == Len(webSessions) + 1 IN
    /\ request[t].at = "none" /\ s <= MaxSessions
    /\ webSessions' = Opened
    /\ Granted(s)
    /\ cookie' = [cookie EXCEPT ![BrowserOf[t]] = s]
    /\ tab' = [tab EXCEPT ![t] = [who |-> s, epoch |-> lease.epoch + 1, role |-> "controller"]]
    /\ UNCHANGED <<request, clicks, told, through, accessFaults>>

\* bootstrap of main.tsx without a nonce: auth_session says who the cookie stands for now.
Context(s) == [who |-> s, epoch |-> lease.epoch, role |-> webSessions[s].role]
Reload(t) ==
    LET s == cookie[BrowserOf[t]] IN
    /\ tab[t] # NoTab /\ request[t].at = "none"
    /\ webSessions' = Verified(s)
    /\ tab' = [tab EXCEPT ![t] = IF Valid(s) THEN Context(s) ELSE NoTab]
    /\ UNCHANGED <<lease, cookie, request, clicks, told, through, accessFaults>>

(***************************************************************************)
(* A write of a tab.                                                       *)
(***************************************************************************)
\* The headers are those of the tab, the cookie that of the browser at this moment.
Sent(t, w) == [w EXCEPT !.at = "sent", !.cookie = cookie[BrowserOf[t]], !.who = tab[t].who]
Click(t, kind) ==
    /\ clicks < MaxClicks /\ clicks' = clicks + 1
    /\ tab[t] # NoTab /\ request[t].at = "none"
    /\ (kind = "command") => tab[t].role = "controller"
    /\ (kind = "takeover") => tab[t].role = "observer"
    /\ told' = Append(told, "nothing")
    /\ request' = [request EXCEPT ![t] =
         Sent(t, [at |-> "sent", kind |-> kind, id |-> clicks + 1, cookie |-> 0, who |-> 0,
                  client |-> tab[t].who, epoch |-> tab[t].epoch, held |-> lease, tries |-> 1,
                  second |-> FALSE, answer |-> "none", current |-> 0])]
    /\ UNCHANGED <<webSessions, lease, cookie, tab, through, accessFaults>>

\* authorize: the session of the cookie, its CSRF token, the client that the header names,
\* and for all but a takeover its role.
\* Slip: any session may write.
AuthorizeAny(w) ==
    IF ~Valid(w.cookie) THEN "unauthenticated"
    ELSE IF w.who # w.cookie THEN "csrf_rejected" ELSE "ok"
Authorize(w) ==
    IF ~Valid(w.cookie) THEN "unauthenticated"
    ELSE IF w.who # w.cookie THEN "csrf_rejected"
    ELSE IF w.kind # "takeover" /\ webSessions[w.cookie].role # "controller"
    THEN "controller_required" ELSE "ok"
\* command_core, and the kernel's own look at the lease.
KernelTakes(w) ==
    IF w.client # w.cookie THEN "invalid_envelope"
    ELSE IF lease # [who |-> w.client, epoch |-> w.epoch] THEN "controller_lease_expired" ELSE "ok"
\* takeover_core: the epoch must be the one last seen.
MayTake(w) == IF w.epoch # lease.epoch THEN "controller_lease_expired" ELSE "ok"
Verdict(w) ==
    IF Authorize(w) # "ok" THEN Authorize(w)
    ELSE CASE w.kind = "command" -> KernelTakes(w)
           [] w.kind = "takeover" -> MayTake(w)
           [] OTHER -> "ok"

\* promote_controller: after the kernel has granted, everyone else observes.
\* Slip: the others stay what they are.
PromotedToo(s) == [Touched(s) EXCEPT ![s].role = "controller"]
Promoted(s) == [Demoted(Touched(s)) EXCEPT ![s].role = "controller"]
AnswerGoes(t, a) ==
    request' = [request EXCEPT ![t].at = "answered", ![t].answer = a, ![t].current = lease'.epoch]
Landing(w) ==
    [id |-> w.id, try |-> <<w.tries, w.second>>, kind |-> w.kind, by |-> w.cookie,
     role |-> webSessions[w.cookie].role, holder |-> lease.who, moved |-> lease # w.held,
     late |-> webSessions[w.cookie].idle >= SlidingTTL \/ webSessions[w.cookie].age >= AbsoluteTTL]
Handle(t) ==
    LET w == request[t] IN
    /\ w.at = "sent"
    /\ IF Verdict(w) = "ok"
       THEN /\ through' = through \cup {Landing(w)}
            /\ IF w.kind = "takeover" THEN webSessions' = Promoted(w.cookie) /\ Granted(w.cookie)
               ELSE webSessions' = Touched(w.cookie) /\ UNCHANGED lease
       ELSE /\ webSessions' = IF Valid(w.cookie) /\ w.who # w.cookie THEN webSessions
                              ELSE Verified(w.cookie)
            /\ UNCHANGED <<lease, through>>
    /\ AnswerGoes(t, Verdict(w))
    /\ UNCHANGED <<cookie, tab, clicks, told, accessFaults>>

\* The answer is lost, or the page is closed: the tab knows nothing.
Lost(t) ==
    /\ request[t].at = "answered"
    /\ accessFaults < MaxAccessFaults /\ accessFaults' = accessFaults + 1
    /\ request' = [request EXCEPT ![t] = NoRequest]
    /\ told' = [told EXCEPT ![request[t].id] = "lost"]
    /\ UNCHANGED <<webSessions, lease, cookie, tab, clicks, through>>

(***************************************************************************)
(* What the tab makes of the answer.                                       *)
(***************************************************************************)
Unknown == {"unauthenticated", "csrf_rejected"}
Heals(w) == w.answer \in Unknown /\ w.tries = 1
TellRest == UNCHANGED <<lease, cookie, clicks, through, accessFaults>>

\* write: turned away because the session is another now, the tab asks once who it is
\* (refreshFromServerSession) and sends the same write again with the new headers.
Probe(t) ==
    LET s == cookie[BrowserOf[t]] IN
    /\ request[t].at = "answered" /\ Heals(request[t])
    /\ webSessions' = Verified(s)
    /\ IF Valid(s)
       THEN /\ tab' = [tab EXCEPT ![t] = Context(s)]
            /\ request' = [request EXCEPT ![t] = [@ EXCEPT !.at = "probed", !.tries = 2]]
            /\ UNCHANGED told
       ELSE /\ request' = [request EXCEPT ![t] = NoRequest]
            /\ told' = [told EXCEPT ![request[t].id] = "refused"]
            /\ UNCHANGED tab
    /\ TellRest
Resend(t) ==
    /\ request[t].at = "probed"
    /\ request' = [request EXCEPT ![t] = Sent(t, @)]
    /\ UNCHANGED <<webSessions, tab, told>> /\ TellRest

\* A takeover that came too late is tried once more with the epoch of the answer.
TooLate(w) == w.kind = "takeover" /\ w.answer = "controller_lease_expired" /\ ~w.second
TakeAgain(t) ==
    LET w == request[t] IN
    /\ w.at = "answered" /\ TooLate(w)
    /\ request' = [request EXCEPT ![t] =
                     Sent(t, [w EXCEPT !.epoch = w.current, !.tries = 1, !.second = TRUE])]
    /\ UNCHANGED <<webSessions, tab, told>> /\ TellRest

Tell(t) ==
    LET w == request[t] IN
    /\ w.at = "answered" /\ ~Heals(w) /\ ~TooLate(w)
    /\ told' = [told EXCEPT ![w.id] = IF w.answer = "ok" THEN "done" ELSE "refused"]
    /\ request' = [request EXCEPT ![t] = NoRequest]
    /\ UNCHANGED <<webSessions, tab>> /\ TellRest

(***************************************************************************)
(* Time, and the core that starts again.                                   *)
(***************************************************************************)
\* A request is shorter than a tick: the times are minutes and hours.
Aged(x) == IF x.role = "gone" THEN x
           ELSE [x EXCEPT !.idle = Min({@ + 1, SlidingTTL}), !.age = Min({@ + 1, AbsoluteTTL})]
WebTick ==
    /\ \A t \in Tabs : request[t].at = "none"
    /\ webSessions' = [i \in DOMAIN webSessions |-> Aged(webSessions[i])]
    /\ UNCHANGED <<lease, cookie, tab, request, clicks, told, through, accessFaults>>

\* Sessions are in memory; the lease starts from nothing too.
WebRestart ==
    /\ accessFaults < MaxAccessFaults /\ accessFaults' = accessFaults + 1
    /\ \A t \in Tabs : request[t].at = "none"
    /\ webSessions' = [i \in DOMAIN webSessions |-> Gone]
    /\ lease' = [who |-> 0, epoch |-> 0]
    /\ UNCHANGED <<cookie, tab, request, clicks, told, through>>

AccessNext ==
    \/ WebTick \/ WebRestart
    \/ \E t \in Tabs : \/ Bootstrap(t) \/ Reload(t)
                       \/ \E k \in WriteKinds : Click(t, k)
                       \/ Handle(t) \/ Lost(t)
                       \/ Probe(t) \/ Resend(t) \/ TakeAgain(t) \/ Tell(t)

AccessSpec == AccessInit /\ [][AccessNext]_accessVars
-----------------------------------------------------------------------------
\* The two records of who may write agree: at most one session is the controller, and it is the
\* one whose client has the kernel's lease.
RolesAgree ==
    /\ Cardinality({s \in DOMAIN webSessions : webSessions[s].role = "controller"}) <= 1
    /\ \A s \in DOMAIN webSessions :
         webSessions[s].role = "controller" => lease.who = s

\* Every write that went through was of a session in time, and of the controller.
OnlyTheController ==
    \A x \in through : ~x.late /\ (x.kind # "takeover" => x.role = "controller")

\* A command goes through only under the lease its user had when asking: no takeover came between.
LandsUnderItsLease == \A x \in through : x.kind = "command" => x.holder = x.by /\ ~x.moved

\* One click is one write at most, whatever was answered and tried again; and a user who is told
\* that it was refused finds nothing done.
OneWritePerClick ==
    /\ \A x, y \in through : x.id = y.id => x = y
    /\ \A x \in through : told[x.id] # "refused"
    /\ \A i \in DOMAIN told : told[i] = "done" => \E x \in through : x.id = i

AccessSafety ==
    AccessTypeOK /\ RolesAgree /\ OnlyTheController /\ LandsUnderItsLease /\ OneWritePerClick
=============================================================================
