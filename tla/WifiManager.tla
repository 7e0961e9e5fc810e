---------------------------- MODULE WifiManager -----------------------------
(***************************************************************************)
(* The WiFi manager (src/src/wifi_manager.cpp): one connection policy run  *)
(* by loopTask in wifi_loop(), fed by the WiFi event task and poked by the *)
(* serial menu (also loopTask) and the setup portal (the AsyncTCP task).   *)
(*                                                                         *)
(* A pass of wifi_loop() reads the driver's status, acts on the mode,      *)
(* perhaps waits for a probe, and ends with the outage check; the other    *)
(* tasks run in between (one call of theirs is one step).                  *)
(*                                                                         *)
(* The millis() stamps the code compares with now are kept as the time     *)
(* since them, or the time left until them, so the wrap of millis() has no *)
(* part.  That is exact for the differences, not for s_next_retry_ms, a    *)
(* deadline compared as a number (309): once in 49 days a backoff spans    *)
(* the wrap, and a deadline past it fires the retry at once, while one the *)
(* loop comes to only after the wrap is held until the outage reboot.      *)
(* Not modelled.                                                           *)
(*                                                                         *)
(* External: the driver and the network.  The event task outranks          *)
(* loopTask on its core, so the driver's status and the handler's flags    *)
(* change in one step.  While the network is good an attempt succeeds, the *)
(* link stays and a probe answers; while it is bad anything may happen,    *)
(* a lost link without its event included (the comment at 340).  begin()   *)
(* leaves a connection it already has alone.                               *)
(***************************************************************************)
EXTENDS Integers, Sequences

CONSTANTS
    AttemptWait,    \* kAttemptWaitMs
    BackoffMs,      \* kBackoffMs
    Transient,      \* kStaAttemptsTransient
    Permanent,      \* kStaAttemptsPermanent
    OutageReboot,   \* kWifiOutageRebootMs
    ProbeInterval,  \* kProbeIntervalMs
    ProbeFailLimit, \* kProbeFailLimit
    ApRetry,        \* kApStaRetryMs
    ProbeEnabled,   \* wifi_probe_enabled
    ProbeKick,      \* wifi_probe_kick
    MaxOps          \* bound: operator commands

ASSUME WifiAssumption ==
    /\ {AttemptWait, OutageReboot, ProbeInterval, ApRetry} \subseteq Nat \ {0}
    /\ AttemptWait > 1
    /\ {Transient, Permanent, ProbeFailLimit} \subseteq Nat \ {0}
    /\ Permanent <= Transient
    /\ BackoffMs \in Seq(Nat) /\ Len(BackoffMs) > 0
    /\ ProbeEnabled \in BOOLEAN /\ ProbeKick \in BOOLEAN
    /\ MaxOps \in Nat

VARIABLES
    mode,           \* s_mode: "sta" (ConnectingSTA), "online" or "ap"
    attempts,       \* s_attempts
    hasSsid,        \* wifi_ssid is configured
    dns,            \* s_dns_running
    probeFails,     \* s_probe_fails
    (* time since s_last_attempt, s_last_healthy, s_last_probe,            *)
    (* s_last_ap_retry_ms, and to s_next_retry_ms (-1 for 0)               *)
    sinceAttempt, sinceHealthy, sinceProbe, sinceApRetry, retryIn,
    (* the event task *)
    eventDisc,      \* s_event_disconnected
    permanent,      \* reason_is_permanent_(s_last_disc_reason)
    (* loopTask *)
    pc,             \* "top", "act", "probe", "outage", "reboot"
    status,         \* the pass saw WL_CONNECTED
    lag,            \* time since the outage check read millis()
    due,            \* no pass has begun in this tick
    (* the world *)
    link,           \* driver: "idle", "trying", "up" or "leaving"
    good,           \* the network is good
    clients,        \* the portal has clients
    saved,          \* when its reply is out the dashboard will "retry" or
                    \* "restart", or "no"
    ops,            \* operator commands so far
    (* history *)
    lost            \* the link went down or was kicked since mode is online

stamps == <<sinceAttempt, sinceHealthy, sinceProbe, sinceApRetry, retryIn>>
flags  == <<eventDisc, permanent>>
pass   == <<pc, status, lag, due>>
world  == <<good, clients, saved, ops>>
vars   == <<mode, attempts, hasSsid, dns, probeFails, stamps, flags, pass,
            link, world, lost>>

(* The driver reports WL_CONNECTED until its disconnect event.             *)
Connected == link \in {"up", "leaving"}

(* backoff_for_.                                                           *)
BackoffFor(n) == BackoffMs[IF n <= Len(BackoffMs) THEN n ELSE Len(BackoffMs)]

Goto(where) == pc' = where /\ UNCHANGED <<status, lag, due>>

-----------------------------------------------------------------------------
(* start_ap_: the portal comes up and the station goes down.               *)
StartAp ==
    /\ mode' = "ap" /\ dns' = TRUE /\ link' = "idle"
    /\ sinceApRetry' = 0
    /\ UNCHANGED <<attempts, sinceAttempt, retryIn>>

(* wifi_try_sta, with n attempts before it.                                *)
TryStaAfter(n) ==
    IF hasSsid
    THEN /\ mode' = "sta" /\ dns' = FALSE
         /\ link' = IF Connected THEN link ELSE "trying"
         /\ attempts' = n + 1
         /\ sinceAttempt' = 0 /\ retryIn' = -1
         /\ UNCHANGED sinceApRetry
    ELSE StartAp

(* What every way out of OnlineSTA does: WiFi.disconnect, no attempts yet, *)
(* and a retry at once.                                                    *)
Retire ==
    /\ mode' = "sta" /\ attempts' = 0 /\ retryIn' = 0
    /\ link' = IF link = "up" THEN "leaving" ELSE link

(* What the first wifi_try_sta makes of the configuration.                 *)
BootMode     == IF hasSsid THEN "sta" ELSE "ap"
BootAttempts == IF hasSsid THEN 1 ELSE 0
BootLink     == IF hasSsid THEN "trying" ELSE "idle"

(* wifi_begin() after a power-on.                                          *)
Init ==
    /\ hasSsid \in BOOLEAN /\ good \in BOOLEAN /\ clients = FALSE /\ ops = 0
    /\ mode = BootMode /\ attempts = BootAttempts /\ link = BootLink
    /\ dns = ~hasSsid
    /\ probeFails = 0 /\ retryIn = -1
    /\ sinceAttempt = 0 /\ sinceHealthy = 0 /\ sinceProbe = 0 /\ sinceApRetry = 0
    /\ eventDisc = FALSE /\ permanent = FALSE
    /\ pc = "top" /\ status = FALSE /\ lag = 0 /\ due = FALSE
    /\ saved = "no" /\ lost = FALSE

(* wifi_begin() again, after a restart.                                    *)
Boot ==
    /\ mode' = BootMode /\ attempts' = BootAttempts /\ link' = BootLink
    /\ dns' = ~hasSsid
    /\ probeFails' = 0 /\ retryIn' = -1
    /\ sinceAttempt' = 0 /\ sinceHealthy' = 0 /\ sinceProbe' = 0 /\ sinceApRetry' = 0
    /\ eventDisc' = FALSE /\ permanent' = FALSE
    /\ pc' = "top" /\ status' = FALSE /\ lag' = 0 /\ due' = FALSE
    /\ saved' = "no" /\ lost' = FALSE /\ clients' = FALSE
    /\ UNCHANGED <<hasSsid, good, ops>>

(* restart_with(kReasonWifiOutage).                                        *)
Reboot == pc = "reboot" /\ Boot

(***************************************************************************)
(* A pass of wifi_loop().                                                  *)
(***************************************************************************)

LoopTop ==
    /\ pc = "top"
    /\ pc' = "act" /\ status' = Connected /\ due' = FALSE
    /\ UNCHANGED <<mode, attempts, hasSsid, dns, probeFails, stamps, flags, lag,
                   link, world, lost>>

(* The event path: the handler saw the link go.                            *)
SeeEvent ==
    /\ pc = "act" /\ mode = "online" /\ eventDisc
    /\ Retire
    /\ eventDisc' = FALSE
    /\ Goto("top")
    /\ UNCHANGED <<hasSsid, dns, probeFails, sinceAttempt, sinceHealthy, sinceProbe,
                   sinceApRetry, permanent, world, lost>>

Acting(m) == pc = "act" /\ mode = m /\ ~(mode = "online" /\ eventDisc)

GoOnline ==
    /\ Acting("sta") /\ status
    /\ mode' = "online"
    /\ sinceHealthy' = 0 /\ sinceProbe' = 0 /\ probeFails' = 0 /\ retryIn' = -1
    /\ lost' = (link # "up")
    /\ Goto("outage")
    /\ UNCHANGED <<attempts, hasSsid, dns, sinceAttempt, sinceApRetry, flags,
                   link, world>>

(* The wait is over, or no attempt was made yet.                           *)
Retry ==
    /\ Acting("sta") /\ ~status
    /\ retryIn = 0 \/ (retryIn = -1 /\ attempts = 0)
    /\ TryStaAfter(attempts)
    /\ Goto("outage")
    /\ UNCHANGED <<hasSsid, probeFails, sinceHealthy, sinceProbe, flags, world, lost>>

TimedOut ==
    /\ Acting("sta") /\ ~status
    /\ retryIn = -1 /\ attempts > 0 /\ sinceAttempt > AttemptWait

Budget == IF permanent THEN Permanent ELSE Transient

(* The budget is spent: fall back to the portal.                           *)
GiveUp ==
    /\ TimedOut /\ attempts >= Budget
    /\ StartAp
    /\ Goto("outage")
    /\ UNCHANGED <<hasSsid, probeFails, sinceHealthy, sinceProbe, flags, world, lost>>

BackOff ==
    /\ TimedOut /\ attempts < Budget
    /\ retryIn' = BackoffFor(attempts)
    /\ Goto("outage")
    /\ UNCHANGED <<mode, attempts, hasSsid, dns, probeFails, sinceAttempt,
                   sinceHealthy, sinceProbe, sinceApRetry, flags, link, world, lost>>

(* A wait or an attempt goes on.                                           *)
WaitSta ==
    /\ Acting("sta") /\ ~status
    /\ retryIn > 0 \/ (retryIn = -1 /\ attempts > 0 /\ sinceAttempt <= AttemptWait)
    /\ Goto("outage")
    /\ UNCHANGED <<mode, attempts, hasSsid, dns, probeFails, stamps, flags, link,
                   world, lost>>

(* The status says what the missed event did not.                          *)
SeeStatus ==
    /\ Acting("online") /\ ~status
    /\ IF sinceAttempt > AttemptWait
       THEN Retire
       ELSE UNCHANGED <<mode, attempts, retryIn, link>>
    /\ Goto("outage")
    /\ UNCHANGED <<hasSsid, dns, probeFails, sinceAttempt, sinceHealthy, sinceProbe,
                   sinceApRetry, flags, world, lost>>

StayOnline ==
    /\ Acting("online") /\ status
    /\ sinceAttempt' = 0
    /\ IF ProbeEnabled /\ sinceProbe > ProbeInterval
       THEN sinceProbe' = 0 /\ Goto("probe")
       ELSE UNCHANGED sinceProbe /\ Goto("outage")
    /\ UNCHANGED <<mode, attempts, hasSsid, dns, probeFails, sinceHealthy,
                   sinceApRetry, retryIn, flags, link, world, lost>>

(* Slip: an answered probe does not count as healthy.                      *)
ProbeAnswers_NotHealthy ==
    /\ pc = "probe" /\ Connected
    /\ probeFails' = 0
    /\ Goto("outage")
    /\ UNCHANGED <<mode, attempts, hasSsid, dns, stamps, flags, link, world, lost>>

(* probe_outbound_(), up to three seconds later.                           *)
ProbeAnswers ==
    /\ pc = "probe" /\ Connected
    /\ probeFails' = 0 /\ sinceHealthy' = 0
    /\ Goto("outage")
    /\ UNCHANGED <<mode, attempts, hasSsid, dns, sinceAttempt, sinceProbe,
                   sinceApRetry, retryIn, flags, link, world, lost>>

Kick == ProbeKick /\ probeFails + 1 >= ProbeFailLimit

ProbeFails ==
    /\ pc = "probe" /\ ~(good /\ link = "up")
    /\ IF Kick
       THEN probeFails' = 0 /\ Retire
       ELSE /\ probeFails' = (probeFails + 1) % 256
            /\ UNCHANGED <<mode, attempts, retryIn, link>>
    /\ Goto("outage")
    /\ UNCHANGED <<hasSsid, dns, sinceAttempt, sinceHealthy, sinceProbe,
                   sinceApRetry, flags, world, lost>>

(* The portal is up; after a while, with nobody in it, try the station.    *)
StayAp ==
    /\ Acting("ap")
    /\ sinceHealthy' = 0
    /\ IF hasSsid /\ sinceApRetry >= ApRetry
       THEN sinceApRetry' = 0 /\ clients
       ELSE UNCHANGED sinceApRetry
    /\ Goto("outage")
    /\ UNCHANGED <<mode, attempts, hasSsid, dns, probeFails, sinceAttempt,
                   sinceProbe, retryIn, flags, link, world, lost>>

(* Slip: the portal is left only when nobody configured the station.       *)
LeaveAp_NoSsid ==
    /\ Acting("ap") /\ ~hasSsid /\ sinceApRetry >= ApRetry /\ ~clients
    /\ sinceHealthy' = 0 /\ sinceApRetry' = 0
    /\ Goto("top")
    /\ UNCHANGED <<mode, attempts, hasSsid, dns, probeFails, sinceAttempt,
                   sinceProbe, retryIn, flags, link, world, lost>>

LeaveAp ==
    /\ Acting("ap") /\ hasSsid /\ sinceApRetry >= ApRetry /\ ~clients
    /\ sinceHealthy' = 0 /\ sinceApRetry' = 0 /\ eventDisc' = FALSE
    /\ mode' = "sta" /\ dns' = FALSE /\ link' = "trying"
    /\ attempts' = 1 /\ sinceAttempt' = 0 /\ retryIn' = -1
    /\ Goto("top")
    /\ UNCHANGED <<hasSsid, probeFails, sinceProbe, permanent, world, lost>>

(* The outage check reads millis() when the branch is done, and then       *)
(* s_last_healthy, which GOT_IP may have set meanwhile: the unsigned       *)
(* difference wraps.                                                       *)
Underflow == lag > sinceHealthy

Outage == Underflow \/ sinceHealthy - lag > OutageReboot

OutageCheck ==
    /\ pc = "outage"
    /\ pc' = IF Outage THEN "reboot" ELSE "top"
    /\ lag' = 0
    /\ UNCHANGED <<mode, attempts, hasSsid, dns, probeFails, stamps, flags, status,
                   due, link, world, lost>>

Loop ==
    \/ LoopTop \/ SeeEvent \/ GoOnline \/ Retry \/ GiveUp \/ BackOff \/ WaitSta
    \/ SeeStatus \/ StayOnline \/ ProbeAnswers \/ ProbeFails
    \/ StayAp \/ LeaveAp \/ OutageCheck \/ Reboot

(***************************************************************************)
(* The event task.                                                         *)
(***************************************************************************)

(* Slip: GOT_IP leaves the disconnect flag of a failed attempt.            *)
GotIp_KeepsFlag ==
    /\ link = "trying" /\ pc # "reboot"
    /\ link' = "up"
    /\ probeFails' = 0 /\ sinceHealthy' = 0
    /\ UNCHANGED <<mode, attempts, hasSsid, dns, sinceAttempt, sinceProbe,
                   sinceApRetry, retryIn, flags, pass, world, lost>>

GotIp ==
    /\ link = "trying" /\ pc # "reboot"
    /\ link' = "up"
    /\ eventDisc' = FALSE /\ probeFails' = 0 /\ sinceHealthy' = 0
    /\ UNCHANGED <<mode, attempts, hasSsid, dns, sinceAttempt, sinceProbe,
                   sinceApRetry, retryIn, permanent, pass, world, lost>>

(* STA_DISCONNECTED: a refused attempt, a lost link, our own disconnect.   *)
LinkDown(perm) ==
    /\ pc # "reboot"
    /\ \/ link \in {"trying", "up"} /\ ~good
       \/ link = "leaving" /\ ~perm
    /\ link' = "idle"
    /\ eventDisc' = TRUE /\ permanent' = perm
    /\ lost' = TRUE
    /\ UNCHANGED <<mode, attempts, hasSsid, dns, probeFails, stamps, pass, world>>

(* The link is lost and the handler is never called.                       *)
LinkDownMissed ==
    /\ pc # "reboot"
    /\ link = "up" /\ ~good
    /\ link' = "idle" /\ lost' = TRUE
    /\ UNCHANGED <<mode, attempts, hasSsid, dns, probeFails, stamps, flags, pass,
                   world>>

Driver == GotIp \/ (\E perm \in BOOLEAN : LinkDown(perm)) \/ LinkDownMissed

(***************************************************************************)
(* The operator, time and the network.                                     *)
(***************************************************************************)

Operates == ops < MaxOps /\ ops' = ops + 1                  \* bound

(* Serial menu: save and reconnect, force the portal, wipe.                *)
MenuReconnect ==
    /\ Operates /\ pc = "top"
    /\ TryStaAfter(attempts)
    /\ lost' = TRUE
    /\ UNCHANGED <<hasSsid, probeFails, sinceHealthy, sinceProbe, flags, pass, good,
                   clients, saved>>

MenuForceAp ==
    /\ Operates /\ pc = "top"
    /\ StartAp
    /\ UNCHANGED <<hasSsid, probeFails, sinceHealthy, sinceProbe, flags, pass, good,
                   clients, saved, lost>>

MenuWipe ==
    /\ Operates /\ pc = "top"
    /\ hasSsid' = FALSE
    /\ UNCHANGED <<mode, attempts, dns, probeFails, stamps, flags, pass, link, good,
                   clients, saved, lost>>

(* Dashboard: the settings form reconnects when it finds the portal up,    *)
(* the portal's own form restarts, both on the AsyncTCP task once the      *)
(* reply is out.                                                           *)
ConfigPost ==
    /\ Operates /\ saved = "no" /\ pc # "reboot"
    /\ hasSsid' \in BOOLEAN
    /\ saved' = IF mode = "ap" /\ hasSsid' THEN "retry" ELSE saved
    /\ UNCHANGED <<mode, attempts, dns, probeFails, stamps, flags, pass, link, good,
                   clients, lost>>

PortalSave ==
    /\ Operates /\ saved = "no" /\ mode = "ap" /\ pc # "reboot"
    /\ hasSsid' \in BOOLEAN
    /\ saved' = "restart"
    /\ UNCHANGED <<mode, attempts, dns, probeFails, stamps, flags, pass, link, good,
                   clients, lost>>

ReplyIsOut ==
    /\ pc # "reboot"
    /\ \/ saved = "restart" /\ Boot
       \/ /\ saved = "retry" /\ saved' = "no"
          /\ TryStaAfter(attempts)
          /\ lost' = TRUE
          /\ UNCHANGED <<hasSsid, probeFails, sinceHealthy, sinceProbe, flags, pass,
                         good, clients, ops>>

(* A count stops where the code's comparisons no longer tell it apart.     *)
Upto(n, top) == IF n < top THEN n + 1 ELSE n

(* A good network lets the station in well within the wait.                *)
Prompt == good /\ link = "trying" => sinceAttempt + 1 < AttemptWait

(* Time passes once per begun pass at most: a pass takes milliseconds.  A  *)
(* stamp is counted only in the modes that read it.                        *)
Tick ==
    /\ ~due /\ pc # "reboot" /\ Prompt
    /\ due' = TRUE
    /\ lag' = IF pc = "outage" THEN lag + 1 ELSE lag
    /\ sinceAttempt' = IF mode = "ap" THEN sinceAttempt
                                      ELSE Upto(sinceAttempt, AttemptWait + 1)
    /\ sinceHealthy' = Upto(sinceHealthy, OutageReboot + 2)
    /\ sinceProbe' = IF mode = "online" THEN Upto(sinceProbe, ProbeInterval + 1)
                                        ELSE sinceProbe
    /\ sinceApRetry' = IF mode = "ap" THEN Upto(sinceApRetry, ApRetry)
                                      ELSE sinceApRetry
    /\ retryIn' = IF retryIn > 0 THEN retryIn - 1 ELSE retryIn
    /\ UNCHANGED <<mode, attempts, hasSsid, dns, probeFails, flags, pc, status,
                   link, world, lost>>

NetChanges ==
    /\ good' = ~good
    /\ UNCHANGED <<mode, attempts, hasSsid, dns, probeFails, stamps, flags, pass,
                   link, clients, saved, ops, lost>>

ClientsChange ==
    /\ mode = "ap"
    /\ clients' = ~clients
    /\ UNCHANGED <<mode, attempts, hasSsid, dns, probeFails, stamps, flags, pass,
                   link, good, saved, ops, lost>>

Operator ==
    MenuReconnect \/ MenuForceAp \/ MenuWipe \/ ConfigPost \/ PortalSave \/ ReplyIsOut

Next == Loop \/ Driver \/ Operator \/ Tick \/ NetChanges \/ ClientsChange

Spec == Init /\ [][Next]_vars

(* loopTask runs, time passes, the driver ends a disconnect it was asked   *)
(* for, a good network lets the station in, and the portal's reply ends.   *)
FairSpec ==
    /\ Spec
    /\ WF_vars(Loop) /\ SF_vars(Tick)
    /\ WF_vars(link = "leaving" /\ LinkDown(FALSE))
    /\ SF_vars(good /\ GotIp)
    /\ WF_vars(ReplyIsOut)

-----------------------------------------------------------------------------
TypeOK ==
    /\ mode \in {"sta", "online", "ap"}
    /\ attempts \in Nat /\ hasSsid \in BOOLEAN
    /\ dns \in BOOLEAN /\ probeFails \in 0 .. 255
    /\ sinceAttempt \in 0 .. AttemptWait + 1
    /\ sinceHealthy \in 0 .. OutageReboot + 2
    /\ sinceProbe \in 0 .. ProbeInterval + 1
    /\ sinceApRetry \in 0 .. ApRetry
    /\ retryIn \in Nat \cup {-1}
    /\ eventDisc \in BOOLEAN /\ permanent \in BOOLEAN
    /\ pc \in {"top", "act", "probe", "outage", "reboot"}
    /\ status \in BOOLEAN /\ lag \in 0 .. 1 /\ due \in BOOLEAN
    /\ link \in {"idle", "trying", "up", "leaving"}
    /\ good \in BOOLEAN /\ clients \in BOOLEAN /\ saved \in {"no", "retry", "restart"}
    /\ ops \in Nat /\ lost \in BOOLEAN

(***************************************************************************)
(* Safety.                                                                 *)
(***************************************************************************)

(* A connection is given up only when its link went down, a probe kicked   *)
(* it, the operator reconnects or the device restarts: the disconnect flag *)
(* of an earlier attempt or of our own disconnect never takes a fresh      *)
(* connection down (127-146, 268-280).                                     *)
DropsOnlyLostLinks ==
    [][mode = "online" /\ mode' = "sta" =>
           lost \/ pc \in {"probe", "reboot"} \/ ops' > ops \/ saved # saved']_vars

(***************************************************************************)
(* Liveness, under FairSpec.                                               *)
(***************************************************************************)

(* The device is again and again reachable, by its link or by the portal:  *)
(* the retry budget ends before the outage reboot starts it over (66-72,   *)
(* 317-337, 421-431).                                                      *)
PortalOrLink == []<>(mode = "ap" \/ link = "up")

(* The portal is not a terminal state when a station is configured and     *)
(* nobody uses the portal (79-96, 388-419).                                *)
LeavesPortal == mode = "ap" ~> (mode # "ap" \/ ~hasSsid \/ clients)

(* On a network that stays good the device ends up online and stays there, *)
(* without reboots, unless the outage check reads its two clocks across a  *)
(* GOT_IP (232-432).                                                       *)
SettlesOnline ==
    <>[](good /\ hasSsid /\ ~clients)
        => <>[](mode = "online") \/ []<>(pc = "outage" /\ Underflow)

(* Nobody is stranded: the two first of the above, on one schedule.        *)
NeverStranded == PortalOrLink /\ LeavesPortal

=============================================================================
