--------------------------- MODULE TelnetSession ----------------------------
(***************************************************************************)
(* The life of a Telnet session (src/src/telnet_honeypot.cpp): who owns    *)
(* it, who may still touch it, when its attack is written to the log and   *)
(* when its slot and its memory are released.                              *)
(*                                                                         *)
(* Three tasks share it.  "async" is the AsyncTCP task, which accepts      *)
(* clients and runs the callbacks; "worker" is tn_worker_task, which runs  *)
(* shell commands and forensics from a queue; "loop" is loopTask, whose    *)
(* telnet_reap() takes idle sessions away from AsyncTCP.  Each step of a   *)
(* task is a stretch that touches shared state once.                       *)
(*                                                                         *)
(* External: AsyncTCP.  A connection is up until somebody closes it, its   *)
(* disconnect callback may come at any time after that, and it may vanish  *)
(* without one (the comment at 106-112).                                   *)
(*                                                                         *)
(* A job or a callback on a session that is deleted reads whatever is in   *)
(* its place.  The steps below go on as if the session were still there;   *)
(* every property leaves out, by name, the sessions this can happen to.    *)
(***************************************************************************)
EXTENDS Integers, Sequences, FiniteSets

CONSTANTS
    Sess,           \* sessions that may be opened
    NoSess,         \* no session
    TnMax,          \* TN_MAX_CONCURRENT
    QueueLen,       \* length of s_finalize_q
    ZombieMax,      \* kTnZombieMax
    AcceptAfter,    \* login_attempts_before_accept
    MaxDiscs,       \* disconnect callbacks AsyncTCP may deliver to a session
    MaxLines        \* bound: shell lines typed in a session

ASSUME SessionAssumption ==
    /\ NoSess \notin Sess
    /\ {TnMax, QueueLen, ZombieMax, AcceptAfter, MaxDiscs} \subseteq Nat \ {0}
    /\ MaxLines \in Nat

Tasks == {"async", "worker", "loop"}

Job == [kind : {"line", "final", "stuck", "close"}, sess : Sess, line : Nat]

VARIABLES
    (* the session objects *)
    mem,            \* session -> "none", "live" or "freed"
    phase,          \* session -> its phase
    attempts,       \* session -> passwords tried
    finalized,      \* sessions with the flag set
    quiet,          \* sessions whose last byte is older than 15 s
    (* shared bookkeeping *)
    registry,       \* s_registry
    active,         \* s_active
    gauge,          \* g_gate's tn_active_
    queue,          \* s_finalize_q
    zombies,        \* s_zombies
    aged,           \* zombies the sweep takes for past their grace
    hasty,          \* history: sessions deleted while something still held them
    (* the tasks *)
    pc, on, val,    \* task -> what it does next, for which session, with what
    toFinalize,     \* telnet_reap's finalize_victims
    toClose,        \* telnet_reap's close_victims
    (* AsyncTCP *)
    conn,           \* session -> "none", "up", "down" or "gone"
    discs,          \* session -> disconnect callbacks delivered
    (* history *)
    typed,          \* session -> shell lines received
    ran,            \* session -> shell lines executed, in order
    logged,         \* session -> times its attack was appended
    counted,        \* session -> commands in the appended attack
    contended,      \* sessions claimed by the reaper inside tn_finalize
    inlined         \* sessions with work done inline, not by the worker

objects  == <<mem, phase, attempts, finalized, quiet>>
books    == <<registry, active, gauge, queue, zombies, aged, hasty>>
tasks    == <<pc, on, val, toFinalize, toClose>>
asynctcp == <<conn, discs>>
history  == <<typed, ran, logged, counted, contended, inlined>>

vars == <<objects, books, tasks, asynctcp, history>>

Room == Len(queue) < QueueLen

Queued(s) == {queue[i].kind : i \in {j \in DOMAIN queue : queue[j].sess = s}}

Goto(t, where) == pc' = [pc EXCEPT ![t] = where]

(* What a task goes back to when it has released a session.                *)
Home(t) == IF t = "loop" THEN "reap" ELSE "idle"

Hangup(s) == conn' = [conn EXCEPT ![s] = IF @ = "up" THEN "down" ELSE @]

-----------------------------------------------------------------------------
Init ==
    /\ mem = [s \in Sess |-> "none"] /\ phase = [s \in Sess |-> "user"]
    /\ attempts = [s \in Sess |-> 0] /\ finalized = {} /\ quiet = {}
    /\ registry = {} /\ active = 0 /\ gauge = 0 /\ queue = <<>>
    /\ zombies = {} /\ aged = {} /\ hasty = {}
    /\ pc = [t \in Tasks |-> "idle"] /\ on = [t \in Tasks |-> NoSess]
    /\ val = [t \in Tasks |-> 0] /\ toFinalize = {} /\ toClose = {}
    /\ conn = [s \in Sess |-> "none"] /\ discs = [s \in Sess |-> 0]
    /\ typed = [s \in Sess |-> 0] /\ ran = [s \in Sess |-> <<>>]
    /\ logged = [s \in Sess |-> 0] /\ counted = [s \in Sess |-> 0]
    /\ contended = {} /\ inlined = {}

(***************************************************************************)
(* tn_on_client.                                                           *)
(***************************************************************************)

(* The compare-and-swap on s_active takes a slot.                          *)
TakeSlot(s) ==
    /\ pc["async"] = "idle" /\ mem[s] = "none"
    /\ active < TnMax
    /\ active' = active + 1
    /\ Goto("async", "gauge")
    /\ on' = [on EXCEPT !["async"] = s]
    /\ val' = [val EXCEPT !["async"] = active + 1]
    /\ UNCHANGED <<objects, registry, gauge, queue, zombies, aged, hasty, toFinalize,
                   toClose, asynctcp, history>>

(* The gauge gets the value of the swap, not the one it has by now.        *)
PublishSlot ==
    /\ pc["async"] = "gauge"
    /\ gauge' = val["async"]
    /\ val' = [val EXCEPT !["async"] = 0]
    /\ Goto("async", "open")
    /\ UNCHANGED <<objects, registry, active, queue, zombies, aged, hasty, on,
                   toFinalize, toClose, asynctcp, history>>

(* The session is created, registered and its callbacks are set; a full    *)
(* registry leaves it out without a word.                                  *)
OpenSession ==
    /\ pc["async"] = "open"
    /\ LET s == on["async"]
       IN /\ mem' = [mem EXCEPT ![s] = "live"]
          /\ conn' = [conn EXCEPT ![s] = "up"]
          /\ registry' = IF Cardinality(registry) < TnMax
                         THEN registry \cup {s} ELSE registry
    /\ Goto("async", "idle")
    /\ on' = [on EXCEPT !["async"] = NoSess]
    /\ UNCHANGED <<phase, attempts, finalized, quiet, active, gauge, queue,
                   zombies, aged, hasty, val, toFinalize, toClose, discs, history>>

(***************************************************************************)
(* tn_on_data.  Every byte resets the idle time; a line drives the phase.  *)
(***************************************************************************)

Receives(s) ==
    /\ pc["async"] = "idle"
    /\ conn[s] = "up" /\ phase[s] # "dead"
    /\ quiet' = quiet \ {s}

OnBytes(s) ==
    /\ Receives(s)
    /\ UNCHANGED <<mem, phase, attempts, finalized, books, tasks, asynctcp, history>>

OnUser(s) ==
    /\ Receives(s) /\ phase[s] = "user"
    /\ phase' = [phase EXCEPT ![s] = "pass"]
    /\ UNCHANGED <<mem, attempts, finalized, books, tasks, asynctcp, history>>

OnPassword(s) ==
    /\ Receives(s) /\ phase[s] = "pass"
    /\ attempts' = [attempts EXCEPT ![s] = @ + 1]
    /\ phase' = [phase EXCEPT ![s] =
                     IF attempts[s] + 1 >= AcceptAfter THEN "shell" ELSE "user"]
    /\ UNCHANGED <<mem, finalized, books, tasks, asynctcp, history>>

(* A shell line goes to the worker, or, when the queue or the heap is      *)
(* full, is executed here.                                                 *)
OnShellLine(s) ==
    /\ Receives(s) /\ phase[s] = "shell"
    /\ typed[s] < MaxLines                                  \* bound
    /\ typed' = [typed EXCEPT ![s] = @ + 1]
    /\ \/ /\ Room
          /\ queue' = Append(queue, [kind |-> "line", sess |-> s, line |-> typed[s] + 1])
          /\ UNCHANGED <<pc, on, val, inlined>>
       \/ /\ Goto("async", "exec")
          /\ on' = [on EXCEPT !["async"] = s]
          /\ val' = [val EXCEPT !["async"] = typed[s] + 1]
          /\ inlined' = inlined \cup {s}
          /\ UNCHANGED queue
    /\ UNCHANGED <<mem, phase, attempts, finalized, registry, active, gauge,
                   zombies, aged, hasty, toFinalize, toClose, asynctcp, ran, logged,
                   counted, contended>>

(* shell.execute() and what follows it, in the worker or inline: a line    *)
(* that ends the session closes the client.                                *)
Execute(t, exit) ==
    /\ pc[t] = "exec"
    /\ LET s == on[t]
       IN /\ ran' = [ran EXCEPT ![s] = Append(@, val[t])]
          /\ IF exit
             THEN phase' = [phase EXCEPT ![s] = "dead"] /\ Hangup(s)
             ELSE UNCHANGED <<phase, conn>>
    /\ Goto(t, "idle")
    /\ on' = [on EXCEPT ![t] = NoSess] /\ val' = [val EXCEPT ![t] = 0]
    /\ UNCHANGED <<mem, attempts, finalized, quiet, books, toFinalize, toClose,
                   discs, typed, logged, counted, contended, inlined>>

(***************************************************************************)
(* tn_on_disconnect and tn_finalize.                                       *)
(***************************************************************************)

(* The callback returns when the flag is set, and reads it once more.      *)
OnDisconnect(s) ==
    /\ pc["async"] = "idle"
    /\ conn[s] = "down" /\ discs[s] < MaxDiscs
    /\ discs' = [discs EXCEPT ![s] = @ + 1]
    /\ conn' = [conn EXCEPT ![s] = IF discs[s] + 1 = MaxDiscs THEN "gone" ELSE @]
    /\ IF s \in finalized
       THEN UNCHANGED <<pc, on>>
       ELSE Goto("async", "mark") /\ on' = [on EXCEPT !["async"] = s]
    /\ UNCHANGED <<objects, books, val, toFinalize, toClose, history>>

(* Slip: the session stays registered.                                     *)
Mark_KeepsRegistered ==
    /\ pc["async"] = "mark"
    /\ finalized' = finalized \cup {on["async"]}
    /\ Goto("async", "send")
    /\ UNCHANGED <<mem, phase, attempts, quiet, registry, active, gauge, queue, zombies,
                   aged, hasty, on, val, toFinalize, toClose, asynctcp, history>>

(* The flag is set without a lock, some time after it was read.            *)
Mark ==
    /\ pc["async"] = "mark"
    /\ finalized' = finalized \cup {on["async"]}
    /\ registry' = registry \ {on["async"]}
    /\ Goto("async", "send")
    /\ UNCHANGED <<mem, phase, attempts, quiet, active, gauge, queue, zombies,
                   aged, hasty, on, val, toFinalize, toClose, asynctcp, history>>

(* K_FINALIZE for the worker, or forensics here when the queue is full.    *)
SendFinal ==
    /\ pc["async"] = "send"
    /\ IF Room
       THEN /\ queue' = Append(queue, [kind |-> "final", sess |-> on["async"], line |-> 0])
            /\ Goto("async", "idle")
            /\ on' = [on EXCEPT !["async"] = NoSess]
            /\ UNCHANGED inlined
       ELSE /\ inlined' = inlined \cup {on["async"]}
            /\ Goto("async", "finalFree")
            /\ UNCHANGED <<queue, on>>
    /\ UNCHANGED <<objects, registry, active, gauge, zombies, aged, hasty, val,
                   toFinalize, toClose, asynctcp, typed, ran, logged, counted,
                   contended>>

(***************************************************************************)
(* tn_worker_task.                                                         *)
(***************************************************************************)

(* Slip: a line is executed although the session is finalized.             *)
TakeLine_Finalized ==
    /\ pc["worker"] = "idle" /\ queue # <<>> /\ Head(queue).kind = "line"
    /\ queue' = Tail(queue)
    /\ Goto("worker", "exec")
    /\ on' = [on EXCEPT !["worker"] = Head(queue).sess]
    /\ val' = [val EXCEPT !["worker"] = Head(queue).line]
    /\ UNCHANGED <<objects, registry, active, gauge, zombies, aged, hasty, toFinalize,
                   toClose, asynctcp, history>>

(* K_INPUT_LINE: skipped when the session is finalized by now.             *)
TakeLine ==
    /\ pc["worker"] = "idle" /\ queue # <<>> /\ Head(queue).kind = "line"
    /\ queue' = Tail(queue)
    /\ IF Head(queue).sess \in finalized
       THEN UNCHANGED <<pc, on, val>>
       ELSE /\ Goto("worker", "exec")
            /\ on' = [on EXCEPT !["worker"] = Head(queue).sess]
            /\ val' = [val EXCEPT !["worker"] = Head(queue).line]
    /\ UNCHANGED <<objects, registry, active, gauge, zombies, aged, hasty, toFinalize,
                   toClose, asynctcp, history>>

(* K_FINALIZE and K_STUCK_FINALIZE: forensics, then delete or park.        *)
TakeFinal ==
    /\ pc["worker"] = "idle" /\ queue # <<>>
    /\ \/ Head(queue).kind = "final" /\ Goto("worker", "finalFree")
       \/ Head(queue).kind = "stuck" /\ Goto("worker", "finalPark")
    /\ queue' = Tail(queue)
    /\ on' = [on EXCEPT !["worker"] = Head(queue).sess]
    /\ UNCHANGED <<objects, registry, active, gauge, zombies, aged, hasty, val,
                   toFinalize, toClose, asynctcp, history>>

(* K_CLOSE.                                                                *)
TakeClose ==
    /\ pc["worker"] = "idle" /\ queue # <<>> /\ Head(queue).kind = "close"
    /\ queue' = Tail(queue)
    /\ Hangup(Head(queue).sess)
    /\ UNCHANGED <<objects, registry, active, gauge, zombies, aged, hasty, tasks,
                   discs, history>>

(***************************************************************************)
(* What every task that finalizes does: tn_finalize_inline, then release.  *)
(***************************************************************************)

(* tn_finalize_inline: the attack is appended with the commands so far.    *)
Forensics(t) ==
    /\ pc[t] \in {"finalFree", "finalPark"}
    /\ logged' = [logged EXCEPT ![on[t]] = @ + 1]
    /\ counted' = [counted EXCEPT ![on[t]] = Len(ran[on[t]])]
    /\ Goto(t, IF pc[t] = "finalFree" THEN "free" ELSE "park")
    /\ UNCHANGED <<objects, books, on, val, toFinalize, toClose, asynctcp,
                   typed, ran, contended, inlined>>

Free(t) ==
    /\ pc[t] = "free"
    /\ mem' = [mem EXCEPT ![on[t]] = "freed"]
    /\ Goto(t, "dec")
    /\ UNCHANGED <<phase, attempts, finalized, quiet, books, on, val,
                   toFinalize, toClose, asynctcp, history>>

(* finalized_at_ms is stamped and zombie_add_ takes the session; a full    *)
(* list leaks it.  While telnet_reap is on its way the stamp may be later  *)
(* than the time it read at 840, and then the sweep of that same pass      *)
(* finds the unsigned difference enormous: there is no grace at all.       *)
Park(t) ==
    /\ pc[t] = "park"
    /\ IF Cardinality(zombies) < ZombieMax
       THEN /\ zombies' = zombies \cup {on[t]}
            /\ \/ aged' = aged
               \/ pc["loop"] # "idle" /\ aged' = aged \cup {on[t]}
       ELSE UNCHANGED <<zombies, aged>>
    /\ Goto(t, "dec")
    /\ UNCHANGED <<objects, registry, active, gauge, queue, hasty, on, val,
                   toFinalize, toClose, asynctcp, history>>

(* Slip: the slot is not given back.                                       *)
Dec_Forgotten(t) ==
    /\ pc[t] = "dec"
    /\ on' = [on EXCEPT ![t] = NoSess]
    /\ Goto(t, "load")
    /\ UNCHANGED <<objects, registry, active, gauge, queue, zombies, aged, hasty, val,
                   toFinalize, toClose, asynctcp, history>>

(* s_active_dec_ and, as two more steps, the gauge.                        *)
Dec(t) ==
    /\ pc[t] = "dec"
    /\ active' = IF active > 0 THEN active - 1 ELSE 0
    /\ on' = [on EXCEPT ![t] = NoSess]
    /\ Goto(t, "load")
    /\ UNCHANGED <<objects, registry, gauge, queue, zombies, aged, hasty, val,
                   toFinalize, toClose, asynctcp, history>>

LoadActive(t) ==
    /\ pc[t] = "load"
    /\ val' = [val EXCEPT ![t] = active]
    /\ Goto(t, "store")
    /\ UNCHANGED <<objects, books, on, toFinalize, toClose, asynctcp, history>>

StoreGauge(t) ==
    /\ pc[t] = "store"
    /\ gauge' = val[t]
    /\ val' = [val EXCEPT ![t] = 0]
    /\ Goto(t, Home(t))
    /\ UNCHANGED <<objects, registry, active, queue, zombies, aged, hasty, on,
                   toFinalize, toClose, asynctcp, history>>

(***************************************************************************)
(* telnet_reap.                                                            *)
(***************************************************************************)

(* Slip: the flag is not looked at.                                        *)
Claim_Finalized ==
    /\ pc["loop"] = "idle"
    /\ LET stuck == {s \in registry : s \in quiet}
       IN /\ finalized' = finalized \cup stuck
          /\ toFinalize' = stuck /\ toClose' = stuck
          /\ contended' = contended
    /\ Goto("loop", "reap")
    /\ UNCHANGED <<mem, phase, attempts, quiet, registry, active, gauge, queue, zombies,
                   aged, hasty, on, val, asynctcp, typed, ran, logged, counted, inlined>>

(* Under s_reg_mux: idle sessions that are not finalized are marked and    *)
(* taken out of the registry.                                              *)
Claim ==
    /\ pc["loop"] = "idle"
    /\ LET stuck == {s \in registry \ finalized : s \in quiet}
       IN /\ finalized' = finalized \cup stuck
          /\ registry' = registry \ stuck
          /\ toFinalize' = stuck /\ toClose' = stuck
          /\ contended' = contended \cup
                 {s \in stuck : pc["async"] = "mark" /\ on["async"] = s}
    /\ Goto("loop", "reap")
    /\ UNCHANGED <<mem, phase, attempts, quiet, active, gauge, queue, zombies,
                   aged, hasty, on, val, asynctcp, typed, ran, logged, counted, inlined>>

(* Slip: a full queue leaves the session to nobody.                        *)
ReapFinalize_Drops(s) ==
    /\ pc["loop"] = "reap" /\ s \in toFinalize
    /\ toFinalize' = toFinalize \ {s}
    /\ IF Room
       THEN queue' = Append(queue, [kind |-> "stuck", sess |-> s, line |-> 0])
       ELSE UNCHANGED queue
    /\ UNCHANGED <<objects, registry, active, gauge, zombies, aged, hasty, pc, on, val, toClose,
                   asynctcp, history>>

(* K_STUCK_FINALIZE for the worker, or forensics here.                     *)
ReapFinalize(s) ==
    /\ pc["loop"] = "reap" /\ s \in toFinalize
    /\ toFinalize' = toFinalize \ {s}
    /\ IF Room
       THEN /\ queue' = Append(queue, [kind |-> "stuck", sess |-> s, line |-> 0])
            /\ UNCHANGED <<pc, on, inlined>>
       ELSE /\ inlined' = inlined \cup {s}
            /\ Goto("loop", "finalPark")
            /\ on' = [on EXCEPT !["loop"] = s]
            /\ UNCHANGED queue
    /\ UNCHANGED <<objects, registry, active, gauge, zombies, aged, hasty, val, toClose,
                   asynctcp, typed, ran, logged, counted, contended>>

(* K_CLOSE for the worker, or close(true) here.                            *)
ReapClose(s) ==
    /\ pc["loop"] = "reap" /\ toFinalize = {} /\ s \in toClose
    /\ toClose' = toClose \ {s}
    /\ IF Room
       THEN /\ queue' = Append(queue, [kind |-> "close", sess |-> s, line |-> 0])
            /\ UNCHANGED conn
       ELSE Hangup(s) /\ UNCHANGED queue
    /\ UNCHANGED <<objects, registry, active, gauge, zombies, aged, hasty, pc, on, val,
                   toFinalize, discs, history>>

(* AsyncTCP is through with the session and nobody else will touch it: a   *)
(* K_CLOSE only holds the client.                                          *)
Forgotten(s) ==
    /\ conn[s] = "gone" /\ Queued(s) \subseteq {"close"}
    /\ \A t \in Tasks : on[t] = s => pc[t] = "dec"

(* zombie_sweep_ ends the pass; whether a session is forgotten it cannot   *)
(* tell.                                                                   *)
Sweep ==
    /\ pc["loop"] = "reap" /\ toFinalize = {} /\ toClose = {}
    /\ mem' = [s \in Sess |-> IF s \in aged THEN "freed" ELSE mem[s]]
    /\ zombies' = zombies \ aged /\ aged' = {}
    /\ hasty' = hasty \cup {s \in aged : ~Forgotten(s)}
    /\ Goto("loop", "idle")
    /\ UNCHANGED <<phase, attempts, finalized, quiet, registry, active, gauge,
                   queue, on, val, toFinalize, toClose, asynctcp, history>>

(***************************************************************************)
(* Time and AsyncTCP.                                                      *)
(***************************************************************************)

GoQuiet(s) ==
    /\ mem[s] = "live" /\ s \notin quiet \cup finalized
    /\ quiet' = quiet \cup {s}
    /\ UNCHANGED <<mem, phase, attempts, finalized, books, tasks, asynctcp, history>>

(* Five minutes pass, whatever AsyncTCP and the worker do meanwhile.       *)
Age(s) ==
    /\ s \in zombies \ aged
    /\ aged' = aged \cup {s}
    /\ UNCHANGED <<objects, registry, active, gauge, queue, zombies, hasty, tasks,
                   asynctcp, history>>

(* The peer closes, or tn_on_timeout does.                                 *)
PeerCloses(s) ==
    /\ conn[s] = "up"
    /\ Hangup(s)
    /\ UNCHANGED <<objects, books, tasks, discs, history>>

Vanish(s) ==
    /\ conn[s] \in {"up", "down"}
    /\ conn' = [conn EXCEPT ![s] = "gone"]
    /\ UNCHANGED <<objects, books, tasks, discs, history>>

-----------------------------------------------------------------------------
Callbacks ==
    \E s \in Sess :
        \/ TakeSlot(s) \/ OnBytes(s) \/ OnUser(s) \/ OnPassword(s)
        \/ OnShellLine(s) \/ OnDisconnect(s)

Release(t) ==
    Forensics(t) \/ Free(t) \/ Park(t) \/ Dec(t) \/ LoadActive(t) \/ StoreGauge(t)

Async ==
    \/ PublishSlot \/ OpenSession \/ Mark \/ SendFinal \/ Release("async")
    \/ \E exit \in BOOLEAN : Execute("async", exit)

Worker ==
    \/ TakeLine \/ TakeFinal \/ TakeClose \/ Release("worker")
    \/ \E exit \in BOOLEAN : Execute("worker", exit)

Reaper ==
    \/ Claim \/ Sweep \/ Release("loop")
    \/ \E s \in Sess : ReapFinalize(s) \/ ReapClose(s)

Environment ==
    \E s \in Sess : GoQuiet(s) \/ Age(s) \/ PeerCloses(s) \/ Vanish(s)

Next == Callbacks \/ Async \/ Worker \/ Reaper \/ Environment

Spec == Init /\ [][Next]_vars

(* The scheduler runs every task that has something to do; callbacks,      *)
(* silence and closes are the environment's.                               *)
FairSpec == Spec /\ WF_vars(Async) /\ WF_vars(Worker) /\ WF_vars(Reaper)

-----------------------------------------------------------------------------
ObjectsType ==
    /\ mem \in [Sess -> {"none", "live", "freed"}]
    /\ phase \in [Sess -> {"user", "pass", "shell", "dead"}]
    /\ attempts \in [Sess -> Nat]
    /\ finalized \in SUBSET Sess /\ quiet \in SUBSET Sess

BooksType ==
    /\ registry \in SUBSET Sess
    /\ active \in 0 .. TnMax /\ gauge \in 0 .. TnMax
    /\ queue \in Seq(Job) /\ Len(queue) <= QueueLen
    /\ zombies \in SUBSET Sess /\ aged \in SUBSET zombies
    /\ hasty \in SUBSET Sess

TasksType ==
    /\ pc \in [Tasks -> {"idle", "gauge", "open", "exec", "mark", "send", "reap",
                         "finalFree", "finalPark", "free", "park", "dec", "load", "store"}]
    /\ on \in [Tasks -> Sess \cup {NoSess}]
    /\ val \in [Tasks -> Nat]
    /\ toFinalize \in SUBSET Sess /\ toClose \in SUBSET Sess

AsyncTcpType ==
    /\ conn \in [Sess -> {"none", "up", "down", "gone"}]
    /\ discs \in [Sess -> 0 .. MaxDiscs]

HistoryType ==
    /\ typed \in [Sess -> Nat] /\ ran \in [Sess -> Seq(Nat)]
    /\ logged \in [Sess -> Nat] /\ counted \in [Sess -> Nat]
    /\ contended \in SUBSET Sess /\ inlined \in SUBSET Sess

(* Every variable has its type; s_active and the gauge stay within         *)
(* TN_MAX_CONCURRENT (729-745) and the job queue within its length (809).  *)
TypeOK == ObjectsType /\ BooksType /\ TasksType /\ AsyncTcpType /\ HistoryType

(***************************************************************************)
(* Safety.                                                                 *)
(***************************************************************************)

Releasing == {"send", "finalFree", "finalPark", "free", "park", "dec"}

(* The sessions that hold one of the TN_MAX_CONCURRENT slots, by who is    *)
(* responsible for giving it back.                                         *)
Accepting == {on[t] : t \in {u \in Tasks : pc[u] \in {"gauge", "open"}}}
InQueue   == {s \in Sess : Queued(s) \cap {"final", "stuck"} # {}}
InTask    == {on[t] : t \in {u \in Tasks : pc[u] \in Releasing}}
Holders   == Accepting \cup registry \cup toFinalize \cup InQueue \cup InTask

(* As long as the reaper claimed no session inside tn_finalize and the     *)
(* sweep deleted none that was still held, s_active is the number of       *)
(* sessions somebody will still release, whoever finalizes them and        *)
(* however full the queue is: no slot leaks and none is given back twice   *)
(* (telnet_honeypot.cpp:57-66, 490, 523, 547, 901).                        *)
SlotsAccounted == contended \cup hasty = {} => active = Cardinality(Holders)

(* A session's attack is appended once at most, and before its memory is   *)
(* freed, unless that session was claimed twice or deleted while it was    *)
(* still held (440-459, 517-549).                                          *)
LoggedOnce ==
    \A s \in Sess \ (contended \cup hasty) :
        logged[s] <= 1 /\ (mem[s] = "freed" => logged[s] = 1)

(* Sessions the worker alone works for: not claimed twice, not finalized   *)
(* inline past a full queue, not deleted by a sweep that came too early.   *)
Regular == Sess \ (contended \cup inlined \cup hasty)

(* No queue, list or task still has a regular session's memory to work on  *)
(* once it is freed, by the worker or by the sweep (222-262, 501).         *)
NoDangling ==
    \A s \in Regular :
        mem[s] = "freed" =>
            /\ Queued(s) \subseteq {"close"} /\ s \notin zombies \cup registry
            /\ \A t \in Tasks : on[t] = s => pc[t] = "dec"

(* A regular session executes the lines typed from the first on, with no   *)
(* gap, no repeat and in order (line n carries the number n), and the      *)
(* appended attack counts every one it ever ran: nothing executes after    *)
(* forensics (412-437, 494-516).                                           *)
CommandsComplete ==
    \A s \in Regular :
        /\ logged[s] > 0 => counted[s] = Len(ran[s])
        /\ \A i \in DOMAIN ran[s] : ran[s][i] = i

(***************************************************************************)
(* Liveness, under FairSpec.                                               *)
(***************************************************************************)

(* A session that goes quiet is logged and its slot released, whatever     *)
(* AsyncTCP does, unless bytes come before the reaper (822-932); a session *)
(* claimed twice, or deleted while held, takes the books with it.          *)
QuietIsFinalized ==
    \A s \in Sess :
        s \in quiet ~> \/ logged[s] > 0 /\ s \notin Holders
                      \/ s \notin quiet
                      \/ contended \cup hasty # {}

=============================================================================
