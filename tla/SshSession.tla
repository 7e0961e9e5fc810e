----------------------------- MODULE SshSession -----------------------------
(***************************************************************************)
(* The SSH side of the honeypot (ssh_honeypot.cpp): the task that makes    *)
(* the host key, the listener task that serves one client at a time, and   *)
(* the client it serves. WiFi, the operator's settings and power cuts      *)
(* change under them. libssh, FreeRTOS and the peer are external: a task   *)
(* may not be created, the bind may fail, a message may or may not come, a *)
(* reply may fail, the peer may leave at any time or talk for ever.        *)
(* A wait for a message ends after one unit of time; Idle units of silence *)
(* close a session.                                                        *)
(***************************************************************************)
EXTENDS Naturals, FiniteSets, Sequences

CONSTANTS Thresholds,  \* values of login_attempts_before_accept
          Idle,        \* kSshIdleTimeoutMs, in socket timeouts
          MaxKeys,     \* kMaxCollectedPubkeys
          QueueLen,    \* the places of s_q, the intel task's queue
          MaxSessions, \* bound: clients
          MaxMsgs,     \* bound: messages of all clients
          MaxBoots     \* bound: power cuts

ASSUME SshAssumption == /\ Thresholds # {} /\ Thresholds \subseteq Nat
                        /\ Idle \in Nat \ {0} /\ MaxKeys \in Nat
                        /\ QueueLen \in Nat \ {0}
                        /\ MaxSessions \in Nat /\ MaxMsgs \in Nat /\ MaxBoots \in Nat

VARIABLES wifi, enabled, thr, \* WiFi.status(), ssh_enabled, the threshold
          keyfile, \* /etc/host_rsa: "absent", "torn" or "good"
          ready,   \* s_hostkey_ready
          keygen,  \* the key task; s_hostkey_generating is keygen # "none",
                   \* and "unborn" is a task that could not be created
          pc,      \* the listener task
          ses,     \* the client it serves
          logged, queued, \* ids appended to the attack log, handed to intel
          waiting, \* ids in s_q, this listener's and the Telnet side's
          next,    \* the next attack id
          lost,    \* history: ids a power cut took, ids that met a full
                   \* queue, and torn keys
          left     \* what is left of the bounds

vars == <<wifi, enabled, thr, keyfile, ready, keygen, pc, ses, logged, queued, waiting, next, lost, left>>
env  == <<wifi, enabled, thr>>
key  == <<keyfile, ready, keygen>>
book == <<logged, queued, waiting, next, lost>>

\* An endless client always has one more message that changes nothing: a key
\* beyond the cap, a request that is denied, a key without a line.
NoSes == [id |-> 0, up |-> FALSE, endless |-> FALSE, idle |-> 0, attempts |-> 0, keys |-> 0,
          authed |-> FALSE, rec |-> "none", cmds |-> 0]

Serving == {"kex", "auth", "chan", "req", "exec", "shell", "close", "append", "enqueue", "free"}

\* The listener's task may not have been created; a queue that could not be is
\* a full one.
Init == /\ wifi = FALSE /\ enabled \in BOOLEAN /\ thr \in Thresholds
        /\ keyfile \in {"absent", "good"} /\ ready = FALSE /\ keygen = "none"
        /\ pc \in {"wifi", "dead"} /\ ses = NoSes
        /\ logged = <<>> /\ queued = <<>> /\ waiting \in {0, QueueLen} /\ next = 1
        /\ lost = [ids |-> {}, dropped |-> {}, torn |-> FALSE]
        /\ left = [msgs |-> MaxMsgs, boots |-> MaxBoots]

(***************************************************************************)
(* The host key.                                                           *)
(***************************************************************************)
\* The key task finds the file and looks no further.
FindKey == /\ keygen = "look"
           /\ ready' = (keyfile # "absent")
           /\ keygen' = IF keyfile # "absent" THEN "none" ELSE "generate"
           /\ UNCHANGED <<env, keyfile, pc, ses, book, left>>

\* ssh_pki_generate, then the export opens the file; nobody tries again after
\* a failure.
GenerateKey == /\ keygen = "generate"
               /\ \/ keygen' = "export" /\ keyfile' = "torn"
                  \/ keygen' = "none" /\ UNCHANGED keyfile
               /\ UNCHANGED <<env, ready, pc, ses, book, left>>

ExportKey == /\ keygen = "export" /\ keygen' = "none"
             /\ \/ keyfile' = "good" /\ ready' = TRUE /\ UNCHANGED lost
                \/ lost' = [lost EXCEPT !.torn = TRUE] /\ UNCHANGED <<keyfile, ready>>
             /\ UNCHANGED <<env, pc, ses, logged, queued, waiting, next, left>>

KeyTask == FindKey \/ GenerateKey \/ ExportKey

(***************************************************************************)
(* The listener until it listens.                                          *)
(***************************************************************************)
\* Slip: the key task runs only when there is no key file.
WaitAbsent == /\ pc = "wifi" /\ wifi
              /\ pc' = "key"
              /\ keygen' = IF keyfile = "absent" THEN "look" ELSE keygen
              /\ UNCHANGED <<env, keyfile, ready, ses, book, left>>
\* The flag is set, then the task created; nobody looks whether it was.
WaitWifi == /\ pc = "wifi" /\ wifi
            /\ pc' = "key"
            /\ IF ready \/ keygen # "none" THEN UNCHANGED keygen ELSE keygen' \in {"look", "unborn"}
            /\ UNCHANGED <<env, keyfile, ready, ses, book, left>>

WaitKey == /\ pc = "key" /\ ready /\ pc' = "enabled"
           /\ UNCHANGED <<env, key, ses, book, left>>

WaitEnabled == /\ pc = "enabled" /\ enabled /\ pc' = "bind"
               /\ UNCHANGED <<env, key, ses, book, left>>

\* ssh_bind_listen reads the key file and may fail for other reasons; when it
\* fails the task deletes itself, and nobody starts another.
Bind == /\ pc = "bind"
        /\ \/ keyfile = "good" /\ pc' = "gates"
           \/ pc' = "dead"
        /\ UNCHANGED <<env, key, ses, book, left>>

(***************************************************************************)
(* One client.                                                             *)
(***************************************************************************)
Gates == /\ pc = "gates" /\ enabled /\ wifi /\ pc' = "accept"
         /\ UNCHANGED <<env, key, ses, book, left>>

\* select timed out, accept failed, the heap is too fragmented for a key
\* exchange, or the gate knows the peer.
Refuse == /\ pc = "accept" /\ pc' = "gates"
          /\ UNCHANGED <<env, key, ses, book, left>>

\* handle_session: an id, and a recording that stays paused; its file may
\* fail to open.
Admit == /\ pc = "accept" /\ next <= MaxSessions
         /\ \E rec \in {"none", "paused"}, endless \in BOOLEAN :
               ses' = [NoSes EXCEPT !.id = next, !.up = TRUE, !.endless = endless, !.rec = rec]
         /\ next' = next + 1 /\ pc' = "kex"
         /\ UNCHANGED <<env, key, logged, queued, waiting, lost, left>>

\* Slip: a failed key exchange is not worth an entry.
DropUnkexed == /\ pc = "kex" /\ \E ok \in BOOLEAN : pc' = IF ok THEN "auth" ELSE "free"
               /\ UNCHANGED <<env, key, ses, book, left>>
Kex == /\ pc = "kex" /\ \E ok \in BOOLEAN : pc' = IF ok THEN "auth" ELSE "close"
       /\ UNCHANGED <<env, key, ses, book, left>>

\* A message of the peer: it resets the idle clock.
Hears(phase) == /\ pc = phase /\ ses.up /\ ses.idle < Idle /\ left.msgs > 0
                /\ left' = [left EXCEPT !.msgs = @ - 1]
                /\ UNCHANGED <<env, key, book>>

TryAgain == ~ses.authed /\ ses.attempts < thr + 3

AuthPassword ==
    /\ Hears("auth") /\ TryAgain
    /\ ses' = [ses EXCEPT !.idle = 0, !.attempts = @ + 1, !.authed = ses.attempts + 1 >= thr]
    /\ UNCHANGED pc

\* Slip: the offered key is accepted.
TrustKey == /\ Hears("auth") /\ TryAgain
            /\ ses' = [ses EXCEPT !.idle = 0, !.authed = TRUE]
            /\ UNCHANGED pc
\* A key is kept for the entry, up to a cap; it neither counts as an attempt
\* nor is ever accepted.
AuthPubkey ==
    /\ Hears("auth") /\ TryAgain
    /\ ses' = [ses EXCEPT !.idle = 0, !.keys = IF @ < MaxKeys THEN @ + 1 ELSE @]
    /\ UNCHANGED pc

\* Method none, other methods, and requests that are no authentication; in the
\* later phases, channels and requests of kinds that are denied.
Denied == \E phase \in {"auth", "chan", "req"} :
             /\ Hears(phase) /\ (phase = "auth" => TryAgain)
             /\ ses' = [ses EXCEPT !.idle = 0]
             /\ UNCHANGED pc

\* No message came: authentication gives up, the other waits go on.
AuthSilent == /\ pc = "auth" /\ ses.up /\ ~ses.endless /\ ses.idle < Idle /\ TryAgain
              /\ pc' = "close"
              /\ UNCHANGED <<env, key, ses, book, left>>

AuthDone == /\ pc = "auth" /\ (~TryAgain \/ ~ses.up)
            /\ pc' = IF ses.authed THEN "chan" ELSE "close"
            /\ ses' = [ses EXCEPT !.idle = 0]
            /\ UNCHANGED <<env, key, book, left>>

\* The reply that opens the channel may fail, and the wait goes on.
OpenChannel == /\ Hears("chan")
               /\ ses' = [ses EXCEPT !.idle = 0]
               /\ pc' \in {"chan", "req"}

\* From here on what is said is recorded.
StartShell == /\ Hears("req")
              /\ pc' \in {"shell", "exec"}
              /\ ses' = [ses EXCEPT !.idle = 0, !.rec = IF @ = "paused" THEN "live" ELSE @]

Silent == /\ pc \in {"chan", "req", "shell"} /\ ses.up /\ ~ses.endless /\ ses.idle < Idle
          /\ ses' = [ses EXCEPT !.idle = @ + 1]
          /\ UNCHANGED <<env, key, pc, book, left>>

\* The wait ends with the peer or its patience; a session whose channel was
\* never opened, or never used, goes straight to its end.
GiveUp == /\ pc \in {"chan", "req", "shell"} /\ (~ses.up \/ ses.idle >= Idle)
          /\ pc' = "close"
          /\ UNCHANGED <<env, key, ses, book, left>>

\* One command, then the end of file.
RunExec == /\ pc = "exec"
           /\ ses' = [ses EXCEPT !.cmds = 1]
           /\ pc' = "close"
           /\ UNCHANGED <<env, key, book, left>>

\* run_fake_shell: bytes come in; they may complete a line, that line may be
\* exit (or Ctrl-D), or exceed the limits of a session.
ShellInput == /\ Hears("shell")
              /\ \E lines \in {0, 1} : ses' = [ses EXCEPT !.idle = 0, !.cmds = @ + lines]
              /\ pc' \in {"shell", "close"}

\* Slip: the entry is handed over while the recording is still open.
CloseLate == /\ pc = "close" /\ pc' = "append"
             /\ UNCHANGED <<env, key, ses, book, left>>
CloseCast == /\ pc = "close" /\ pc' = "append"
             /\ ses' = [ses EXCEPT !.rec = IF @ = "none" THEN @ ELSE "closed"]
             /\ UNCHANGED <<env, key, book, left>>

AppendEntry == /\ pc = "append" /\ pc' = "enqueue"
               /\ logged' = Append(logged, ses.id)
               /\ UNCHANGED <<env, key, ses, queued, waiting, next, lost, left>>

\* intel_enqueue does not wait: a full queue refuses the id, unnoticed.
Enqueue == /\ pc = "enqueue" /\ pc' = "free"
           /\ \/ /\ waiting < QueueLen
                 /\ queued' = Append(queued, ses.id) /\ waiting' = waiting + 1
                 /\ UNCHANGED lost
              \/ /\ waiting = QueueLen
                 /\ lost' = [lost EXCEPT !.dropped = @ \cup {ses.id}]
                 /\ UNCHANGED <<queued, waiting>>
           /\ UNCHANGED <<env, key, ses, logged, next, left>>

FreeSession == /\ pc = "free" /\ pc' = "gates" /\ ses' = NoSes
               /\ UNCHANGED <<env, key, book, left>>

(***************************************************************************)
(* The world.                                                              *)
(***************************************************************************)
Hangup == /\ pc \in Serving /\ ses.up /\ ses' = [ses EXCEPT !.up = FALSE]
          /\ UNCHANGED <<env, key, pc, book, left>>

\* The intel task takes an id off its queue; the Telnet side adds one.
IntelQueue == /\ \/ waiting > 0 /\ waiting' = waiting - 1
                 \/ waiting < QueueLen /\ waiting' = waiting + 1
              /\ UNCHANGED <<env, key, pc, ses, logged, queued, next, lost, left>>

Environment ==
    /\ \/ wifi' = ~wifi /\ UNCHANGED <<enabled, thr>>
       \/ enabled' = ~enabled /\ UNCHANGED <<wifi, thr>>
       \/ thr' \in Thresholds \ {thr} /\ UNCHANGED <<wifi, enabled>>
    /\ UNCHANGED <<key, pc, ses, book, left>>

Reboot == /\ left.boots > 0 /\ left' = [left EXCEPT !.boots = @ - 1]
          /\ lost' = [ids     |-> IF pc \in Serving THEN lost.ids \cup {ses.id} ELSE lost.ids,
                      dropped |-> lost.dropped,
                      torn    |-> lost.torn \/ keygen = "export"]
          /\ wifi' = FALSE /\ ready' = FALSE /\ keygen' = "none" /\ waiting' \in {0, QueueLen}
          /\ pc' \in {"wifi", "dead"} /\ ses' = NoSes
          /\ UNCHANGED <<enabled, thr, keyfile, logged, queued, next>>

Listener == \/ WaitWifi \/ WaitKey \/ WaitEnabled \/ Bind \/ Gates \/ Refuse
            \/ Kex \/ AuthSilent \/ AuthDone \/ Silent \/ GiveUp \/ RunExec
            \/ CloseCast \/ AppendEntry \/ Enqueue \/ FreeSession
Peer == \/ Admit \/ AuthPassword \/ AuthPubkey \/ Denied \/ OpenChannel
        \/ StartShell \/ ShellInput \/ Hangup

Next == KeyTask \/ Listener \/ Peer \/ IntelQueue \/ Environment \/ Reboot

Spec == Init /\ [][Next]_vars

\* The two tasks run; nothing is expected of the peer or of the operator.
FairSpec == Spec /\ WF_vars(KeyTask) /\ WF_vars(Listener)

(***************************************************************************)
(* Properties.                                                             *)
(***************************************************************************)
Session == [id : Nat, up : BOOLEAN, endless : BOOLEAN, idle : 0..Idle, attempts : Nat, keys : 0..MaxKeys,
            authed : BOOLEAN, rec : {"none", "paused", "live", "closed"}, cmds : Nat]

TypeOK ==
    /\ wifi \in BOOLEAN /\ enabled \in BOOLEAN /\ thr \in Thresholds
    /\ keyfile \in {"absent", "torn", "good"} /\ ready \in BOOLEAN
    /\ keygen \in {"none", "look", "generate", "export", "unborn"}
    /\ pc \in Serving \cup {"wifi", "key", "enabled", "bind", "gates", "accept", "dead"}
    /\ ses \in Session
    /\ logged \in Seq(Nat) /\ queued \in Seq(Nat) /\ waiting \in 0..QueueLen /\ next \in Nat
    /\ lost \in [ids : SUBSET Nat, dropped : SUBSET Nat, torn : BOOLEAN]
    /\ left \in [msgs : Nat, boots : Nat]

ServedId == IF pc \in Serving THEN {ses.id} ELSE {}
Ids(s) == {s[i] : i \in DOMAIN s}

\* Every client that got an id is in the attack log once, whichever way its
\* session ended, unless it is still being served or a power cut took it.
EveryClientLogged ==
    /\ Ids(logged) \cup ServedId \cup lost.ids = 1..(next - 1)
    /\ Len(logged) = Cardinality(Ids(logged))

\* The intel task is told of an entry after it is in the log, in the same
\* order, and once (it would look an unknown id up in vain and drop it). The
\* ids it is never told of are those that met a full queue, which stay in the
\* log, and those a power cut took.
InLogOrder(id, later) == \E k, l \in DOMAIN logged : k < l /\ logged[k] = id /\ logged[l] = later
QueuedInOrder ==
    /\ Ids(queued) \subseteq Ids(logged)
    /\ \A i, j \in DOMAIN queued : i < j => InLogOrder(queued[i], queued[j])
    /\ \A id \in Ids(logged) \ Ids(queued) : id \in ServedId \cup lost.ids \cup lost.dropped
    /\ lost.dropped \subseteq Ids(logged) \ Ids(queued)

\* Nobody uploads a recording that is still written: it is closed before the
\* entry that names it can be found.
ClosedBeforeLogged == ses.id \in Ids(logged) => ses.rec \in {"none", "closed"}

\* A shell, and a recording that runs, were earned by a password: offered keys
\* and other methods never open one (the entry would claim a login that never
\* happened).
ShellEarned == (pc \in {"chan", "req", "exec", "shell"} \/ ses.rec = "live" \/ ses.cmds > 0)
                  => ses.authed /\ (ses.attempts > 0)

\* The key is announced when it is whole; a file a failed export or a power
\* cut left behind is the exception, since only its existence is looked at.
KeyWhole == ready => keyfile = "good" \/ lost.torn

\* The one slot comes free: a client that goes silent, in whatever phase,
\* gives the listener back. One that talks without end keeps it.
SlotComesFree == pc \in Serving ~> (pc \in {"gates", "wifi", "dead"} \/ (ses.up /\ ses.endless))

\* With WiFi and SSH enabled for good the listener listens. What keeps it from
\* it in this boot: there is no key, because making it failed or its task was
\* not created, or there is no listener, because its own task was not created
\* or the bind failed. Nothing in the code tries any of these again.
NoKey == pc = "key" /\ ~ready /\ (keygen = "unborn" \/ (keygen = "none" /\ keyfile # "good"))
NoListener == pc = "dead"
ListensInTheEnd == <>[](wifi /\ enabled) =>
    []<>(pc \in Serving \cup {"gates", "accept"} \/ NoKey \/ NoListener)

\* An entry that is handed on is in the log, and its recording is closed.
HandOver == QueuedInOrder /\ ClosedBeforeLogged

\* The listener serves: its key is whole, only a client that never stops
\* talking keeps it from the next one, and it comes to listening unless a
\* step that is not retried failed in this boot.
ListenerServes == []KeyWhole /\ SlotComesFree /\ ListensInTheEnd

=============================================================================
