------------------------------ MODULE SshProofs ------------------------------
(***************************************************************************)
(* What holds of the SSH listener's sessions for every threshold,          *)
(* patience, cap and number of clients, messages and power cuts; and of    *)
(* the gate against repeat connections that they pass: the types of its    *)
(* state, and, before millis() wraps, when it keeps an address out, how    *)
(* long it remembers one, and how many sessions a race lets in.            *)
(***************************************************************************)
EXTENDS SshSession, AttackerGate, FiniteSetTheorems, FunctionTheorems,
        WellFoundedInduction, NaturalsInduction, TLAPS

(***************************************************************************)
(* Types.                                                                  *)
(***************************************************************************)
\* What the steps of a session write into its record.
LEMMA SessionWrites ==
    ASSUME NEW s \in Session
    PROVE  /\ \A i \in 0..Idle : [s EXCEPT !.idle = i] \in Session
           /\ \A i \in 0..Idle, n \in Nat, b \in BOOLEAN :
                 [s EXCEPT !.idle = i, !.attempts = n, !.authed = b] \in Session
           /\ \A i \in 0..Idle, k \in 0..MaxKeys : [s EXCEPT !.idle = i, !.keys = k] \in Session
           /\ \A i \in 0..Idle, r \in {"none", "paused", "live", "closed"} :
                 [s EXCEPT !.idle = i, !.rec = r] \in Session
           /\ \A r \in {"none", "paused", "live", "closed"} : [s EXCEPT !.rec = r] \in Session
           /\ \A i \in 0..Idle, n \in Nat : [s EXCEPT !.idle = i, !.cmds = n] \in Session
           /\ \A n \in Nat : [s EXCEPT !.cmds = n] \in Session
           /\ [s EXCEPT !.up = FALSE] \in Session
           /\ \A n \in Nat, b \in BOOLEAN, r \in {"none", "paused", "live", "closed"} :
                 [s EXCEPT !.id = n, !.up = TRUE, !.endless = b, !.rec = r] \in Session
  BY DEF Session

LEMMA SessionFields ==
    ASSUME NEW s \in Session
    PROVE  /\ s.id \in Nat /\ s.idle \in 0..Idle /\ s.attempts \in Nat /\ s.keys \in 0..MaxKeys
           /\ s.authed \in BOOLEAN /\ s.up \in BOOLEAN /\ s.cmds \in Nat
           /\ s.rec \in {"none", "paused", "live", "closed"}
  BY DEF Session

LEMMA NoSessionTyped == NoSes \in Session /\ 0 \in 0..Idle
<1>1. 0 \in 0..Idle /\ 0 \in 0..MaxKeys
  BY SshAssumption
<1> QED
  BY <1>1 DEF NoSes, Session

LEMMA TypeInit == Init => TypeOK
<1> SUFFICES ASSUME Init PROVE TypeOK
  OBVIOUS
<1>1. <<>> \in Seq(Nat)
  OBVIOUS
<1>2. lost \in [ids : SUBSET Nat, dropped : SUBSET Nat, torn : BOOLEAN] /\ left \in [msgs : Nat, boots : Nat]
  BY SshAssumption DEF Init
<1>3. next \in Nat /\ pc \in Serving \cup {"wifi", "key", "enabled", "bind", "gates", "accept", "dead"}
  BY DEF Init
<1>5. waiting \in 0..QueueLen
  BY SshAssumption DEF Init
<1>4. thr \in Thresholds /\ wifi \in BOOLEAN /\ enabled \in BOOLEAN /\ ready \in BOOLEAN
  BY DEF Init
<1> QED
  BY <1>1, <1>2, <1>3, <1>4, <1>5, NoSessionTyped DEF Init, TypeOK

\* The host key, the intel task's queue, the environment and a power cut.
LEMMA TypeKey == TypeOK /\ (KeyTask \/ IntelQueue \/ Environment \/ Reboot) => TypeOK'
<1> SUFFICES ASSUME TypeOK, KeyTask \/ IntelQueue \/ Environment \/ Reboot PROVE TypeOK'
  OBVIOUS
<1> USE NoSessionTyped DEF TypeOK, env, key, book
<1>1. CASE FindKey
  BY <1>1 DEF FindKey
<1>2. CASE GenerateKey
  BY <1>2 DEF GenerateKey
<1>3. CASE ExportKey
  <2>1. lost' \in [ids : SUBSET Nat, dropped : SUBSET Nat, torn : BOOLEAN]
    BY <1>3 DEF ExportKey
  <2>2. ready' \in BOOLEAN /\ keyfile' \in {"absent", "torn", "good"}
    BY <1>3 DEF ExportKey
  <2> QED
    BY <1>3, <2>1, <2>2 DEF ExportKey
<1>4. CASE Environment
  <2>1. wifi' \in BOOLEAN /\ enabled' \in BOOLEAN /\ thr' \in Thresholds
    BY <1>4 DEF Environment
  <2> QED
    BY <1>4, <2>1 DEF Environment
<1>5. CASE Reboot
  <2>1. ses.id \in Nat
    BY SessionFields
  <2>2. lost' \in [ids : SUBSET Nat, dropped : SUBSET Nat, torn : BOOLEAN]
    <3>1. (lost.torn \/ keygen = "export") \in BOOLEAN /\ lost.dropped \in SUBSET Nat
      OBVIOUS
    <3>2. (IF pc \in Serving THEN lost.ids \cup {ses.id} ELSE lost.ids) \in SUBSET Nat
      BY <2>1
    <3>3. \A S \in SUBSET Nat, D \in SUBSET Nat, b \in BOOLEAN :
             [ids |-> S, dropped |-> D, torn |-> b]
                \in [ids : SUBSET Nat, dropped : SUBSET Nat, torn : BOOLEAN]
      OBVIOUS
    <3> DEFINE S == IF pc \in Serving THEN lost.ids \cup {ses.id} ELSE lost.ids
               D == lost.dropped
               b == lost.torn \/ keygen = "export"
    <3>4. lost' = [ids |-> S, dropped |-> D, torn |-> b]
      BY <1>5 DEF Reboot
    <3>5. S \in SUBSET Nat /\ D \in SUBSET Nat /\ b \in BOOLEAN
      BY <3>1, <3>2
    <3> HIDE DEF S, D, b, TypeOK
    <3> QED
      BY <3>3, <3>4, <3>5
  <2>3. left' \in [msgs : Nat, boots : Nat]
    <3>1. left.boots - 1 \in Nat /\ left' = [left EXCEPT !.boots = left.boots - 1]
      BY <1>5 DEF Reboot
    <3>2. left \in [msgs : Nat, boots : Nat]
      OBVIOUS
    <3> QED
      BY <3>1, <3>2
  <2>4. waiting' \in 0..QueueLen
    BY <1>5, SshAssumption DEF Reboot
  <2> QED
    BY <1>5, <2>2, <2>3, <2>4 DEF Reboot
<1>6. CASE IntelQueue
  <2>1. waiting' \in 0..QueueLen
    BY <1>6, SshAssumption DEF IntelQueue
  <2> QED
    BY <1>6, <2>1 DEF IntelQueue
<1> QED
  BY <1>1, <1>2, <1>3, <1>4, <1>5, <1>6 DEF KeyTask

\* The listener.
LEMMA TypeListener == TypeOK /\ Listener => TypeOK'
<1> SUFFICES ASSUME TypeOK, Listener PROVE TypeOK'
  OBVIOUS
<1> USE NoSessionTyped DEF TypeOK, env, key, book
<1>0. ses \in Session
  OBVIOUS
<1>1. CASE WaitWifi     BY <1>1 DEF WaitWifi
<1>2. CASE WaitKey      BY <1>2 DEF WaitKey
<1>3. CASE WaitEnabled  BY <1>3 DEF WaitEnabled
<1>4. CASE Bind         BY <1>4 DEF Bind
<1>5. CASE Gates        BY <1>5 DEF Gates
<1>6. CASE Refuse       BY <1>6 DEF Refuse
<1>7. CASE Kex          BY <1>7 DEF Kex, Serving
<1>8. CASE AuthSilent   BY <1>8 DEF AuthSilent, Serving
<1>9. CASE AuthDone
  <2>1. ses' \in Session
    BY <1>0, <1>9, SessionWrites DEF AuthDone
  <2> QED
    BY <1>9, <2>1 DEF AuthDone, Serving
<1>10. CASE Silent
  <2>1. ses.idle + 1 \in 0..Idle
    <3> HIDE DEF TypeOK
    <3>1. ses.idle \in 0..Idle /\ Idle \in Nat
      BY <1>0, SessionFields, SshAssumption
    <3>2. ses.idle < Idle
      BY <1>10 DEF Silent
    <3> QED
      BY <3>1, <3>2
  <2>2. ses' \in Session
    BY <1>0, <1>10, <2>1, SessionWrites DEF Silent
  <2> QED
    BY <1>10, <2>2 DEF Silent
<1>11. CASE GiveUp      BY <1>11 DEF GiveUp, Serving
<1>12. CASE RunExec
  <2>1. ses' \in Session
    BY <1>0, <1>12, SessionWrites DEF RunExec
  <2> QED
    BY <1>12, <2>1 DEF RunExec, Serving
<1>13. CASE CloseCast
  <2>1. (IF ses.rec = "none" THEN ses.rec ELSE "closed") \in {"none", "paused", "live", "closed"}
    OBVIOUS
  <2>2. ses' \in Session
    BY <1>0, <1>13, <2>1, SessionWrites DEF CloseCast
  <2> QED
    BY <1>13, <2>2 DEF CloseCast, Serving
<1>14. CASE AppendEntry
  <2>1. Append(logged, ses.id) \in Seq(Nat)
    BY <1>0, SessionFields
  <2> QED
    BY <1>14, <2>1 DEF AppendEntry, Serving
<1>15. CASE Enqueue
  <2>1. Append(queued, ses.id) \in Seq(Nat)
    BY <1>0, SessionFields
  <2>2. CASE waiting < QueueLen /\ waiting' = waiting + 1 /\ queued' = Append(queued, ses.id)
             /\ UNCHANGED lost
    <3>1. waiting' \in 0..QueueLen /\ queued' \in Seq(Nat)
      BY <2>1, <2>2, SshAssumption
    <3> QED
      BY <1>15, <2>2, <3>1 DEF Enqueue, Serving
  <2>3. CASE /\ lost' = [lost EXCEPT !.dropped = lost.dropped \cup {ses.id}]
             /\ UNCHANGED <<queued, waiting>>
    <3>1. lost.dropped \cup {ses.id} \in SUBSET Nat
      BY <1>0, SessionFields
    <3>2. lost' \in [ids : SUBSET Nat, dropped : SUBSET Nat, torn : BOOLEAN]
      BY <2>3, <3>1
    <3> QED
      BY <1>15, <2>3, <3>2 DEF Enqueue, Serving
  <2> QED
    BY <1>15, <2>2, <2>3 DEF Enqueue
<1>16. CASE FreeSession BY <1>16 DEF FreeSession
<1> QED
  BY <1>1, <1>2, <1>3, <1>4, <1>5, <1>6, <1>7, <1>8, <1>9, <1>10, <1>11, <1>12, <1>13,
     <1>14, <1>15, <1>16 DEF Listener

\* The peer.
LEMMA TypePeer == TypeOK /\ Peer => TypeOK'
<1> SUFFICES ASSUME TypeOK, Peer PROVE TypeOK'
  OBVIOUS
<1> USE NoSessionTyped DEF TypeOK, env, key, book
<1>0. ses \in Session
  OBVIOUS
<1>a. ASSUME NEW phase, Hears(phase)
      PROVE  /\ left' \in [msgs : Nat, boots : Nat]
             /\ UNCHANGED <<wifi, enabled, thr, keyfile, ready, keygen, logged, queued, waiting, next, lost>>
  <2>1. left' = [left EXCEPT !.msgs = left.msgs - 1] /\ left.msgs > 0
    BY <1>a DEF Hears
  <2>2. left.msgs - 1 \in Nat
    BY <2>1
  <2>3. left' \in [msgs : Nat, boots : Nat]
    BY <2>1, <2>2
  <2> QED
    BY <1>a, <2>3 DEF Hears
<1>1. CASE Admit
  <2>1. PICK rec \in {"none", "paused"}, endless \in BOOLEAN :
           ses' = [NoSes EXCEPT !.id = next, !.up = TRUE, !.endless = endless, !.rec = rec]
    BY <1>1 DEF Admit
  <2>2. ses' \in Session
    BY <2>1, SessionWrites
  <2> QED
    BY <1>1, <2>2 DEF Admit, Serving
<1>2. CASE AuthPassword
  <2>1. ses.attempts + 1 \in Nat /\ (ses.attempts + 1 >= thr) \in BOOLEAN
    BY <1>0, SessionFields
  <2>2. ses' = [ses EXCEPT !.idle = 0, !.attempts = ses.attempts + 1, !.authed = (ses.attempts + 1 >= thr)]
    BY <1>2 DEF AuthPassword
  <2>3. ses' \in Session
    BY <1>0, <2>1, <2>2, SessionWrites, Zenon
  <2> QED
    BY <1>2, <1>a, <2>3 DEF AuthPassword
<1>3. CASE AuthPubkey
  <2>1. (IF ses.keys < MaxKeys THEN ses.keys + 1 ELSE ses.keys) \in 0..MaxKeys
    BY <1>0, SessionFields, SshAssumption
  <2>2. ses' \in Session
    BY <1>0, <1>3, <2>1, SessionWrites DEF AuthPubkey
  <2> QED
    BY <1>3, <1>a, <2>2 DEF AuthPubkey
<1>4. CASE Denied
  <2>1. ses' \in Session
    <3>1. ses' = [ses EXCEPT !.idle = 0] /\ 0 \in 0..Idle
      BY <1>4 DEF Denied
    <3> HIDE DEF TypeOK
    <3> QED
      BY <1>0, <3>1, SessionWrites
  <2> QED
    BY <1>4, <1>a, <2>1 DEF Denied
<1>5. CASE OpenChannel
  <2>1. ses' \in Session
    BY <1>0, <1>5, SessionWrites DEF OpenChannel
  <2> QED
    BY <1>5, <1>a, <2>1 DEF OpenChannel, Serving
<1>6. CASE StartShell
  <2>1. (IF ses.rec = "paused" THEN "live" ELSE ses.rec) \in {"none", "paused", "live", "closed"}
    BY <1>0, SessionFields
  <2>2. ses' \in Session
    BY <1>0, <1>6, <2>1, SessionWrites DEF StartShell
  <2> QED
    BY <1>6, <1>a, <2>2 DEF StartShell, Serving
<1>7. CASE ShellInput
  <2>1. PICK lines \in {0, 1} : ses' = [ses EXCEPT !.idle = 0, !.cmds = ses.cmds + lines]
    BY <1>7 DEF ShellInput
  <2>2. ses.cmds + lines \in Nat
    BY <1>0, SessionFields
  <2>3. ses' \in Session
    BY <1>0, <2>1, <2>2, SessionWrites
  <2> QED
    BY <1>7, <1>a, <2>3 DEF ShellInput, Serving
<1>8. CASE Hangup
  <2>1. ses' \in Session
    BY <1>0, <1>8, SessionWrites DEF Hangup
  <2> QED
    BY <1>8, <2>1 DEF Hangup
<1> QED
  BY <1>1, <1>2, <1>3, <1>4, <1>5, <1>6, <1>7, <1>8 DEF Peer

LEMMA TypeStep == TypeOK /\ [Next]_vars => TypeOK'
<1>1. TypeOK /\ UNCHANGED vars => TypeOK'
  BY DEF TypeOK, vars
<1> QED
  BY <1>1, TypeKey, TypeListener, TypePeer DEF Next

\* Every variable keeps its type.
THEOREM SshTypeCorrect == Spec => []TypeOK
  BY TypeInit, TypeStep, PTL DEF Spec

(***************************************************************************)
(* A shell is earned by a password.                                        *)
(***************************************************************************)
\* ShellEarned speaks of where the session is and what it has done; what keeps
\* it is that nobody is let in without an attempt.
EarnedInv == ShellEarned /\ (ses.authed => ses.attempts > 0)

LEMMA EarnedInit == Init => EarnedInv
  BY DEF Init, EarnedInv, ShellEarned, NoSes

LEMMA EarnedStep == TypeOK /\ EarnedInv /\ [Next]_vars => EarnedInv'
<1> SUFFICES ASSUME TypeOK, EarnedInv, [Next]_vars PROVE EarnedInv'
  OBVIOUS
<1>0. /\ ses \in Session /\ ses.attempts \in Nat /\ ses.authed \in BOOLEAN /\ ses.cmds \in Nat
      /\ ses.rec \in {"none", "paused", "live", "closed"}
  BY SessionFields DEF TypeOK
<1> USE DEF EarnedInv, ShellEarned, env, key, book
<1>1. ASSUME UNCHANGED ses, pc' = pc \/ pc' \notin {"chan", "req", "exec", "shell"} PROVE EarnedInv'
  BY <1>1
<1>2. ASSUME ses' = NoSes, pc' \notin {"chan", "req", "exec", "shell"} PROVE EarnedInv'
  BY <1>2 DEF NoSes
<1>3. CASE UNCHANGED vars
  BY <1>3, <1>1 DEF vars
<1>4. CASE KeyTask
  BY <1>4, <1>1 DEF KeyTask, FindKey, GenerateKey, ExportKey
<1>5. CASE Environment
  BY <1>5, <1>1 DEF Environment
<1>6. CASE Reboot
  BY <1>6, <1>2 DEF Reboot
<1>9. CASE IntelQueue
  BY <1>9, <1>1 DEF IntelQueue
<1>7. CASE Listener
  <2>1. CASE WaitWifi \/ WaitKey \/ WaitEnabled \/ Bind \/ Gates \/ Refuse \/ Kex \/ AuthSilent
             \/ GiveUp \/ AppendEntry \/ Enqueue
    BY <2>1, <1>1 DEF WaitWifi, WaitKey, WaitEnabled, Bind, Gates, Refuse, Kex, AuthSilent,
                      GiveUp, AppendEntry, Enqueue
  <2>2. CASE AuthDone
    BY <2>2, <1>0 DEF AuthDone, Session
  <2>3. CASE Silent
    BY <2>3, <1>0 DEF Silent, Session
  <2>4. CASE RunExec
    BY <2>4, <1>0 DEF RunExec, Session
  <2>5. CASE CloseCast
    BY <2>5, <1>0 DEF CloseCast, Session
  <2>6. CASE FreeSession
    BY <2>6, <1>2 DEF FreeSession
  <2> QED
    BY <1>7, <2>1, <2>2, <2>3, <2>4, <2>5, <2>6 DEF Listener
<1>8. CASE Peer
  <2>1. CASE Admit
    BY <2>1 DEF Admit, NoSes
  <2>2. CASE AuthPassword
    <3>1. /\ ses'.attempts = ses.attempts + 1 /\ ses'.rec = ses.rec /\ ses'.cmds = ses.cmds
          /\ pc' = "auth" /\ pc = "auth" /\ ~ses.authed
      BY <2>2, <1>0 DEF AuthPassword, Hears, TryAgain, Session
    <3> QED
      BY <3>1, <1>0
  <2>3. CASE AuthPubkey
    BY <2>3, <1>0 DEF AuthPubkey, Hears, Session
  <2>4. CASE Denied
    BY <2>4, <1>0 DEF Denied, Hears, Session
  <2>5. CASE OpenChannel
    BY <2>5, <1>0 DEF OpenChannel, Hears, Session
  <2>6. CASE StartShell
    BY <2>6, <1>0 DEF StartShell, Hears, Session
  <2>7. CASE ShellInput
    BY <2>7, <1>0 DEF ShellInput, Hears, Session
  <2>8. CASE Hangup
    BY <2>8, <1>0 DEF Hangup, Session
  <2> QED
    BY <1>8, <2>1, <2>2, <2>3, <2>4, <2>5, <2>6, <2>7, <2>8 DEF Peer
<1> QED
  BY <1>3, <1>4, <1>5, <1>6, <1>7, <1>8, <1>9 DEF Next

\* A shell, and a recording that runs, were earned by a password, whatever the
\* threshold and whatever else the peer tried.
THEOREM ShellsAreEarned == Spec => []ShellEarned
<1>1. EarnedInv => ShellEarned
  BY DEF EarnedInv
<1> QED
  BY <1>1, TypeInit, TypeStep, EarnedInit, EarnedStep, PTL DEF Spec

(***************************************************************************)
(* Every client is logged, in the order of the ids, and handed on after.   *)
(***************************************************************************)
\* Where a session stands: the one served has the last id, and is in the log,
\* and then with the intel task, only in its last phases.
PhaseOK ==
    /\ pc \notin Serving => ses = NoSes
    /\ pc \in Serving => ses.id = next - 1 /\ next > 1
    /\ pc \in {"append", "enqueue", "free"} => ses.rec \in {"none", "closed"}
    /\ pc \in Serving => /\ ses.id \in Ids(logged) <=> pc \in {"enqueue", "free"}
                         /\ ses.id \in Ids(queued) \cup lost.dropped <=> pc = "free"

Increasing(s) == \A i, j \in DOMAIN s : i < j => s[i] < s[j]

\* The books: both logs go up, so an order of one is an order of the other.
BooksOK ==
    /\ next \in Nat \ {0}
    /\ Ids(logged) \cup ServedId \cup lost.ids = 1..(next - 1)
    /\ Increasing(logged) /\ Increasing(queued)
    /\ Ids(queued) \subseteq Ids(logged)
    /\ \A id \in Ids(logged) \ Ids(queued) : id \in ServedId \cup lost.ids \cup lost.dropped
    /\ lost.dropped \subseteq Ids(logged) \ Ids(queued)

BookInv == PhaseOK /\ BooksOK

LEMMA IdsAppend ==
    ASSUME NEW s \in Seq(Nat), NEW n \in Nat
    PROVE  Ids(Append(s, n)) = Ids(s) \cup {n}
<1>1. Len(s) \in Nat /\ DOMAIN s = 1..Len(s) /\ DOMAIN Append(s, n) = 1..(Len(s) + 1)
  OBVIOUS
<1>2. \A i \in DOMAIN s : Append(s, n)[i] = s[i]
  OBVIOUS
<1>3. Append(s, n)[Len(s) + 1] = n
  OBVIOUS
<1>4. \A i \in DOMAIN Append(s, n) : i \in DOMAIN s \/ i = Len(s) + 1
  BY <1>1
<1>5. DOMAIN s \subseteq DOMAIN Append(s, n) /\ Len(s) + 1 \in DOMAIN Append(s, n)
  BY <1>1
<1> QED
  BY <1>2, <1>3, <1>4, <1>5 DEF Ids

LEMMA IncreasingAppend ==
    ASSUME NEW s \in Seq(Nat), NEW n \in Nat, Increasing(s), \A m \in Ids(s) : m < n
    PROVE  Increasing(Append(s, n))
<1> SUFFICES ASSUME NEW i \in DOMAIN Append(s, n), NEW j \in DOMAIN Append(s, n), i < j
             PROVE  Append(s, n)[i] < Append(s, n)[j]
  BY DEF Increasing
<1>1. Len(s) \in Nat /\ DOMAIN s = 1..Len(s) /\ i \in 1..(Len(s) + 1) /\ j \in 1..(Len(s) + 1)
  OBVIOUS
<1>2. i \in DOMAIN s /\ Append(s, n)[i] = s[i]
  BY <1>1
<1>3. CASE j = Len(s) + 1
  <2>1. Append(s, n)[j] = n /\ s[i] \in Ids(s)
    BY <1>2, <1>3 DEF Ids
  <2> QED
    BY <1>2, <2>1
<1>4. CASE j # Len(s) + 1
  <2>1. j \in DOMAIN s /\ Append(s, n)[j] = s[j]
    BY <1>1, <1>4
  <2> QED
    BY <1>2, <2>1 DEF Increasing
<1> QED
  BY <1>3, <1>4

LEMMA BookInit == Init => BookInv
<1> SUFFICES ASSUME Init PROVE BookInv
  OBVIOUS
<1>1. logged = <<>> /\ queued = <<>> /\ Ids(<<>>) = {} /\ next = 1 /\ lost.ids = {}
  BY DEF Init, Ids
<1>2. pc \notin Serving /\ ses = NoSes /\ lost.dropped = {}
  BY DEF Init, Serving
<1>3. Increasing(<<>>)
  BY DEF Increasing
<1> QED
  BY <1>1, <1>2, <1>3 DEF BookInv, PhaseOK, BooksOK, ServedId, Serving

\* Most steps leave the books alone, and the session in its place: it is served
\* or not as before, with its id, and no nearer to its last phases than before
\* unless its recording is closed.
LEMMA BookQuiet ==
    ASSUME TypeOK, BookInv, UNCHANGED book,
           pc' \in Serving <=> pc \in Serving,
           pc' \in {"enqueue", "free"} <=> pc \in {"enqueue", "free"},
           pc' = "free" <=> pc = "free",
           pc' \in Serving => ses'.id = ses.id,
           pc' \notin Serving => ses' = ses,
           pc' \in {"append", "enqueue", "free"} => ses'.rec \in {"none", "closed"}
    PROVE  BookInv'
  BY DEF BookInv, PhaseOK, BooksOK, ServedId, book, Ids, Increasing

LEMMA BookStep == TypeOK /\ BookInv /\ [Next]_vars => BookInv'
<1> SUFFICES ASSUME TypeOK, BookInv, [Next]_vars PROVE BookInv'
  OBVIOUS
<1>0. ses \in Session /\ ses.id \in Nat /\ next \in Nat /\ logged \in Seq(Nat) /\ queued \in Seq(Nat)
  BY SessionFields DEF TypeOK
<1> USE DEF env, key
<1>1. ASSUME UNCHANGED book, UNCHANGED ses, UNCHANGED pc PROVE BookInv'
  <2>1. pc \in {"append", "enqueue", "free"} => ses.rec \in {"none", "closed"}
    BY DEF BookInv, PhaseOK
  <2> QED
    BY <1>1, <2>1, BookQuiet
<1>2. CASE UNCHANGED vars
  BY <1>2, <1>1 DEF vars, book
<1>3. CASE KeyTask
  <2>1. CASE FindKey \/ GenerateKey
    BY <2>1, <1>1 DEF FindKey, GenerateKey
  <2>2. CASE ExportKey
    <3>1. lost'.ids = lost.ids /\ lost'.dropped = lost.dropped
      BY <2>2 DEF ExportKey, TypeOK
    <3> QED
      BY <2>2, <3>1 DEF ExportKey, BookInv, PhaseOK, BooksOK, ServedId, Ids, Increasing
  <2> QED
    BY <1>3, <2>1, <2>2 DEF KeyTask
<1>4. CASE Environment
  BY <1>4, <1>1 DEF Environment
<1>8. CASE IntelQueue
  <2>1. UNCHANGED <<pc, ses, logged, queued, next, lost>>
    BY <1>8 DEF IntelQueue
  <2> QED
    BY <2>1 DEF BookInv, PhaseOK, BooksOK, ServedId, Ids, Increasing
<1>5. CASE Reboot
  <2>1. lost'.ids = lost.ids \cup ServedId /\ lost'.dropped = lost.dropped
    BY <1>5 DEF Reboot, ServedId
  <2>2. UNCHANGED <<logged, queued, next>> /\ pc' \notin Serving /\ ses' = NoSes /\ ServedId' = {}
    BY <1>5 DEF Reboot, Serving, ServedId
  <2> QED
    BY <2>1, <2>2 DEF BookInv, PhaseOK, BooksOK, Ids, Increasing, Serving
<1>6. CASE Listener
  <2>1. CASE WaitWifi \/ WaitKey \/ WaitEnabled \/ Bind \/ Gates \/ Refuse
    BY <2>1, BookQuiet DEF WaitWifi, WaitKey, WaitEnabled, Bind, Gates, Refuse, Serving
  <2>2. CASE Kex \/ AuthSilent \/ GiveUp
    BY <2>2, BookQuiet DEF Kex, AuthSilent, GiveUp, Serving
  <2>3. CASE AuthDone
    BY <2>3, <1>0, BookQuiet DEF AuthDone, Serving, Session
  <2>4. CASE Silent
    BY <2>4, <1>0, BookQuiet DEF Silent, Serving, Session
  <2>5. CASE RunExec
    BY <2>5, <1>0, BookQuiet DEF RunExec, Serving, Session
  <2>6. CASE CloseCast
    <3>1. ses'.id = ses.id /\ ses'.rec \in {"none", "closed"}
      BY <2>6, <1>0 DEF CloseCast, Session
    <3> QED
      BY <2>6, <3>1, BookQuiet DEF CloseCast, Serving
  <2>7. CASE AppendEntry
    <3>1. /\ pc = "append" /\ pc' = "enqueue" /\ logged' = Append(logged, ses.id)
          /\ UNCHANGED <<ses, queued, next, lost>>
      BY <2>7 DEF AppendEntry
    <3>2. Ids(logged') = Ids(logged) \cup {ses.id}
      BY <3>1, <1>0, IdsAppend
    <3>3. ServedId = {ses.id} /\ ServedId' = {ses.id} /\ ses.id = next - 1 /\ ses.id \notin Ids(logged)
      BY <3>1 DEF ServedId, Serving, BookInv, PhaseOK
    <3>4. \A m \in Ids(logged) : m < ses.id
      BY <3>3, <1>0 DEF BookInv, BooksOK
    <3>5. Increasing(logged')
      BY <3>1, <3>4, <1>0, IncreasingAppend DEF BookInv, BooksOK
    <3>6. Ids(queued)' = Ids(queued) /\ Increasing(queued)'
      BY <3>1 DEF BookInv, BooksOK, Ids, Increasing
    <3>7. PhaseOK'
      BY <3>1, <3>2, <3>3, <3>6 DEF BookInv, PhaseOK, Serving
    <3>8. BooksOK'
      BY <3>1, <3>2, <3>3, <3>5, <3>6 DEF BookInv, BooksOK
    <3> QED
      BY <3>7, <3>8 DEF BookInv
  <2>8. CASE Enqueue
    <3>1. pc = "enqueue" /\ pc' = "free" /\ UNCHANGED <<ses, logged, next>>
      BY <2>8 DEF Enqueue
    <3>2. /\ ServedId = {ses.id} /\ ServedId' = {ses.id} /\ ses.id = next - 1
          /\ ses.id \in Ids(logged) /\ ses.id \notin Ids(queued) /\ ses.id \notin lost.dropped
      BY <3>1 DEF ServedId, Serving, BookInv, PhaseOK
    <3>3. Ids(logged)' = Ids(logged) /\ Increasing(logged)'
      BY <3>1 DEF BookInv, BooksOK, Ids, Increasing
    <3>4. /\ lost'.ids = lost.ids /\ Increasing(queued')
          /\ \/ Ids(queued') = Ids(queued) \cup {ses.id} /\ lost'.dropped = lost.dropped
             \/ Ids(queued') = Ids(queued) /\ lost'.dropped = lost.dropped \cup {ses.id}
      <4>1. CASE queued' = Append(queued, ses.id) /\ UNCHANGED lost
        <5>1. Ids(queued') = Ids(queued) \cup {ses.id}
          BY <4>1, <1>0, IdsAppend
        <5>2. \A m \in Ids(queued) : m < ses.id
          BY <3>2, <1>0 DEF BookInv, BooksOK
        <5>3. Increasing(queued')
          BY <4>1, <5>2, <1>0, IncreasingAppend DEF BookInv, BooksOK
        <5> QED
          BY <4>1, <5>1, <5>3
      <4>2. CASE lost' = [lost EXCEPT !.dropped = lost.dropped \cup {ses.id}] /\ UNCHANGED queued
        <5>1. lost'.ids = lost.ids /\ lost'.dropped = lost.dropped \cup {ses.id}
          BY <4>2 DEF TypeOK
        <5>2. Ids(queued') = Ids(queued) /\ Increasing(queued')
          BY <4>2 DEF BookInv, BooksOK
        <5> QED
          BY <5>1, <5>2
      <4> QED
        BY <2>8, <4>1, <4>2 DEF Enqueue
    <3>5. Ids(queued)' = Ids(queued') /\ Increasing(queued)' /\ Ids(logged') = Ids(logged)
      BY <3>3, <3>4 DEF Ids, Increasing
    <3>6. PhaseOK'
      BY <3>1, <3>2, <3>3, <3>4, <3>5 DEF BookInv, PhaseOK, Serving
    <3>7. BooksOK'
      BY <3>1, <3>2, <3>3, <3>4, <3>5 DEF BookInv, BooksOK
    <3> QED
      BY <3>6, <3>7 DEF BookInv
  <2>9. CASE FreeSession
    <3>1. /\ pc = "free" /\ pc' \notin Serving /\ ses' = NoSes /\ ServedId' = {} /\ pc' = "gates"
          /\ UNCHANGED <<logged, queued, next, lost>>
      BY <2>9 DEF FreeSession, Serving, ServedId, book
    <3>2. ServedId = {ses.id} /\ ses.id \in Ids(logged) /\ ses.id \in Ids(queued) \cup lost.dropped
      BY <3>1 DEF ServedId, Serving, BookInv, PhaseOK
    <3>3. PhaseOK'
      BY <3>1 DEF PhaseOK, Serving
    <3>4. BooksOK'
      BY <3>1, <3>2 DEF BookInv, BooksOK, Ids, Increasing
    <3> QED
      BY <3>3, <3>4 DEF BookInv
  <2> QED
    BY <1>6, <2>1, <2>2, <2>3, <2>4, <2>5, <2>6, <2>7, <2>8, <2>9 DEF Listener
<1>7. CASE Peer
  <2>0. \A phase : Hears(phase) => UNCHANGED book /\ pc = phase
    BY DEF Hears
  <2>1. CASE Admit
    <3>1. /\ pc = "accept" /\ pc' = "kex" /\ next' = next + 1 /\ ses'.id = next
          /\ UNCHANGED <<logged, queued, lost>>
      BY <2>1 DEF Admit, NoSes
    <3>2. ServedId = {} /\ ServedId' = {next} /\ next \in Nat \ {0}
      BY <3>1 DEF ServedId, Serving, BookInv, BooksOK
    <3>3. Ids(logged)' = Ids(logged) /\ Ids(queued)' = Ids(queued)
      BY <3>1 DEF Ids
    <3>4. next \notin Ids(logged) /\ next \notin Ids(queued) /\ next \notin lost.dropped
      BY <3>2 DEF BookInv, BooksOK
    <3>5. 1..(next' - 1) = 1..(next - 1) \cup {next}
      BY <3>1, <3>2
    <3>6. Increasing(logged)' /\ Increasing(queued)'
      BY <3>1 DEF BookInv, BooksOK, Increasing
    <3>7. PhaseOK'
      BY <3>1, <3>2, <3>3, <3>4 DEF PhaseOK, Serving
    <3>8. BooksOK'
      BY <3>1, <3>2, <3>3, <3>5, <3>6 DEF BookInv, BooksOK
    <3> QED
      BY <3>7, <3>8 DEF BookInv
  <2>2. CASE AuthPassword
    BY <2>2, <2>0, <1>0, BookQuiet DEF AuthPassword, Serving, Session
  <2>3. CASE AuthPubkey
    BY <2>3, <2>0, <1>0, BookQuiet DEF AuthPubkey, Serving, Session
  <2>4. CASE Denied
    BY <2>4, <2>0, <1>0, BookQuiet DEF Denied, Serving, Session
  <2>5. CASE OpenChannel
    BY <2>5, <2>0, <1>0, BookQuiet DEF OpenChannel, Serving, Session
  <2>6. CASE StartShell
    BY <2>6, <2>0, <1>0, BookQuiet DEF StartShell, Serving, Session
  <2>7. CASE ShellInput
    BY <2>7, <2>0, <1>0, BookQuiet DEF ShellInput, Serving, Session
  <2>8. CASE Hangup
    <3>1. ses'.id = ses.id /\ ses'.rec = ses.rec /\ UNCHANGED <<pc, book>>
      BY <2>8, <1>0 DEF Hangup, Session
    <3> QED
      BY <2>8, <3>1, BookQuiet DEF Hangup, BookInv, PhaseOK
  <2> QED
    BY <1>7, <2>1, <2>2, <2>3, <2>4, <2>5, <2>6, <2>7, <2>8 DEF Peer
<1> QED
  BY <1>2, <1>3, <1>4, <1>5, <1>6, <1>7, <1>8 DEF Next

\* A sequence that goes up names as many ids as it is long.
LEMMA IncreasingCardinality ==
    ASSUME NEW s \in Seq(Nat), Increasing(s)
    PROVE  Len(s) = Cardinality(Ids(s))
<1>1. Len(s) \in Nat /\ DOMAIN s = 1..Len(s) /\ s = [i \in 1..Len(s) |-> s[i]]
  OBVIOUS
<1>2. s \in [1..Len(s) -> Ids(s)]
  BY <1>1 DEF Ids
<1>3. \A i, j \in 1..Len(s) : s[i] = s[j] => i = j
  <2> SUFFICES ASSUME NEW i \in 1..Len(s), NEW j \in 1..Len(s), i # j PROVE s[i] # s[j]
    OBVIOUS
  <2>1. s[i] \in Nat /\ s[j] \in Nat /\ (i < j \/ j < i)
    BY <1>1
  <2> QED
    BY <1>1, <2>1 DEF Increasing
<1>4. \A id \in Ids(s) : \E i \in 1..Len(s) : s[i] = id
  BY <1>1 DEF Ids
<1>5. s \in Bijection(1..Len(s), Ids(s))
  BY <1>2, <1>3, <1>4 DEF Bijection, Injection, Surjection, IsInjective
<1> QED
  BY <1>1, <1>5, FS_CountingElements DEF ExistsBijection

\* Every client that got an id is in the attack log once, however its session
\* ended, unless it is still served or a power cut took it.
THEOREM ClientsAreLogged == Spec => []EveryClientLogged
<1>1. TypeOK /\ BookInv => EveryClientLogged
  BY IncreasingCardinality DEF TypeOK, BookInv, BooksOK, EveryClientLogged
<1> QED
  BY <1>1, TypeInit, TypeStep, BookInit, BookStep, PTL DEF Spec

\* What is handed to the intel task is in the log, in the log's order, with its
\* recording closed; of the entries in the log it misses only those that met a
\* full queue or a power cut.
THEOREM EntriesAreHandedOver == Spec => []HandOver
<1>1. TypeOK /\ BookInv => HandOver
  <2> SUFFICES ASSUME TypeOK, BookInv PROVE HandOver
    OBVIOUS
  <2>1. QueuedInOrder
    <3>1. ASSUME NEW i \in DOMAIN queued, NEW j \in DOMAIN queued, i < j
          PROVE  InLogOrder(queued[i], queued[j])
      <4>1. queued[i] < queued[j] /\ queued[i] \in Ids(logged) /\ queued[j] \in Ids(logged)
        BY <3>1 DEF BookInv, BooksOK, Increasing, Ids
      <4>2. PICK k \in DOMAIN logged : logged[k] = queued[i]
        BY <4>1 DEF Ids
      <4>3. PICK l \in DOMAIN logged : logged[l] = queued[j]
        BY <4>1 DEF Ids
      <4>4. logged \in Seq(Nat)
        BY DEF TypeOK
      <4>5. k \in Nat /\ l \in Nat /\ logged[k] \in Nat /\ logged[l] \in Nat
        BY <4>4
      <4>6. l < k => logged[l] < logged[k]
        BY DEF BookInv, BooksOK, Increasing
      <4>7. logged[k] < logged[l]
        BY <4>1, <4>2, <4>3
      <4>8. l # k
        BY <4>5, <4>7
      <4>9. ~(l < k)
        BY <4>5, <4>6, <4>7
      <4>10. k < l
        BY <4>5, <4>8, <4>9
      <4> QED
        BY <4>2, <4>3, <4>10 DEF InLogOrder
    <3> QED
      BY <3>1 DEF QueuedInOrder, BookInv, BooksOK
  <2>2. ClosedBeforeLogged
    <3>1. CASE pc \in Serving
      BY <3>1 DEF ClosedBeforeLogged, BookInv, PhaseOK
    <3>2. CASE pc \notin Serving
      BY <3>2 DEF ClosedBeforeLogged, BookInv, PhaseOK, NoSes
    <3> QED
      BY <3>1, <3>2
  <2> QED
    BY <2>1, <2>2 DEF HandOver
<1> QED
  BY <1>1, TypeInit, TypeStep, BookInit, BookStep, PTL DEF Spec

(***************************************************************************)
(* The key that is announced is whole.                                     *)
(***************************************************************************)
\* While the key task runs nothing is announced, and a torn file is one it is
\* writing, or one that an earlier failure left.
KeyInv == /\ KeyWhole
          /\ keygen # "none" => ~ready
          /\ keyfile = "torn" => keygen = "export" \/ lost.torn

LEMMA KeyInit == Init => KeyInv
  BY DEF Init, KeyInv, KeyWhole

LEMMA KeyStep == TypeOK /\ KeyInv /\ [Next]_vars => KeyInv'
<1> SUFFICES ASSUME TypeOK, KeyInv, [Next]_vars PROVE KeyInv'
  OBVIOUS
<1> USE DEF KeyInv, KeyWhole, env, key, book
<1>0. lost \in [ids : SUBSET Nat, dropped : SUBSET Nat, torn : BOOLEAN] /\ keyfile \in {"absent", "torn", "good"}
  BY DEF TypeOK
<1>1. ASSUME UNCHANGED <<keyfile, ready, keygen, lost>> PROVE KeyInv'
  BY <1>1
<1>2. CASE UNCHANGED vars
  BY <1>2, <1>1 DEF vars
<1>3. CASE FindKey
  BY <1>0, <1>3 DEF FindKey
<1>4. CASE GenerateKey
  BY <1>4 DEF GenerateKey
<1>5. CASE ExportKey
  BY <1>0, <1>5 DEF ExportKey
<1>6. CASE Environment
  BY <1>6, <1>1 DEF Environment
<1>7. CASE Reboot
  <2>1. lost'.torn = (lost.torn \/ keygen = "export")
    BY <1>7 DEF Reboot
  <2> QED
    BY <1>7, <2>1 DEF Reboot
<1>8. CASE Listener
  <2>1. CASE WaitWifi
    BY <2>1 DEF WaitWifi
  <2>2. CASE Enqueue
    <3>1. lost'.torn = lost.torn /\ UNCHANGED <<keyfile, ready, keygen>>
      BY <2>2, <1>0 DEF Enqueue
    <3> QED
      BY <3>1
  <2>3. CASE ~WaitWifi /\ ~Enqueue
    BY <1>8, <2>3, <1>1
       DEF Listener, WaitKey, WaitEnabled, Bind, Gates, Refuse, Kex, AuthSilent, AuthDone, Silent,
           GiveUp, RunExec, CloseCast, AppendEntry, FreeSession
  <2> QED
    BY <2>1, <2>2, <2>3
<1>9. CASE Peer
  BY <1>9, <1>1
     DEF Peer, Admit, Hears, AuthPassword, AuthPubkey, Denied, OpenChannel, StartShell, ShellInput,
         Hangup
<1>10. CASE IntelQueue
  BY <1>10, <1>1 DEF IntelQueue
<1> QED
  BY <1>2, <1>3, <1>4, <1>5, <1>6, <1>7, <1>8, <1>9, <1>10 DEF Next, KeyTask

\* The key is announced when it is whole, but for a file that a failed export or
\* a power cut left behind.
THEOREM AnnouncedKeysAreWhole == Spec => []KeyWhole
<1>1. KeyInv => KeyWhole
  BY DEF KeyInv
<1> QED
  BY <1>1, TypeInit, TypeStep, KeyInit, KeyStep, PTL DEF Spec

(***************************************************************************)
(* The gate.                                                               *)
(***************************************************************************)

(* Unsigned arithmetic before a wrap is plain arithmetic.                  *)
LEMMA ModSmall == ASSUME NEW n \in Nat, NEW w \in Nat, n < w PROVE n % w = n
  OBVIOUS

(* A time modulo Wrap is below Wrap.                                       *)
LEMMA ModRange ==
    ASSUME NEW n \in Int, NEW w \in Nat \ {0} PROVE n % w \in 0 .. (w - 1)
  OBVIOUS

(* Every nonempty set of naturals has a least element.                     *)
LEMMA Least ==
    ASSUME NEW S \in SUBSET Nat, S # {}
    PROVE  \E x \in S : \A y \in S : x <= y
<1> DEFINE R == OpToRel(<, Nat)
<1>1. IsWellFoundedOn(R, Nat)
  BY NatLessThanWellFounded
<1>2. PICK x \in S : \A y \in S : ~ (<<y, x>> \in R)
  <2> HIDE DEF R
  <2> QED BY <1>1, WFMin
<1>3. \A y \in S : ~ (y < x)
  BY <1>2 DEF OpToRel
<1> QED BY <1>3

(* The scan of touch() ends at a slot whose stamp is the smallest.         *)
LEMMA OldestIsOldest ==
    ASSUME GateTypeOK
    PROVE  Oldest \in Slot /\ \A j \in Slot : lastMs[Oldest] <= lastMs[j]
<1> DEFINE Stamps == {lastMs[i] : i \in Slot}
<1>1. Stamps \in SUBSET Nat /\ Stamps # {}
  <2>1. 1 \in Slot
    BY GateAssumption DEF Slot
  <2>2. lastMs[1] \in Stamps
    BY <2>1
  <2>3. \A i \in Slot : lastMs[i] \in Nat
    BY DEF GateTypeOK
  <2> QED BY <2>2, <2>3
<1>2. PICK m \in Stamps : \A y \in Stamps : m <= y
  <2> HIDE DEF Stamps
  <2> QED BY <1>1, Least
<1> DEFINE At == {i \in Slot : lastMs[i] = m}
<1>3. At \in SUBSET Nat /\ At # {}
  BY <1>2 DEF Slot
<1>4. PICK k \in At : \A i \in At : k <= i
  <2> HIDE DEF At
  <2> QED BY <1>3, Least
<1> DEFINE P(i) == \A j \in Slot : lastMs[i] < lastMs[j]
                                   \/ (lastMs[i] = lastMs[j] /\ i <= j)
<1>5. k \in Slot /\ \A j \in Slot : lastMs[k] <= lastMs[j]
  BY <1>2, <1>4
<1>6. P(k)
  <2> SUFFICES ASSUME NEW j \in Slot
               PROVE lastMs[k] < lastMs[j] \/ (lastMs[k] = lastMs[j] /\ k <= j)
    OBVIOUS
  <2>1. lastMs[k] \in Nat /\ lastMs[j] \in Nat
    BY <1>5 DEF GateTypeOK
  <2>2. CASE lastMs[k] = lastMs[j]
    BY <2>2, <1>4
  <2>3. CASE lastMs[k] # lastMs[j]
    BY <2>1, <2>3, <1>5
  <2> QED BY <2>2, <2>3
<1>7. Oldest = CHOOSE i \in Slot : P(i)
  BY DEF Oldest
<1>8. Oldest \in Slot /\ P(Oldest)
  <2> HIDE DEF P
  <2> QED BY <1>5, <1>6, <1>7
<1>9. lastMs \in [Slot -> Nat]
  BY DEF GateTypeOK
<1> QED BY <1>8, <1>9

(* touch() stamps the slot of the address when it has one, and a slot with *)
(* the smallest stamp when it has none.                                    *)
LEMMA SlotForChosen ==
    ASSUME GateTypeOK, NEW a \in Ips
    PROVE  /\ SlotFor(a) \in Slot
           /\ \A i \in Slot : ip[i] = a => SlotFor(a) = i
           /\ (\A i \in Slot : ip[i] # a) =>
                  \A j \in Slot : lastMs[SlotFor(a)] <= lastMs[j]
<1>1. CASE \E i \in Slot : ip[i] = a
  <2>1. PICK k \in Slot : ip[k] = a
    BY <1>1
  <2>2. \A j \in Slot : ip[j] = a => j = k
    BY <2>1, GateAssumption DEF GateTypeOK, OneSlotPerIp
  <2>3. ip[k] = a /\ \A j \in Slot : ip[j] = a => k <= j
    BY <2>1, <2>2 DEF Slot
  <2>4. SlotFor(a) \in Slot /\ ip[SlotFor(a)] = a
    BY <1>1, <2>3 DEF SlotFor
  <2> QED BY <2>1, <2>2, <2>4
<1>2. CASE ~ \E i \in Slot : ip[i] = a
  <2>1. SlotFor(a) = Oldest
    BY <1>2 DEF SlotFor
  <2> QED BY <1>2, <2>1, OldestIsOldest
<1> QED BY <1>1, <1>2

-----------------------------------------------------------------------------
(* Type correctness of the gate, and one slot per address: touch() looks   *)
(* for a slot of the address before it takes the oldest.                   *)
THEOREM GateTypeCorrect == GateSpec => []GateTypeOK
<1>1. GateInit => GateTypeOK
  BY GateAssumption DEF GateInit, GateTypeOK, OneSlotPerIp, Slot
<1>2. GateTypeOK /\ [GateNext]_gatevars => GateTypeOK'
  <2> SUFFICES ASSUME GateTypeOK, [GateNext]_gatevars PROVE GateTypeOK'
    OBVIOUS
  <2>1. ASSUME NEW l \in Listeners, NEW a \in Ips, LetIn(l, a) PROVE GateTypeOK'
    BY <2>1 DEF LetIn, GateTypeOK, OneSlotPerIp
  <2>2. ASSUME NEW l \in Listeners, Touch(l) PROVE GateTypeOK'
    <3> DEFINE a == pending[l]
               k == SlotFor(a)
    <3>1. a \in Ips
      BY <2>2 DEF Touch, GateTypeOK
    <3>2. k \in Slot /\ \A i \in Slot : ip[i] = a => k = i
      BY <3>1, SlotForChosen
    <3>3. Millis \in Nat /\ Millis < Wrap
      BY GateAssumption, ModRange DEF Millis, GateTypeOK
    <3>4. /\ ip' = [ip EXCEPT ![k] = a]
          /\ lastMs' = [lastMs EXCEPT ![k] = Millis]
          /\ pending' = [pending EXCEPT ![l] = NoIp]
          /\ seen' = [seen EXCEPT ![a] = now]
          /\ burst' = [burst EXCEPT ![a] = IF CoolingDown(a) THEN @ + 1 ELSE 1]
          /\ now' = now
      BY <2>2 DEF Touch
    <3> HIDE DEF a, k
    <3>5. ip' \in [Slot -> Ips \cup {NoIp}] /\ OneSlotPerIp'
      <4>1. ip \in [Slot -> Ips \cup {NoIp}] /\ OneSlotPerIp
        BY DEF GateTypeOK
      <4>2. \A i \in Slot : ip'[i] = IF i = k THEN a ELSE ip[i]
        BY <3>4, <4>1
      <4>3. ip' \in [Slot -> Ips \cup {NoIp}]
        BY <3>1, <3>4, <4>1
      <4> QED BY <3>2, <4>1, <4>2, <4>3 DEF OneSlotPerIp
    <3>6. lastMs' \in [Slot -> Nat] /\ \A i \in Slot : lastMs'[i] < Wrap
      BY <3>2, <3>3, <3>4 DEF GateTypeOK
    <3>7. seen' \in [Ips -> Nat] /\ pending' \in [Listeners -> Ips \cup {NoIp}] /\ now' \in Nat
      BY <3>1, <3>4 DEF GateTypeOK
    <3>8. burst' \in [Ips -> Nat]
      <4>1. burst \in [Ips -> Nat]
        BY DEF GateTypeOK
      <4>2. CASE CoolingDown(a)
        BY <3>1, <3>4, <4>1, <4>2
      <4>3. CASE ~ CoolingDown(a)
        BY <3>1, <3>4, <4>1, <4>3
      <4> QED BY <4>2, <4>3
    <3> QED BY <3>5, <3>6, <3>7, <3>8 DEF GateTypeOK
  <2>3. ASSUME NEW l \in Listeners, TurnAway(l) PROVE GateTypeOK'
    BY <2>3 DEF TurnAway, GateTypeOK, OneSlotPerIp
  <2>4. CASE Tick
    BY <2>4 DEF Tick, GateTypeOK, OneSlotPerIp
  <2>5. CASE UNCHANGED gatevars
    BY <2>5 DEF gatevars, GateTypeOK, OneSlotPerIp
  <2> QED BY <2>1, <2>2, <2>3, <2>4, <2>5 DEF GateNext
<1> QED BY <1>1, <1>2, PTL DEF GateSpec
-----------------------------------------------------------------------------
(* What the ring holds before a wrap: no stamp is in the future; a used    *)
(* slot has the time of the last touch of its address and an unused one 0; *)
(* and an address that was seen is in the ring unless every slot has an    *)
(* address seen no earlier.                                                *)
InThePast == now \in 1 .. MaxTime \cup {1} /\ \A a \in Ips : seen[a] <= now

SlotsTell ==
    \A i \in Slot :
        /\ ip[i] = NoIp => lastMs[i] = 0
        /\ ip[i] # NoIp => lastMs[i] = seen[ip[i]] /\ seen[ip[i]] # 0

RingOrdered ==
    \A a \in Ips :
        \/ seen[a] = 0
        \/ \E i \in Slot : ip[i] = a
        \/ \A i \in Slot : ip[i] # NoIp /\ lastMs[i] >= seen[a]

RingInv == GateTypeOK /\ InThePast /\ SlotsTell /\ RingOrdered

(* Before a wrap millis() is the time since boot.                          *)
LEMMA MillisIsNow ==
    ASSUME MaxTime < Wrap, RingInv
    PROVE  Millis = now /\ \A ms \in 0 .. now : Since(ms) = now - ms
<1>1. now \in Nat /\ now < Wrap /\ Wrap \in Nat
  BY GateAssumption DEF RingInv, InThePast, GateTypeOK
<1>2. Millis = now
  BY <1>1, ModSmall DEF Millis
<1>3. ASSUME NEW ms \in 0 .. now PROVE Since(ms) = now - ms
  <2>1. now - ms \in Nat /\ now - ms < Wrap
    BY <1>1
  <2> QED BY <1>1, <1>2, <2>1, ModSmall DEF Since
<1> QED BY <1>2, <1>3

(* Before a wrap an address is kept out exactly when the ring holds it and *)
(* its last touch is less than Cooldown ago.                               *)
LEMMA CoolingDownMeans ==
    ASSUME MaxTime < Wrap, RingInv, NEW a \in Ips
    PROVE  CoolingDown(a) <=> /\ \E i \in Slot : ip[i] = a
                              /\ now - seen[a] < Cooldown
<1>1. \A ms \in 0 .. now : Since(ms) = now - ms
  BY MillisIsNow
<1>2. ASSUME NEW i \in Slot, ip[i] = a
      PROVE lastMs[i] = seen[a] /\ lastMs[i] # 0 /\ Since(lastMs[i]) = now - seen[a]
  <2>1. a # NoIp
    BY GateAssumption
  <2>2. lastMs[i] = seen[a] /\ lastMs[i] # 0
    BY <1>2, <2>1 DEF RingInv, SlotsTell
  <2>3. seen[a] \in 0 .. now
    BY DEF RingInv, InThePast, GateTypeOK
  <2> QED BY <1>1, <2>2, <2>3
<1> QED BY <1>2 DEF CoolingDown

(* A touch keeps the ring in order: it takes the slot of its address, or   *)
(* the one that has been away longest.                                     *)
LEMMA TouchKeepsRing ==
    ASSUME MaxTime < Wrap, RingInv, NEW l \in Listeners, Touch(l), GateTypeOK'
    PROVE  RingInv'
<1> DEFINE a == pending[l]
           k == SlotFor(a)
<1>1. a \in Ips
  BY DEF Touch, RingInv, GateTypeOK
<1>2. /\ k \in Slot
      /\ \A i \in Slot : ip[i] = a => k = i
      /\ (\A i \in Slot : ip[i] # a) => \A j \in Slot : lastMs[k] <= lastMs[j]
  BY <1>1, SlotForChosen DEF RingInv
<1>3. /\ ip' = [ip EXCEPT ![k] = a]
      /\ lastMs' = [lastMs EXCEPT ![k] = now]
      /\ seen' = [seen EXCEPT ![a] = now]
      /\ now' = now
  BY MillisIsNow DEF Touch
<1> HIDE DEF a, k
<1>4. /\ ip \in [Slot -> Ips \cup {NoIp}] /\ lastMs \in [Slot -> Nat]
      /\ seen \in [Ips -> Nat] /\ now \in Nat \ {0}
  BY DEF RingInv, GateTypeOK, InThePast
<1>5. /\ \A i \in Slot : ip'[i] = IF i = k THEN a ELSE ip[i]
      /\ \A i \in Slot : lastMs'[i] = IF i = k THEN now ELSE lastMs[i]
      /\ \A b \in Ips : seen'[b] = IF b = a THEN now ELSE seen[b]
  BY <1>3, <1>4
<1>6. a # NoIp
  BY <1>1, GateAssumption
<1>7. InThePast'
  BY <1>3, <1>4, <1>5 DEF RingInv, InThePast
<1>8. SlotsTell'
  <2> SUFFICES ASSUME NEW i \in Slot
               PROVE /\ ip'[i] = NoIp => lastMs'[i] = 0
                     /\ ip'[i] # NoIp => lastMs'[i] = seen'[ip'[i]] /\ seen'[ip'[i]] # 0
    BY DEF SlotsTell
  <2>1. CASE i = k
    BY <1>1, <1>4, <1>5, <1>6, <2>1
  <2>2. CASE i # k
    <3>1. ip'[i] = ip[i] /\ lastMs'[i] = lastMs[i] /\ ip[i] # a
      BY <1>2, <1>5, <2>2
    <3>2. ip[i] # NoIp => ip[i] \in Ips
      BY <1>4
    <3> QED BY <1>5, <3>1, <3>2 DEF RingInv, SlotsTell
  <2> QED BY <2>1, <2>2
<1>9. RingOrdered'
  <2> SUFFICES ASSUME NEW b \in Ips, seen'[b] # 0, ~ \E i \in Slot : ip'[i] = b
               PROVE \A i \in Slot : ip'[i] # NoIp /\ lastMs'[i] >= seen'[b]
    BY DEF RingOrdered
  <2>1. b # a
    BY <1>2, <1>5
  <2>2. seen'[b] = seen[b] /\ seen[b] \in Nat /\ seen[b] # 0 /\ seen[b] <= now
    BY <1>4, <1>5, <2>1 DEF RingInv, InThePast
  <2>3. \A i \in Slot \ {k} : ip[i] # b
    BY <1>5
  <2>4. CASE ip[k] = b
    <3>1. \A i \in Slot : ip[i] # a
      BY <1>2, <2>1, <2>4
    <3>2. lastMs[k] = seen[b] /\ \A j \in Slot : lastMs[k] <= lastMs[j]
      BY <1>2, <2>4, <3>1, GateAssumption DEF RingInv, SlotsTell
    <3>3. \A j \in Slot : lastMs[j] # 0 /\ lastMs[j] >= seen[b]
      BY <1>4, <2>2, <3>2
    <3>4. \A j \in Slot : ip[j] # NoIp
      BY <3>3 DEF RingInv, SlotsTell
    <3> QED BY <1>4, <1>5, <1>6, <2>2, <3>3, <3>4
  <2>5. CASE ip[k] # b
    <3>1. \A i \in Slot : ip[i] # NoIp /\ lastMs[i] >= seen[b]
      BY <2>2, <2>3, <2>5 DEF RingInv, RingOrdered
    <3> QED BY <1>4, <1>5, <1>6, <2>2, <3>1
  <2> QED BY <2>4, <2>5
<1> QED BY <1>7, <1>8, <1>9 DEF RingInv

(* The ring stays in order before a wrap.                                  *)
LEMMA RingInvariant == ASSUME MaxTime < Wrap PROVE GateSpec => []RingInv
<1>1. GateInit => RingInv
  <2> SUFFICES ASSUME GateInit PROVE InThePast /\ SlotsTell /\ RingOrdered /\ GateTypeOK
    BY DEF RingInv
  <2>1. GateTypeOK
    BY GateAssumption DEF GateInit, GateTypeOK, OneSlotPerIp, Slot
  <2>2. SlotsTell /\ RingOrdered
    BY DEF GateInit, SlotsTell, RingOrdered
  <2>3. InThePast
    BY DEF GateInit, InThePast
  <2> QED BY <2>1, <2>2, <2>3
<1>2. RingInv /\ GateTypeOK' /\ [GateNext]_gatevars => RingInv'
  <2> SUFFICES ASSUME RingInv, GateTypeOK', [GateNext]_gatevars PROVE RingInv'
    OBVIOUS
  <2>1. ASSUME NEW l \in Listeners, NEW a \in Ips, LetIn(l, a) PROVE RingInv'
    BY <2>1 DEF LetIn, RingInv, InThePast, SlotsTell, RingOrdered
  <2>2. ASSUME NEW l \in Listeners, Touch(l) PROVE RingInv'
    BY <2>2, TouchKeepsRing
  <2>3. ASSUME NEW l \in Listeners, TurnAway(l) PROVE RingInv'
    BY <2>3 DEF TurnAway, RingInv, InThePast, SlotsTell, RingOrdered
  <2>4. CASE Tick
    <3>1. SlotsTell' /\ RingOrdered'
      BY <2>4 DEF Tick, RingInv, SlotsTell, RingOrdered
    <3>2. now' \in 1 .. MaxTime \cup {1}
      BY <2>4, GateAssumption DEF Tick, RingInv, InThePast, GateTypeOK
    <3>3. \A a \in Ips : seen'[a] <= now'
      BY <2>4 DEF Tick, RingInv, InThePast, GateTypeOK
    <3> QED BY <3>1, <3>2, <3>3 DEF RingInv, InThePast
  <2>5. CASE UNCHANGED gatevars
    BY <2>5 DEF gatevars, RingInv, InThePast, SlotsTell, RingOrdered
  <2> QED BY <2>1, <2>2, <2>3, <2>4, <2>5 DEF GateNext
<1> QED BY <1>1, <1>2, GateTypeCorrect, PTL DEF GateSpec

(* A ring that has forgotten an address holds as many others, all seen     *)
(* since.                                                                  *)
LEMMA ForgottenForFull ==
    ASSUME RingInv, NEW a \in Ips, seen[a] # 0, \A i \in Slot : ip[i] # a
    PROVE  Cardinality(SeenSince(a)) >= Slots
<1>1. \A i \in Slot : ip[i] \in SeenSince(a)
  <2> SUFFICES ASSUME NEW i \in Slot PROVE ip[i] \in SeenSince(a)
    OBVIOUS
  <2>1. ip[i] # NoIp /\ lastMs[i] >= seen[a]
    BY DEF RingInv, RingOrdered
  <2>2. ip[i] \in Ips /\ lastMs[i] = seen[ip[i]]
    BY <2>1 DEF RingInv, GateTypeOK, SlotsTell
  <2> QED BY <2>1, <2>2 DEF SeenSince
<1> DEFINE f == [i \in Slot |-> ip[i]]
<1>2. f \in Injection(Slot, SeenSince(a))
  <2>1. f \in [Slot -> SeenSince(a)]
    BY <1>1
  <2>2. \A i, j \in Slot : f[i] = f[j] => i = j
    <3>1. \A i \in Slot : ip[i] # NoIp
      BY <1>1, GateAssumption DEF SeenSince
    <3> QED BY <3>1 DEF RingInv, GateTypeOK, OneSlotPerIp
  <2> QED BY <2>1, <2>2, Fun_IsInj
<1>3. IsFiniteSet(SeenSince(a))
  <2>1. SeenSince(a) \subseteq Ips
    BY DEF SeenSince
  <2> QED BY <2>1, FS_Subset, GateAssumption
<1>4. Cardinality(Slot) <= Cardinality(SeenSince(a))
  <2> HIDE DEF f
  <2> QED BY <1>2, <1>3, FS_Injection
<1>5. Cardinality(Slot) = Slots
  BY FS_Interval, GateAssumption DEF Slot
<1>6. Cardinality(SeenSince(a)) \in Nat
  BY <1>3, FS_CardinalityType
<1> QED BY <1>4, <1>5, <1>6, GateAssumption

(* Before a wrap admit() keeps an address out only within Cooldown of a    *)
(* session of its own.                                                     *)
THEOREM GateShutsOnlyInWindow ==
    ASSUME MaxTime < Wrap PROVE GateSpec => []ShutOnlyInWindow
<1>1. RingInv => ShutOnlyInWindow
  <2> SUFFICES ASSUME RingInv, NEW a \in Ips, CoolingDown(a)
               PROVE seen[a] # 0 /\ now - seen[a] < Cooldown
    BY DEF ShutOnlyInWindow
  <2>1. now - seen[a] < Cooldown /\ \E i \in Slot : ip[i] = a
    BY CoolingDownMeans
  <2> QED BY <2>1, GateAssumption DEF RingInv, SlotsTell
<1> QED BY <1>1, RingInvariant, PTL

(* Before a wrap admit() keeps an address out through its whole cooldown   *)
(* unless as many others as the ring has slots were seen since.            *)
THEOREM GateHoldsThroughWindow ==
    ASSUME MaxTime < Wrap PROVE GateSpec => []HoldsThroughWindow
<1>1. RingInv => HoldsThroughWindow
  <2> SUFFICES ASSUME RingInv, NEW a \in Ips, seen[a] # 0, now - seen[a] < Cooldown,
                      Cardinality(SeenSince(a)) < Slots
               PROVE CoolingDown(a)
    BY DEF HoldsThroughWindow
  <2>1. IsFiniteSet(SeenSince(a))
    <3>1. SeenSince(a) \subseteq Ips
      BY DEF SeenSince
    <3> QED BY <3>1, FS_Subset, GateAssumption
  <2>2. Cardinality(SeenSince(a)) \in Nat
    BY <2>1, FS_CardinalityType
  <2>3. \E i \in Slot : ip[i] = a
    BY <2>2, ForgottenForFull, GateAssumption
  <2> QED BY <2>3, CoolingDownMeans
<1> QED BY <1>1, RingInvariant, PTL

-----------------------------------------------------------------------------
(* The listeners that have let an address in and not touched it yet.       *)
Holding(a) == {l \in Listeners : pending[l] = a}

(* While an address is kept out, the sessions of its burst and those still *)
(* to begin are no more than the listeners: each was let in before the     *)
(* first of them began.                                                    *)
BurstInv ==
    \A a \in Ips :
        /\ burst[a] <= Cardinality(Listeners)
        /\ CoolingDown(a) =>
               burst[a] + Cardinality(Holding(a)) <= Cardinality(Listeners)

(* The listeners that hold an address are finitely many, at most all.      *)
LEMMA HoldingFinite ==
    ASSUME NEW a
    PROVE  /\ IsFiniteSet(Holding(a)) /\ Cardinality(Holding(a)) \in Nat
           /\ Cardinality(Listeners) \in Nat
           /\ Cardinality(Holding(a)) <= Cardinality(Listeners)
<1>1. Holding(a) \subseteq Listeners
  BY DEF Holding
<1>2. IsFiniteSet(Listeners)
  BY GateAssumption
<1>3. IsFiniteSet(Holding(a)) /\ Cardinality(Holding(a)) <= Cardinality(Listeners)
  BY <1>1, <1>2, FS_Subset
<1> QED BY <1>2, <1>3, FS_CardinalityType

(* CoolingDownMeans for every address, to be used of two successive states.*)
CoolingMeans ==
    \A a \in Ips : CoolingDown(a) <=> /\ \E i \in Slot : ip[i] = a
                                      /\ now - seen[a] < Cooldown

(* A touch adds a session to its burst and takes its listener from those   *)
(* that may still add one.                                                 *)
LEMMA TouchKeepsBurst ==
    ASSUME GateTypeOK, GateTypeOK', BurstInv, CoolingMeans, CoolingMeans',
           NEW l \in Listeners, Touch(l)
    PROVE  BurstInv'
<1>1. PICK a \in Ips : a = pending[l]
  BY DEF Touch, GateTypeOK
<1>2. PICK k \in Slot : k = SlotFor(a)
  BY SlotForChosen
<1>3. /\ ip' = [ip EXCEPT ![k] = a]
      /\ pending' = [pending EXCEPT ![l] = NoIp]
      /\ seen' = [seen EXCEPT ![a] = now]
      /\ burst' = [burst EXCEPT ![a] = IF CoolingDown(a) THEN @ + 1 ELSE 1]
      /\ now' = now
  BY <1>1, <1>2 DEF Touch
<1>4. pending[l] = a
  BY <1>1
<1>5. /\ ip \in [Slot -> Ips \cup {NoIp}] /\ pending \in [Listeners -> Ips \cup {NoIp}]
      /\ seen \in [Ips -> Nat] /\ burst \in [Ips -> Nat] /\ a # NoIp
  BY <1>1, GateAssumption DEF GateTypeOK
<1>6. Holding(a)' = Holding(a) \ {l} /\ l \in Holding(a)
  BY <1>1, <1>3, <1>4, <1>5 DEF Holding
<1>7. /\ Cardinality(Holding(a)') = Cardinality(Holding(a)) - 1
      /\ Cardinality(Holding(a)) \in Nat /\ Cardinality(Listeners) \in Nat
      /\ Cardinality(Holding(a)) <= Cardinality(Listeners)
  BY <1>6, HoldingFinite, FS_RemoveElement
<1>8. Cardinality(Holding(a)) > 0
  BY <1>6, HoldingFinite, FS_EmptySet
<1> SUFFICES ASSUME NEW b \in Ips
             PROVE  /\ burst'[b] <= Cardinality(Listeners)
                    /\ CoolingDown(b)' =>
                          burst'[b] + Cardinality(Holding(b)') <= Cardinality(Listeners)
  BY DEF BurstInv
<1>9. CASE b = a /\ CoolingDown(a)
  <2>1. burst'[a] = burst[a] + 1 /\ burst[a] \in Nat
    BY <1>1, <1>3, <1>5, <1>9
  <2>2. burst[a] + Cardinality(Holding(a)) <= Cardinality(Listeners)
    BY <1>1, <1>9 DEF BurstInv
  <2> QED BY <1>7, <1>8, <1>9, <2>1, <2>2
<1>10. CASE b = a /\ ~ CoolingDown(a)
  <2>1. burst'[a] = 1
    BY <1>1, <1>3, <1>5, <1>10
  <2> QED BY <1>7, <1>8, <1>10, <2>1
<1>11. CASE b # a
  <2>1. burst'[b] = burst[b] /\ seen'[b] = seen[b]
    BY <1>3, <1>5, <1>11
  <2>2. Holding(b)' = Holding(b)
    BY <1>3, <1>4, <1>5, <1>11, GateAssumption DEF Holding
  <2>3. ASSUME NEW i \in Slot, ip'[i] = b PROVE ip[i] = b
    BY <1>2, <1>3, <1>5, <1>11, <2>3
  <2>4. CoolingDown(b)' => CoolingDown(b)
    BY <1>3, <2>1, <2>3 DEF CoolingMeans
  <2> QED BY <2>1, <2>2, <2>4 DEF BurstInv
<1> QED BY <1>9, <1>10, <1>11

(* Before a wrap, the sessions of an address that begin in its cooldown    *)
(* without a pause are no more than the listeners that can let it in.      *)
THEOREM BurstsAreBounded == ASSUME MaxTime < Wrap PROVE GateSpec => []BurstBounded
<1>1. GateTypeOK /\ GateInit => BurstInv
  <2> SUFFICES ASSUME GateTypeOK, GateInit PROVE BurstInv
    OBVIOUS
  <2>1. \A a \in Ips : ~ CoolingDown(a)
    BY GateAssumption DEF GateInit, CoolingDown
  <2>2. \A a \in Ips : burst[a] = 0
    BY DEF GateInit
  <2>3. Cardinality(Listeners) \in Nat
    BY GateAssumption, FS_CardinalityType
  <2> QED BY <2>1, <2>2, <2>3 DEF BurstInv
<1>2. RingInv => CoolingMeans
  BY CoolingDownMeans DEF CoolingMeans
<1>3. GateTypeOK /\ GateTypeOK' /\ CoolingMeans /\ CoolingMeans' /\ BurstInv /\ [GateNext]_gatevars
      => BurstInv'
  <2> SUFFICES ASSUME GateTypeOK, GateTypeOK', CoolingMeans, CoolingMeans', BurstInv, [GateNext]_gatevars
               PROVE  BurstInv'
    OBVIOUS
  <2>1. ASSUME NEW l \in Listeners, NEW a \in Ips, LetIn(l, a) PROVE BurstInv'
    <3>1. \A b \in Ips : CoolingDown(b)' = CoolingDown(b)
      BY <2>1 DEF LetIn, CoolingDown, Since, Millis
    <3>2. pending \in [Listeners -> Ips \cup {NoIp}] /\ pending[l] = NoIp
      BY <2>1 DEF LetIn, GateTypeOK
    <3>3. \A b \in Ips : b # a => Holding(b)' = Holding(b)
      BY <2>1, <3>2, GateAssumption DEF LetIn, Holding
    <3>4. ~ CoolingDown(a) /\ burst' = burst
      BY <2>1 DEF LetIn
    <3> QED BY <3>1, <3>3, <3>4 DEF BurstInv
  <2>2. ASSUME NEW l \in Listeners, Touch(l) PROVE BurstInv'
    BY <2>2, TouchKeepsBurst
  <2>3. ASSUME NEW l \in Listeners, TurnAway(l) PROVE BurstInv'
    <3> SUFFICES ASSUME NEW b \in Ips
                 PROVE  /\ burst'[b] <= Cardinality(Listeners)
                        /\ CoolingDown(b)' =>
                              burst'[b] + Cardinality(Holding(b)') <= Cardinality(Listeners)
      BY DEF BurstInv
    <3>1. CoolingDown(b)' = CoolingDown(b) /\ burst' = burst
      BY <2>3 DEF TurnAway, CoolingDown, Since, Millis
    <3>2. Holding(b)' \subseteq Holding(b)
      BY <2>3, GateAssumption DEF TurnAway, Holding, GateTypeOK
    <3>3. /\ Cardinality(Holding(b)') \in Nat
          /\ Cardinality(Holding(b)') <= Cardinality(Holding(b))
      BY <3>2, HoldingFinite, FS_Subset, FS_CardinalityType
    <3>4. burst[b] \in Nat
      BY DEF GateTypeOK
    <3> QED BY <3>1, <3>3, <3>4, HoldingFinite DEF BurstInv
  <2>4. CASE Tick
    <3>1. \A b \in Ips : CoolingDown(b)' => CoolingDown(b)
      <4>1. ip' = ip /\ seen' = seen /\ now' = now + 1 /\ now \in Nat /\ seen \in [Ips -> Nat]
        BY <2>4 DEF Tick, GateTypeOK
      <4>2. \A b \in Ips : now' - seen'[b] < Cooldown => now - seen[b] < Cooldown
        BY <4>1, GateAssumption
      <4> QED BY <4>1, <4>2 DEF CoolingMeans
    <3>2. \A b \in Ips : Holding(b)' = Holding(b) /\ burst' = burst
      BY <2>4 DEF Tick, Holding
    <3> QED BY <3>1, <3>2 DEF BurstInv
  <2>5. CASE UNCHANGED gatevars
    BY <2>5 DEF gatevars, BurstInv, CoolingDown, Since, Millis, Holding
  <2> QED BY <2>1, <2>2, <2>3, <2>4, <2>5 DEF GateNext
<1>4. BurstInv => BurstBounded
  BY DEF BurstInv, BurstBounded
<1> QED BY <1>1, <1>2, <1>3, <1>4, RingInvariant, GateTypeCorrect, PTL DEF GateSpec
=============================================================================
