---------------------------- MODULE TelnetProofs ----------------------------
(***************************************************************************)
(* What holds of TelnetSession for any number of sessions, slots, queue    *)
(* places and disconnect callbacks; and of the outbound ring of one        *)
(* session, which is bounded and its stream intact, for every cap, chunk   *)
(* and length of behaviour.                                                *)
(***************************************************************************)
EXTENDS TelnetSession, TelnetOutBuf, FiniteSetTheorems, SequenceTheorems, TLAPS

(***************************************************************************)
(* Types.                                                                  *)
(***************************************************************************)

(* A task that is in the middle of something has a session, and what it    *)
(* is about to store in the gauge is a number of sessions.                 *)
BusyOK ==
    \A t \in Tasks :
        /\ pc[t] \notin {"idle", "reap", "load", "store"} => on[t] \in Sess
        /\ pc[t] \in {"gauge", "store"} => val[t] \in 0 .. TnMax

TypeInv == TypeOK /\ BusyOK

LEMMA TypeInit == Init => TypeInv
<1> SUFFICES ASSUME Init PROVE TypeInv
  OBVIOUS
<1>1. <<>> \in Seq(Job) /\ <<>> \in Seq(Nat) /\ Len(<<>>) = 0
  OBVIOUS
<1>2. TnMax \in Nat /\ QueueLen \in Nat /\ MaxDiscs \in Nat
  BY SessionAssumption
<1>3. ObjectsType
  BY DEF Init, ObjectsType
<1>4. BooksType
  BY <1>1, <1>2 DEF Init, BooksType
<1>5. TasksType
  BY DEF Init, TasksType
<1>6. AsyncTcpType
  BY <1>2 DEF Init, AsyncTcpType
<1>7. HistoryType
  BY <1>1 DEF Init, HistoryType
<1>8. BusyOK
  BY DEF Init, BusyOK
<1> QED
  BY <1>3, <1>4, <1>5, <1>6, <1>7, <1>8 DEF TypeInv, TypeOK

(* Adding a job to the queue, and taking the first one.                    *)
LEMMA JobAdded ==
    ASSUME queue \in Seq(Job), Room, NEW s \in Sess, NEW n \in Nat, QueueLen \in Nat,
           NEW k \in {"line", "final", "stuck", "close"}
    PROVE  LET q == Append(queue, [kind |-> k, sess |-> s, line |-> n])
           IN  q \in Seq(Job) /\ Len(q) <= QueueLen
<1>1. [kind |-> k, sess |-> s, line |-> n] \in Job
  BY DEF Job
<1> QED
  BY <1>1 DEF Room

LEMMA JobTaken ==
    ASSUME queue \in Seq(Job), queue # <<>>
    PROVE  /\ Head(queue) \in Job /\ Tail(queue) \in Seq(Job)
           /\ Len(Tail(queue)) = Len(queue) - 1
           /\ Head(queue).sess \in Sess /\ Head(queue).line \in Nat
           /\ Head(queue).kind \in {"line", "final", "stuck", "close"}
<1>1. Head(queue) \in Job
  OBVIOUS
<1> QED
  BY <1>1 DEF Job

(* A task goes on to w, with session o and value v.                        *)
Steps(t, w, o, v) ==
    /\ pc' = [pc EXCEPT ![t] = w] /\ on' = [on EXCEPT ![t] = o] /\ val' = [val EXCEPT ![t] = v]

LEMMA TaskSteps ==
    ASSUME TypeInv, NEW t \in Tasks, NEW o \in Sess \cup {NoSess}, NEW v \in Nat,
           NEW w \in {"idle", "gauge", "open", "exec", "mark", "send", "reap", "finalFree",
                     "finalPark", "free", "park", "dec", "load", "store"},
           w \notin {"idle", "reap", "load", "store"} => o \in Sess,
           w \in {"gauge", "store"} => v \in 0 .. TnMax,
           Steps(t, w, o, v), toFinalize' \in SUBSET Sess, toClose' \in SUBSET Sess
    PROVE  TasksType' /\ BusyOK'
<1> USE DEF TypeInv, TypeOK, TasksType, BusyOK, Steps
<1>1. TasksType'
  OBVIOUS
<1>2. ASSUME NEW u \in Tasks
      PROVE  /\ pc'[u] \notin {"idle", "reap", "load", "store"} => on'[u] \in Sess
             /\ pc'[u] \in {"gauge", "store"} => val'[u] \in 0 .. TnMax
  <2>1. CASE u = t
    BY <2>1
  <2>2. CASE u # t
    BY <2>2
  <2> QED
    BY <2>1, <2>2
<1> QED
  BY <1>1, <1>2

LEMMA TasksStay ==
    ASSUME TypeInv, UNCHANGED <<pc, on, val>>, toFinalize' \in SUBSET Sess, toClose' \in SUBSET Sess
    PROVE  TasksType' /\ BusyOK'
  BY DEF TypeInv, TypeOK, TasksType, BusyOK

LEMMA TypeCallbacks == TypeInv /\ Callbacks => TypeInv'
<1> SUFFICES ASSUME TypeInv, NEW s \in Sess,
                    TakeSlot(s) \/ OnBytes(s) \/ OnUser(s) \/ OnPassword(s)
                      \/ OnShellLine(s) \/ OnDisconnect(s)
             PROVE  TypeInv'
  BY DEF Callbacks
<1>0. TnMax \in Nat /\ QueueLen \in Nat /\ MaxDiscs \in Nat /\ "async" \in Tasks
  BY SessionAssumption DEF Tasks
<1> USE DEF TypeInv, TypeOK, ObjectsType, BooksType, TasksType, AsyncTcpType, HistoryType, BusyOK,
            objects, books, tasks, asynctcp, history, Goto, Receives
<1>1. CASE TakeSlot(s)
  <2>1. active + 1 \in 0 .. TnMax /\ active + 1 \in Nat
    BY <1>0, <1>1 DEF TakeSlot
  <2>2. Steps("async", "gauge", s, active + 1) /\ active' = active + 1
        /\ UNCHANGED <<objects, registry, gauge, queue, zombies, aged, hasty, toFinalize,
                       toClose, asynctcp, history>>
    BY <1>1 DEF TakeSlot, Steps
  <2>3. TasksType' /\ BusyOK'
    BY <1>0, <2>1, <2>2, TaskSteps
  <2> QED
    BY <2>1, <2>2, <2>3
<1>2. CASE OnBytes(s)
  BY <1>0, <1>2 DEF OnBytes
<1>3. CASE OnUser(s)
  BY <1>0, <1>3 DEF OnUser
<1>4. CASE OnPassword(s)
  <2>1. attempts' \in [Sess -> Nat] /\ phase' \in [Sess -> {"user", "pass", "shell", "dead"}]
    <3>1. attempts[s] + 1 \in Nat
      OBVIOUS
    <3>2. (IF attempts[s] + 1 >= AcceptAfter THEN "shell" ELSE "user") \in {"user", "pass", "shell", "dead"}
      OBVIOUS
    <3> QED
      BY <1>4, <3>1, <3>2 DEF OnPassword
  <2>2. ObjectsType' /\ UNCHANGED <<books, tasks, asynctcp, history>>
    BY <1>4, <2>1 DEF OnPassword
  <2> QED
    BY <2>2
<1>5. CASE OnShellLine(s)
  <2>1. typed[s] + 1 \in Nat
    OBVIOUS
  <2>2. queue' \in Seq(Job) /\ Len(queue') <= QueueLen
    BY <1>0, <1>5, <2>1, JobAdded DEF OnShellLine
  <2> QED
    <3>1. UNCHANGED <<mem, phase, attempts, finalized, registry, active, gauge, zombies, aged, hasty,
                      toFinalize, toClose, asynctcp, ran, logged, counted, contended>>
      BY <1>5 DEF OnShellLine
    <3>2. typed' \in [Sess -> Nat]
      BY <1>5, <2>1 DEF OnShellLine
    <3>3. quiet' \in SUBSET Sess /\ inlined' \in SUBSET Sess
      BY <1>5 DEF OnShellLine
    <3>4. TasksType' /\ BusyOK'
      <4>1. toFinalize' \in SUBSET Sess /\ toClose' \in SUBSET Sess
        BY <3>1
      <4>2. CASE UNCHANGED <<pc, on, val>>
        BY <4>1, <4>2, TasksStay
      <4>3. CASE Steps("async", "exec", s, typed[s] + 1)
        BY <1>0, <2>1, <4>1, <4>3, TaskSteps
      <4> QED
        BY <1>5, <4>2, <4>3 DEF OnShellLine, Steps
    <3> QED
      BY <2>2, <3>1, <3>2, <3>3, <3>4
<1>6. CASE OnDisconnect(s)
  <2>1. UNCHANGED <<objects, books, val, toFinalize, toClose, history>>
    BY <1>6 DEF OnDisconnect
  <2>2. discs[s] + 1 \in 0 .. MaxDiscs
    BY <1>0, <1>6 DEF OnDisconnect
  <2>3. AsyncTcpType'
    BY <1>6, <2>2 DEF OnDisconnect
  <2>4. TasksType' /\ BusyOK'
    <3>1. toFinalize' \in SUBSET Sess /\ toClose' \in SUBSET Sess /\ val["async"] \in Nat
      BY <1>0, <2>1
    <3>2. CASE UNCHANGED <<pc, on, val>>
      BY <3>1, <3>2, TasksStay
    <3>3. CASE Steps("async", "mark", s, val["async"])
      BY <1>0, <3>1, <3>3, TaskSteps
    <3> QED
      BY <1>0, <1>6, <2>1, <3>2, <3>3 DEF OnDisconnect, Steps
  <2> QED
    BY <2>1, <2>3, <2>4
<1> QED
  BY <1>1, <1>2, <1>3, <1>4, <1>5, <1>6

LEMMA TypeExecute == ASSUME TypeInv, NEW t \in Tasks, NEW exit \in BOOLEAN, Execute(t, exit) PROVE TypeInv'
<1>1. on[t] \in Sess /\ ran[on[t]] \in Seq(Nat) /\ val[t] \in Nat
  BY DEF TypeInv, TypeOK, TasksType, HistoryType, BusyOK, Execute
<1>2. Append(ran[on[t]], val[t]) \in Seq(Nat)
  BY <1>1
<1> USE DEF TypeInv, TypeOK, ObjectsType, BooksType, TasksType, AsyncTcpType, HistoryType, BusyOK,
            objects, books, tasks, asynctcp, history, Goto, Hangup
<1>3. HistoryType'
  BY <1>1, <1>2 DEF Execute
<1>4. phase' \in [Sess -> {"user", "pass", "shell", "dead"}]
  BY <1>1 DEF Execute
<1>5. conn' \in [Sess -> {"none", "up", "down", "gone"}]
  <2>1. CASE Hangup(on[t])
    BY <2>1
  <2>2. CASE UNCHANGED conn
    BY <2>2
  <2> QED
    BY <2>1, <2>2 DEF Execute
<1>6. TasksType' /\ BusyOK'
  <2>1. Steps(t, "idle", NoSess, 0) /\ UNCHANGED <<toFinalize, toClose>>
    BY DEF Execute, Steps
  <2> QED
    BY <2>1, TaskSteps
<1>7. UNCHANGED <<mem, attempts, finalized, quiet, books, discs>>
  BY DEF Execute
<1> QED
  BY <1>3, <1>4, <1>5, <1>6, <1>7

LEMMA TypeRelease == ASSUME TypeInv, NEW t \in Tasks, Release(t) PROVE TypeInv'
<1>0. TnMax \in Nat
  BY SessionAssumption
<1> USE DEF TypeInv, TypeOK, ObjectsType, BooksType, TasksType, AsyncTcpType, HistoryType, BusyOK,
            objects, books, tasks, asynctcp, history, Goto
<1>1. CASE Forensics(t)
  <2>1. on[t] \in Sess
    BY <1>1 DEF Forensics
  <2>2. Len(ran[on[t]]) \in Nat /\ logged[on[t]] + 1 \in Nat
    BY <2>1
  <2>3. logged' \in [Sess -> Nat] /\ counted' \in [Sess -> Nat]
    BY <1>1, <2>2 DEF Forensics
  <2>4. TasksType' /\ BusyOK'
    BY <1>1, <2>1 DEF Forensics
  <2>5. UNCHANGED <<objects, books, asynctcp, typed, ran, contended, inlined>>
    BY <1>1 DEF Forensics
  <2> QED
    BY <2>3, <2>4, <2>5
<1>2. CASE Free(t)
  BY <1>2 DEF Free
<1>3. CASE Park(t)
  BY <1>3 DEF Park
<1>4. CASE Dec(t)
  BY <1>0, <1>4 DEF Dec
<1>5. CASE LoadActive(t)
  BY <1>0, <1>5 DEF LoadActive
<1>6. CASE StoreGauge(t)
  BY <1>6 DEF StoreGauge, Home
<1> QED
  BY <1>1, <1>2, <1>3, <1>4, <1>5, <1>6 DEF Release

LEMMA TypeAsync == TypeInv /\ Async => TypeInv'
<1> SUFFICES ASSUME TypeInv, Async PROVE TypeInv'
  OBVIOUS
<1>0. TnMax \in Nat /\ QueueLen \in Nat /\ "async" \in Tasks
  BY SessionAssumption DEF Tasks
<1> USE DEF TypeInv, TypeOK, ObjectsType, BooksType, TasksType, AsyncTcpType, HistoryType, BusyOK,
            objects, books, tasks, asynctcp, history, Goto
<1>1. CASE PublishSlot
  BY <1>0, <1>1 DEF PublishSlot
<1>2. CASE OpenSession
  BY <1>0, <1>2 DEF OpenSession
<1>3. CASE Mark
  BY <1>0, <1>3 DEF Mark
<1>4. CASE SendFinal
  <2>1. on["async"] \in Sess
    BY <1>0, <1>4 DEF SendFinal
  <2>2. queue' \in Seq(Job) /\ Len(queue') <= QueueLen
    <3>1. CASE Room
      <4>1. queue' = Append(queue, [kind |-> "final", sess |-> on["async"], line |-> 0])
        BY <1>4, <3>1 DEF SendFinal
      <4> QED
        BY <1>0, <2>1, <3>1, <4>1, JobAdded
    <3>2. CASE ~Room
      BY <1>4, <3>2 DEF SendFinal
    <3> QED
      BY <3>1, <3>2
  <2>3. TasksType' /\ BusyOK'
    <3>1. val["async"] \in Nat /\ toFinalize' \in SUBSET Sess /\ toClose' \in SUBSET Sess
      BY <1>0, <1>4 DEF SendFinal
    <3>2. CASE Steps("async", "idle", NoSess, val["async"])
      BY <1>0, <3>1, <3>2, TaskSteps
    <3>3. CASE Steps("async", "finalFree", on["async"], val["async"])
      BY <1>0, <2>1, <3>1, <3>3, TaskSteps
    <3> QED
      BY <1>0, <1>4, <3>2, <3>3 DEF SendFinal, Steps
  <2>4. inlined' \in SUBSET Sess
    BY <1>4, <2>1 DEF SendFinal
  <2>5. UNCHANGED <<objects, registry, active, gauge, zombies, aged, hasty, asynctcp, typed, ran,
                    logged, counted, contended>>
    BY <1>4 DEF SendFinal
  <2> QED
    BY <2>2, <2>3, <2>4, <2>5
<1> QED
  BY <1>0, <1>1, <1>2, <1>3, <1>4, TypeRelease, TypeExecute DEF Async

LEMMA TypeWorker == TypeInv /\ Worker => TypeInv'
<1> SUFFICES ASSUME TypeInv, Worker PROVE TypeInv'
  OBVIOUS
<1>0. QueueLen \in Nat /\ "worker" \in Tasks
  BY SessionAssumption DEF Tasks
<1> USE DEF TypeInv, TypeOK, ObjectsType, BooksType, TasksType, AsyncTcpType, HistoryType, BusyOK,
            objects, books, tasks, asynctcp, history, Goto
<1>1. CASE TakeLine
  <2>1. /\ queue' \in Seq(Job) /\ Len(queue') <= QueueLen
        /\ Head(queue).sess \in Sess /\ Head(queue).line \in Nat
    BY <1>0, <1>1, JobTaken DEF TakeLine
  <2>2. UNCHANGED <<objects, registry, active, gauge, zombies, aged, hasty, toFinalize, toClose,
                    asynctcp, history>>
    BY <1>1 DEF TakeLine
  <2>3. TasksType' /\ BusyOK'
    <3>1. toFinalize' \in SUBSET Sess /\ toClose' \in SUBSET Sess
      BY <2>2
    <3>2. CASE UNCHANGED <<pc, on, val>>
      BY <3>1, <3>2, TasksStay
    <3>3. CASE Steps("worker", "exec", Head(queue).sess, Head(queue).line)
      BY <1>0, <2>1, <3>1, <3>3, TaskSteps
    <3> QED
      BY <1>1, <3>2, <3>3 DEF TakeLine, Steps
  <2> QED
    BY <2>1, <2>2, <2>3
<1>2. CASE TakeFinal
  <2>1. queue' \in Seq(Job) /\ Len(queue') <= QueueLen /\ Head(queue).sess \in Sess
    BY <1>0, <1>2, JobTaken DEF TakeFinal
  <2> QED
    BY <1>0, <1>2, <2>1 DEF TakeFinal
<1>3. CASE TakeClose
  <2>1. queue' \in Seq(Job) /\ Len(queue') <= QueueLen /\ Head(queue).sess \in Sess
    BY <1>0, <1>3, JobTaken DEF TakeClose
  <2> QED
    BY <1>0, <1>3, <2>1 DEF TakeClose, Hangup
<1> QED
  BY <1>0, <1>1, <1>2, <1>3, TypeRelease, TypeExecute DEF Worker

LEMMA TypeReaper == TypeInv /\ Reaper => TypeInv'
<1> SUFFICES ASSUME TypeInv, Reaper PROVE TypeInv'
  OBVIOUS
<1>0. QueueLen \in Nat /\ "loop" \in Tasks
  BY SessionAssumption DEF Tasks
<1> USE DEF TypeInv, TypeOK, ObjectsType, BooksType, TasksType, AsyncTcpType, HistoryType, BusyOK,
            objects, books, tasks, asynctcp, history, Goto
<1>1. CASE Claim
  BY <1>0, <1>1 DEF Claim
<1>2. CASE Sweep
  BY <1>0, <1>2 DEF Sweep
<1>3. ASSUME NEW s \in Sess, ReapFinalize(s) PROVE TypeInv'
  <2>1. queue' \in Seq(Job) /\ Len(queue') <= QueueLen
    BY <1>0, <1>3, JobAdded DEF ReapFinalize
  <2> QED
    <3>1. TasksType' /\ BusyOK'
      <4>1. val["loop"] \in Nat /\ toFinalize' \in SUBSET Sess /\ toClose' \in SUBSET Sess
        BY <1>0, <1>3 DEF ReapFinalize
      <4>2. CASE UNCHANGED <<pc, on, val>>
        BY <4>1, <4>2, TasksStay
      <4>3. CASE Steps("loop", "finalPark", s, val["loop"])
        BY <1>0, <4>1, <4>3, TaskSteps
      <4> QED
        BY <1>0, <1>3, <4>2, <4>3 DEF ReapFinalize, Steps
    <3>2. inlined' \in SUBSET Sess
      BY <1>3 DEF ReapFinalize
    <3>3. UNCHANGED <<objects, registry, active, gauge, zombies, aged, hasty, asynctcp, typed, ran,
                      logged, counted, contended>>
      BY <1>3 DEF ReapFinalize
    <3> QED
      BY <2>1, <3>1, <3>2, <3>3
<1>4. ASSUME NEW s \in Sess, ReapClose(s) PROVE TypeInv'
  <2>1. queue' \in Seq(Job) /\ Len(queue') <= QueueLen
    BY <1>0, <1>4, JobAdded DEF ReapClose
  <2> QED
    <3>1. conn' \in [Sess -> {"none", "up", "down", "gone"}]
      <4>1. CASE Hangup(s)
        BY <4>1 DEF Hangup
      <4>2. CASE UNCHANGED conn
        BY <4>2
      <4> QED
        BY <1>4, <4>1, <4>2 DEF ReapClose
    <3>2. toClose' \in SUBSET Sess
      BY <1>4 DEF ReapClose
    <3>3. UNCHANGED <<objects, registry, active, gauge, zombies, aged, hasty, pc, on, val, toFinalize,
                      discs, history>>
      BY <1>4 DEF ReapClose
    <3> QED
      BY <2>1, <3>1, <3>2, <3>3
<1> QED
  BY <1>0, <1>1, <1>2, <1>3, <1>4, TypeRelease DEF Reaper

LEMMA TypeEnvironment == TypeInv /\ Environment => TypeInv'
<1> SUFFICES ASSUME TypeInv, NEW s \in Sess, GoQuiet(s) \/ Age(s) \/ PeerCloses(s) \/ Vanish(s)
             PROVE  TypeInv'
  BY DEF Environment
<1> USE DEF TypeInv, TypeOK, ObjectsType, BooksType, TasksType, AsyncTcpType, HistoryType, BusyOK,
            objects, books, tasks, asynctcp, history
<1>1. CASE GoQuiet(s)
  BY <1>1 DEF GoQuiet
<1>2. CASE Age(s)
  BY <1>2 DEF Age
<1>3. CASE PeerCloses(s)
  BY <1>3 DEF PeerCloses, Hangup
<1>4. CASE Vanish(s)
  BY <1>4 DEF Vanish
<1> QED
  BY <1>1, <1>2, <1>3, <1>4

LEMMA TypeStep == TypeInv /\ [Next]_vars => TypeInv'
<1>1. TypeInv /\ UNCHANGED vars => TypeInv'
  BY DEF TypeInv, TypeOK, ObjectsType, BooksType, TasksType, AsyncTcpType, HistoryType, BusyOK,
         vars, objects, books, tasks, asynctcp, history
<1> QED
  BY <1>1, TypeCallbacks, TypeAsync, TypeWorker, TypeReaper, TypeEnvironment DEF Next

(* Every variable keeps its type; s_active and the gauge stay within       *)
(* TN_MAX_CONCURRENT and the job queue within its length, races or not.    *)
THEOREM SessionTypeCorrect == Spec => []TypeOK
<1>1. TypeInv => TypeOK
  BY DEF TypeInv
<1> QED
  BY <1>1, TypeInit, TypeStep, PTL DEF Spec

(***************************************************************************)
(* The queue, as the finalization jobs in it.                              *)
(***************************************************************************)

Final(j, s) == j.sess = s /\ j.kind \in {"final", "stuck"}

Waits(s) == \E i \in DOMAIN queue : Final(queue[i], s)
Once(s)  == \A i, j \in DOMAIN queue : Final(queue[i], s) /\ Final(queue[j], s) => i = j

LEMMA QueueStays ==
    ASSUME UNCHANGED queue, NEW s PROVE (Waits(s)' <=> Waits(s)) /\ (Once(s)' <=> Once(s))
  BY DEF Waits, Once

LEMMA QueueGrows ==
    ASSUME queue \in Seq(Job), NEW j \in Job, queue' = Append(queue, j), NEW s
    PROVE  /\ Waits(s)' <=> (Waits(s) \/ Final(j, s))
           /\ Once(s) /\ (Waits(s) => ~Final(j, s)) => Once(s)'
<1>1. /\ DOMAIN queue = 1 .. Len(queue) /\ DOMAIN queue' = 1 .. (Len(queue) + 1)
      /\ \A i \in 1 .. Len(queue) : queue'[i] = queue[i]
      /\ queue'[Len(queue) + 1] = j /\ Len(queue) \in Nat
  OBVIOUS
<1> QED
  BY <1>1 DEF Waits, Once

LEMMA QueueShrinks ==
    ASSUME queue \in Seq(Job), queue # <<>>, queue' = Tail(queue), NEW s
    PROVE  /\ Waits(s) <=> (Waits(s)' \/ Final(Head(queue), s))
           /\ Once(s) => Once(s)'
           /\ Once(s) /\ Final(Head(queue), s) => ~Waits(s)'
<1>1. /\ DOMAIN queue = 1 .. Len(queue) /\ DOMAIN queue' = 1 .. (Len(queue) - 1)
      /\ \A i \in 1 .. (Len(queue) - 1) : queue'[i] = queue[i + 1]
      /\ Head(queue) = queue[1] /\ Len(queue) \in Nat \ {0}
  OBVIOUS
<1>2. \A i \in 1 .. Len(queue) : i = 1 \/ i - 1 \in 1 .. (Len(queue) - 1)
  BY <1>1
<1>3. Waits(s) => Waits(s)' \/ Final(Head(queue), s)
  <2> SUFFICES ASSUME NEW i \in 1 .. Len(queue), Final(queue[i], s), i # 1 PROVE Waits(s)'
    BY <1>1 DEF Waits
  <2>1. i - 1 \in DOMAIN queue' /\ queue'[i - 1] = queue[i]
    BY <1>1, <1>2
  <2> QED
    BY <2>1 DEF Waits
<1>4. ASSUME NEW i \in DOMAIN queue', Final(queue'[i], s)
      PROVE  i + 1 \in DOMAIN queue /\ Final(queue[i + 1], s) /\ i + 1 # 1
  BY <1>1, <1>4
<1>5. Waits(s)' \/ Final(Head(queue), s) => Waits(s)
  <2>1. 1 \in DOMAIN queue
    BY <1>1
  <2> QED
    BY <1>1, <1>4, <2>1 DEF Waits
<1>6. Once(s) => Once(s)'
  <2> SUFFICES ASSUME Once(s), NEW i \in DOMAIN queue', NEW j \in DOMAIN queue',
                      Final(queue'[i], s), Final(queue'[j], s)
               PROVE  i = j
    BY DEF Once
  <2>1. i + 1 = j + 1
    BY <1>4 DEF Once
  <2> QED
    BY <1>1, <2>1
<1>7. Once(s) /\ Final(Head(queue), s) => ~Waits(s)'
  <2> SUFFICES ASSUME Once(s), Final(queue[1], s), NEW i \in DOMAIN queue', Final(queue'[i], s)
               PROVE  FALSE
    BY <1>1 DEF Waits
  <2> QED
    BY <1>1, <1>4 DEF Once
<1> QED
  BY <1>3, <1>5, <1>6, <1>7

(***************************************************************************)
(* Who has a session, and how far its release has come.                    *)
(***************************************************************************)

Rel(t, s) == on[t] = s /\ pc[t] \in Releasing

(* One at most of the reaper's list, the queue and the tasks has it.       *)
OneOwner(s) ==
    /\ Once(s)
    /\ \A t, u \in Tasks : Rel(t, s) /\ Rel(u, s) => t = u
    /\ \A t \in Tasks : Rel(t, s) => ~Waits(s) /\ s \notin toFinalize
    /\ Waits(s) => s \notin toFinalize

(* Before the flag is set nobody has begun; who sets it finds it clear.    *)
Untouched(s) ==
    /\ s \notin finalized =>
           /\ ~Waits(s) /\ s \notin toFinalize /\ \A t \in Tasks : ~Rel(t, s)
           /\ logged[s] = 0 /\ mem[s] # "freed" /\ s \notin zombies
    /\ pc["async"] = "mark" /\ on["async"] = s => s \notin finalized

(* The attack is appended once, on the way from the flag to the release.   *)
Progress(s) ==
    /\ logged[s] <= 1
    /\ Waits(s) \/ s \in toFinalize => logged[s] = 0
    /\ \A t \in Tasks : Rel(t, s) =>
           logged[s] = (IF pc[t] \in {"free", "park", "dec"} THEN 1 ELSE 0)
    /\ mem[s] = "freed" \/ s \in zombies => logged[s] = 1

Owned(s) == OneOwner(s) /\ Untouched(s) /\ Progress(s)

OwnedInv == \A s \in Sess \ contended : Owned(s)

LEMMA OwnedInit == Init => OwnedInv
<1> SUFFICES ASSUME Init, NEW s \in Sess \ contended PROVE Owned(s)
  BY DEF OwnedInv
<1>1. ~Waits(s) /\ Once(s)
  BY DEF Init, Waits, Once
<1>2. \A t \in Tasks : ~Rel(t, s)
  BY SessionAssumption DEF Init, Rel
<1> QED
  BY <1>1, <1>2 DEF Init, Owned, OneOwner, Untouched, Progress, Tasks

(* A step that moves no job, no task and none of the marks keeps it.       *)
LEMMA OwnedStays ==
    ASSUME UNCHANGED <<queue, toFinalize, finalized, logged, zombies>>, NEW s, Owned(s),
           \A t \in Tasks : Rel(t, s)' <=> Rel(t, s),
           \A t \in Tasks : Rel(t, s) => (pc'[t] \in {"free", "park", "dec"} <=> pc[t] \in {"free", "park", "dec"}),
           mem'[s] = "freed" => mem[s] = "freed",
           pc'["async"] = "mark" /\ on'["async"] = s => s \notin finalized
    PROVE  Owned(s)'
<1>1. (Waits(s)' <=> Waits(s)) /\ (Once(s)' <=> Once(s))
  BY QueueStays
<1>2. OneOwner(s)'
  BY <1>1 DEF Owned, OneOwner
<1>3. Untouched(s)'
  BY <1>1 DEF Owned, Untouched
<1>4. Progress(s)'
  BY <1>1 DEF Owned, Progress
<1> QED
  BY <1>2, <1>3, <1>4 DEF Owned

LEMMA OwnedCallbacks == TypeInv /\ OwnedInv /\ Callbacks => OwnedInv'
<1> SUFFICES ASSUME TypeInv, OwnedInv, NEW c \in Sess,
                    TakeSlot(c) \/ OnBytes(c) \/ OnUser(c) \/ OnPassword(c)
                      \/ OnShellLine(c) \/ OnDisconnect(c),
                    NEW s \in Sess \ contended'
             PROVE  Owned(s)'
  BY DEF Callbacks, OwnedInv
<1>1. contended' = contended
  BY DEF TakeSlot, OnBytes, OnUser, OnPassword, OnShellLine, OnDisconnect, history
<1>2. Owned(s)
  BY <1>1 DEF OwnedInv
<1>3. /\ "async" \in Tasks /\ DOMAIN pc = Tasks /\ on \in [Tasks -> Sess \cup {NoSess}]
      /\ queue \in Seq(Job) /\ typed \in [Sess -> Nat]
  BY DEF Tasks, TypeInv, TypeOK, TasksType, BooksType, HistoryType
<1>4. CASE TakeSlot(c)
  BY <1>2, <1>3, <1>4, OwnedStays DEF TakeSlot, Goto, Rel, Releasing, objects, history
<1>5. CASE OnBytes(c) \/ OnUser(c) \/ OnPassword(c)
  BY <1>2, <1>3, <1>5, OwnedStays
     DEF OnBytes, OnUser, OnPassword, Receives, Rel, books, tasks, history, Owned, Untouched
<1>6. CASE OnShellLine(c)
  <2>1. UNCHANGED <<toFinalize, finalized, logged, zombies, mem>>
    BY <1>6 DEF OnShellLine
  <2>2. \A t \in Tasks : Rel(t, s)' = Rel(t, s) /\ (Rel(t, s) => pc'[t] = pc[t])
    BY <1>3, <1>6 DEF OnShellLine, Receives, Rel, Releasing, Goto
  <2>3. ~(pc'["async"] = "mark")
    BY <1>3, <1>6 DEF OnShellLine, Receives, Goto
  <2>4. CASE UNCHANGED queue
    BY <1>2, <2>1, <2>2, <2>3, <2>4, OwnedStays
  <2>5. CASE queue' = Append(queue, [kind |-> "line", sess |-> c, line |-> typed[c] + 1])
    <3> DEFINE j == [kind |-> "line", sess |-> c, line |-> typed[c] + 1]
    <3>1. j \in Job /\ ~Final(j, s)
      BY <1>3 DEF Job, Final
    <3> HIDE DEF j
    <3>2. (Waits(s)' <=> Waits(s)) /\ (Once(s) => Once(s)')
      BY <1>3, <2>5, <3>1, QueueGrows DEF j
    <3> QED
      BY <1>2, <2>1, <2>2, <2>3, <3>2 DEF Owned, OneOwner, Untouched, Progress
  <2> QED
    BY <1>6, <2>4, <2>5 DEF OnShellLine
<1>7. CASE OnDisconnect(c)
  <2>1. UNCHANGED <<queue, toFinalize, finalized, logged, zombies, mem>>
    BY <1>7 DEF OnDisconnect, objects, books, history
  <2>2. \A t \in Tasks : Rel(t, s)' = Rel(t, s) /\ (Rel(t, s) => pc'[t] = pc[t])
    BY <1>3, <1>7 DEF OnDisconnect, Rel, Releasing, Goto
  <2>3. pc'["async"] = "mark" /\ on'["async"] = s => s \notin finalized
    BY <1>3, <1>7 DEF OnDisconnect, Goto
  <2> QED
    BY <1>2, <2>1, <2>2, <2>3, OwnedStays
<1> QED
  BY <1>4, <1>5, <1>6, <1>7

LEMMA OwnedExecute ==
    ASSUME TypeInv, OwnedInv, NEW t \in Tasks, NEW exit \in BOOLEAN, Execute(t, exit)
    PROVE  OwnedInv'
<1>1. DOMAIN pc = Tasks /\ on \in [Tasks -> Sess \cup {NoSess}] /\ "async" \in Tasks
  BY DEF Tasks, TypeInv, TypeOK, TasksType
<1>2. UNCHANGED <<queue, toFinalize, finalized, logged, zombies, mem, contended>>
  BY DEF Execute, books
<1> SUFFICES ASSUME NEW s \in Sess \ contended, Owned(s) PROVE Owned(s)'
  BY <1>2 DEF OwnedInv
<1>3. \A u \in Tasks : Rel(u, s)' = Rel(u, s) /\ (Rel(u, s) => pc'[u] = pc[u])
  BY <1>1 DEF Execute, Rel, Releasing, Goto
<1>4. pc'["async"] = "mark" /\ on'["async"] = s => s \notin finalized
  BY <1>1 DEF Execute, Goto, Owned, Untouched
<1> QED
  BY <1>2, <1>3, <1>4, OwnedStays

LEMMA OwnedRelease ==
    ASSUME TypeInv, OwnedInv, NEW t \in Tasks, Release(t)
    PROVE  OwnedInv'
<1>1. /\ DOMAIN pc = Tasks /\ on \in [Tasks -> Sess \cup {NoSess}] /\ "async" \in Tasks
      /\ pc[t] \in Releasing => on[t] \in Sess
      /\ logged \in [Sess -> Nat] /\ DOMAIN mem = Sess
  BY DEF Tasks, TypeInv, TypeOK, TasksType, HistoryType, ObjectsType, BusyOK, Releasing
<1>2. UNCHANGED <<queue, toFinalize, finalized, contended>>
  BY DEF Release, Forensics, Free, Park, Dec, LoadActive, StoreGauge, books, objects, history
<1> SUFFICES ASSUME NEW s \in Sess \ contended, Owned(s) PROVE Owned(s)'
  BY <1>2 DEF OwnedInv
<1>3. (Waits(s)' <=> Waits(s)) /\ (Once(s)' <=> Once(s))
  BY <1>2, QueueStays
<1>4. pc'["async"] = "mark" /\ on'["async"] = s => s \notin finalized
  BY <1>1 DEF Release, Forensics, Free, Park, Dec, LoadActive, StoreGauge, Goto, Home, Owned, Untouched
<1>5. CASE Forensics(t)
  <2>1. \A u \in Tasks : Rel(u, s)' = Rel(u, s) /\ (u # t => pc'[u] = pc[u])
    BY <1>1, <1>5 DEF Forensics, Rel, Releasing, Goto
  <2>2. Rel(t, on[t]) /\ pc[t] \in {"finalFree", "finalPark"} /\ pc'[t] \in {"free", "park"}
    BY <1>1, <1>5 DEF Forensics, Rel, Releasing, Goto
  <2>3. UNCHANGED <<zombies, mem>>
    BY <1>5 DEF Forensics, objects, books
  <2>4. logged'[s] = IF s = on[t] THEN logged[s] + 1 ELSE logged[s]
    BY <1>1, <1>5 DEF Forensics, Releasing
  <2>5. OneOwner(s)' /\ Untouched(s)'
    BY <1>2, <1>3, <1>4, <2>1, <2>2, <2>3, <2>4 DEF Owned, OneOwner, Untouched
  <2>6. CASE s = on[t]
    <3>1. Rel(t, s) /\ logged[s] = 0 /\ logged'[s] = 1
      BY <2>2, <2>4, <2>6 DEF Owned, Progress
    <3>2. /\ ~Waits(s) /\ s \notin toFinalize /\ \A u \in Tasks : Rel(u, s) => u = t
      BY <3>1 DEF Owned, OneOwner
    <3> QED
      BY <1>2, <1>3, <2>1, <2>2, <2>3, <2>5, <3>1, <3>2 DEF Owned, Progress
  <2>7. CASE s # on[t]
    <3>1. ~Rel(t, s) /\ logged'[s] = logged[s]
      BY <2>4, <2>7 DEF Rel
    <3> QED
      BY <1>2, <1>3, <2>1, <2>3, <2>5, <3>1 DEF Owned, Progress
  <2> QED
    BY <2>6, <2>7
<1>6. CASE Free(t)
  <2>1. \A u \in Tasks : Rel(u, s)' = Rel(u, s) /\ (u # t => pc'[u] = pc[u])
    BY <1>1, <1>6 DEF Free, Rel, Releasing, Goto
  <2>2. Rel(t, on[t]) /\ pc[t] = "free" /\ pc'[t] = "dec"
    BY <1>1, <1>6 DEF Free, Rel, Releasing, Goto
  <2>3. UNCHANGED <<zombies, logged>> /\ (mem'[s] = "freed" => mem[s] = "freed" \/ s = on[t])
    BY <1>1, <1>6 DEF Free, books, history
  <2>4. s = on[t] => Rel(t, s) /\ s \in finalized /\ logged[s] = 1
    BY <2>2 DEF Owned, Untouched, Progress
  <2> QED
    BY <1>2, <1>3, <1>4, <2>1, <2>2, <2>3, <2>4 DEF Owned, OneOwner, Untouched, Progress
<1>7. CASE Park(t)
  <2>1. \A u \in Tasks : Rel(u, s)' = Rel(u, s) /\ (u # t => pc'[u] = pc[u])
    BY <1>1, <1>7 DEF Park, Rel, Releasing, Goto
  <2>2. Rel(t, on[t]) /\ pc[t] = "park" /\ pc'[t] = "dec"
    BY <1>1, <1>7 DEF Park, Rel, Releasing, Goto
  <2>3. UNCHANGED <<mem, logged>> /\ (s \in zombies' => s \in zombies \/ s = on[t])
    BY <1>1, <1>7 DEF Park, objects, history
  <2>4. s = on[t] => Rel(t, s) /\ s \in finalized /\ logged[s] = 1
    BY <2>2 DEF Owned, Untouched, Progress
  <2> QED
    BY <1>2, <1>3, <1>4, <2>1, <2>2, <2>3, <2>4 DEF Owned, OneOwner, Untouched, Progress
<1>8. CASE Dec(t) \/ LoadActive(t) \/ StoreGauge(t)
  <2>1. \A u \in Tasks : Rel(u, s)' => Rel(u, s) /\ pc'[u] = pc[u]
    BY <1>1, <1>8 DEF Dec, LoadActive, StoreGauge, Rel, Releasing, Goto, Home
  <2>2. UNCHANGED <<mem, logged, zombies>>
    BY <1>8 DEF Dec, LoadActive, StoreGauge, objects, books, history
  <2> QED
    BY <1>2, <1>3, <1>4, <2>1, <2>2 DEF Owned, OneOwner, Untouched, Progress
<1> QED
  BY <1>5, <1>6, <1>7, <1>8 DEF Release

LEMMA OwnedAsync == TypeInv /\ OwnedInv /\ Async => OwnedInv'
<1> SUFFICES ASSUME TypeInv, OwnedInv, PublishSlot \/ OpenSession \/ Mark \/ SendFinal PROVE OwnedInv'
  BY OwnedRelease, OwnedExecute DEF Async, Tasks
<1>1. /\ "async" \in Tasks /\ DOMAIN pc = Tasks /\ on \in [Tasks -> Sess \cup {NoSess}]
      /\ pc["async"] = "send" => on["async"] \in Sess
      /\ queue \in Seq(Job) /\ DOMAIN mem = Sess
  BY DEF Tasks, TypeInv, TypeOK, TasksType, BooksType, ObjectsType, BusyOK
<1>2. UNCHANGED <<toFinalize, logged, zombies, contended>>
  BY DEF PublishSlot, OpenSession, Mark, SendFinal, history
<1> SUFFICES ASSUME NEW s \in Sess \ contended, Owned(s) PROVE Owned(s)'
  BY <1>2 DEF OwnedInv
<1>3. CASE PublishSlot
  <2>1. UNCHANGED <<queue, finalized, mem>>
    BY <1>3 DEF PublishSlot, objects
  <2>2. \A t \in Tasks : Rel(t, s)' = Rel(t, s) /\ (Rel(t, s) => pc'[t] = pc[t])
    BY <1>1, <1>3 DEF PublishSlot, Rel, Releasing, Goto
  <2>3. pc'["async"] # "mark"
    BY <1>1, <1>3 DEF PublishSlot, Goto
  <2> QED
    BY <1>2, <2>1, <2>2, <2>3, OwnedStays
<1>4. CASE OpenSession
  <2>1. UNCHANGED <<queue, finalized>> /\ (mem'[s] = "freed" => mem[s] = "freed")
    BY <1>1, <1>4 DEF OpenSession
  <2>2. \A t \in Tasks : Rel(t, s)' = Rel(t, s) /\ (Rel(t, s) => pc'[t] = pc[t])
    BY <1>1, <1>4 DEF OpenSession, Rel, Releasing, Goto
  <2>3. pc'["async"] # "mark"
    BY <1>1, <1>4 DEF OpenSession, Goto
  <2> QED
    BY <1>2, <2>1, <2>2, <2>3, OwnedStays
<1>5. CASE Mark
  <2>1. UNCHANGED <<queue, mem>> /\ finalized' = finalized \cup {on["async"]}
    BY <1>5 DEF Mark
  <2>2. (Waits(s)' <=> Waits(s)) /\ (Once(s)' <=> Once(s))
    BY <2>1, QueueStays
  <2>3. pc["async"] = "mark" /\ pc'["async"] = "send"
    BY <1>1, <1>5 DEF Mark, Goto
  <2>4. \A t \in Tasks : /\ t # "async" => (Rel(t, s)' <=> Rel(t, s)) /\ pc'[t] = pc[t]
                         /\ t = "async" => (Rel(t, s)' <=> s = on["async"])
    BY <1>1, <1>5 DEF Mark, Goto, Rel, Releasing
  <2>5. CASE s = on["async"]
    <3>1. s \notin finalized
      BY <2>3, <2>5 DEF Owned, Untouched
    <3>2. /\ ~Waits(s) /\ s \notin toFinalize /\ \A t \in Tasks : ~Rel(t, s)
          /\ logged[s] = 0 /\ mem[s] # "freed" /\ s \notin zombies
      BY <3>1 DEF Owned, Untouched
    <3>3. OneOwner(s)'
      BY <1>2, <2>2, <2>4, <3>2 DEF Owned, OneOwner
    <3>4. Untouched(s)'
      BY <2>1, <2>3, <2>5 DEF Untouched
    <3>5. Progress(s)'
      BY <1>2, <2>1, <2>2, <2>3, <2>4, <3>2 DEF Progress
    <3> QED
      BY <3>3, <3>4, <3>5 DEF Owned
  <2>6. CASE s # on["async"]
    <3>1. ~Rel("async", s) /\ ~Rel("async", s)'
      BY <1>1, <2>4, <2>6 DEF Rel
    <3>2. s \in finalized' <=> s \in finalized
      BY <2>1, <2>6
    <3> QED
      BY <1>1, <1>2, <2>1, <2>2, <2>3, <2>4, <3>1, <3>2 DEF Owned, OneOwner, Untouched, Progress
  <2> QED
    BY <2>5, <2>6
<1>6. CASE SendFinal
  <2>1. UNCHANGED <<mem, finalized>> /\ pc["async"] = "send" /\ on["async"] \in Sess
    BY <1>1, <1>6 DEF SendFinal, objects
  <2>2. CASE Room
    <3> DEFINE j == [kind |-> "final", sess |-> on["async"], line |-> 0]
    <3>1. j \in Job /\ (Final(j, s) <=> s = on["async"])
      BY <2>1 DEF Job, Final
    <3>2. queue' = Append(queue, j)
      BY <1>6, <2>2 DEF SendFinal
    <3> HIDE DEF j
    <3>3. /\ Waits(s)' <=> (Waits(s) \/ s = on["async"])
          /\ Once(s) /\ (Waits(s) => s # on["async"]) => Once(s)'
      BY <1>1, <3>1, <3>2, QueueGrows
    <3>4. pc'["async"] = "idle" /\ \A t \in Tasks : t # "async" => (Rel(t, s)' <=> Rel(t, s)) /\ pc'[t] = pc[t]
      BY <1>1, <1>6, <2>2 DEF SendFinal, Goto, Rel
    <3>5. ~Rel("async", s)' /\ (Rel("async", s) <=> s = on["async"])
      BY <2>1, <3>4 DEF Rel, Releasing
    <3>6. s = on["async"] =>
              /\ ~Waits(s) /\ s \notin toFinalize /\ s \in finalized /\ logged[s] = 0
              /\ \A t \in Tasks : ~Rel(t, s)'
      BY <1>1, <2>1, <3>4, <3>5 DEF Owned, OneOwner, Untouched, Progress
    <3>7. OneOwner(s)'
      BY <1>2, <3>3, <3>4, <3>5, <3>6 DEF Owned, OneOwner
    <3>8. Untouched(s)'
      BY <1>2, <2>1, <3>3, <3>4, <3>5, <3>6 DEF Owned, Untouched
    <3>9. Progress(s)'
      BY <1>2, <2>1, <3>3, <3>4, <3>5, <3>6 DEF Owned, Progress
    <3> QED
      BY <3>7, <3>8, <3>9 DEF Owned
  <2>3. CASE ~Room
    <3>1. UNCHANGED queue /\ pc'["async"] = "finalFree" /\ UNCHANGED on
      BY <1>1, <1>6, <2>3 DEF SendFinal, Goto
    <3>2. \A t \in Tasks : (Rel(t, s)' <=> Rel(t, s)) /\ (t # "async" => pc'[t] = pc[t])
      BY <1>1, <1>6, <2>1, <2>3 DEF SendFinal, Goto, Rel, Releasing
    <3> QED
      BY <1>2, <2>1, <3>1, <3>2, OwnedStays
  <2> QED
    BY <2>2, <2>3
<1> QED
  BY <1>3, <1>4, <1>5, <1>6

LEMMA OwnedWorker == TypeInv /\ OwnedInv /\ Worker => OwnedInv'
<1> SUFFICES ASSUME TypeInv, OwnedInv, TakeLine \/ TakeFinal \/ TakeClose PROVE OwnedInv'
  BY OwnedRelease, OwnedExecute DEF Worker, Tasks
<1>1. /\ "async" \in Tasks /\ "worker" \in Tasks /\ "async" # "worker"
      /\ DOMAIN pc = Tasks /\ on \in [Tasks -> Sess \cup {NoSess}]
      /\ queue \in Seq(Job)
  BY DEF Tasks, TypeInv, TypeOK, TasksType, BooksType
<1>2. /\ UNCHANGED <<toFinalize, logged, zombies, contended, finalized, mem>>
      /\ pc["worker"] = "idle" /\ queue # <<>> /\ queue' = Tail(queue)
  BY DEF TakeLine, TakeFinal, TakeClose, history, objects, tasks
<1> SUFFICES ASSUME NEW s \in Sess \ contended, Owned(s) PROVE Owned(s)'
  BY <1>2 DEF OwnedInv
<1>3. /\ Waits(s) <=> (Waits(s)' \/ Final(Head(queue), s))
      /\ Once(s) => Once(s)'
      /\ Once(s) /\ Final(Head(queue), s) => ~Waits(s)'
  BY <1>1, <1>2, QueueShrinks
<1>4. /\ pc'["async"] = pc["async"] /\ on'["async"] = on["async"]
      /\ \A t \in Tasks : t # "worker" => (Rel(t, s)' <=> Rel(t, s)) /\ pc'[t] = pc[t]
  BY <1>1 DEF TakeLine, TakeFinal, TakeClose, Goto, Rel, tasks
<1>5. ~Rel("worker", s)
  BY <1>2 DEF Rel, Releasing
<1>6. CASE TakeLine \/ TakeClose
  <2>1. ~Final(Head(queue), s)
    BY <1>6 DEF TakeLine, TakeClose, Final
  <2>2. ~Rel("worker", s)'
    BY <1>1, <1>2, <1>6 DEF TakeLine, TakeClose, Goto, Rel, Releasing, tasks
  <2>3. OneOwner(s)'
    BY <1>1, <1>2, <1>3, <1>4, <1>5, <2>1, <2>2 DEF Owned, OneOwner
  <2>4. Untouched(s)'
    BY <1>1, <1>2, <1>3, <1>4, <1>5, <2>1, <2>2 DEF Owned, Untouched
  <2>5. Progress(s)'
    BY <1>1, <1>2, <1>3, <1>4, <1>5, <2>1, <2>2 DEF Owned, Progress
  <2> QED
    BY <2>3, <2>4, <2>5 DEF Owned
<1>7. CASE TakeFinal
  <2>1. pc'["worker"] \in {"finalFree", "finalPark"} /\ (Rel("worker", s)' <=> Final(Head(queue), s))
    BY <1>1, <1>7 DEF TakeFinal, Goto, Rel, Releasing, Final
  <2>2. Final(Head(queue), s) =>
            /\ Waits(s) /\ ~Waits(s)' /\ s \notin toFinalize /\ s \in finalized /\ logged[s] = 0
            /\ \A t \in Tasks : ~Rel(t, s)
    BY <1>3 DEF Owned, OneOwner, Untouched, Progress
  <2>3. OneOwner(s)'
    BY <1>1, <1>2, <1>3, <1>4, <1>5, <2>1, <2>2 DEF Owned, OneOwner
  <2>4. Untouched(s)'
    BY <1>1, <1>2, <1>3, <1>4, <1>5, <2>1, <2>2 DEF Owned, Untouched
  <2>5. Progress(s)'
    BY <1>1, <1>2, <1>3, <1>4, <1>5, <2>1, <2>2 DEF Owned, Progress
  <2> QED
    BY <2>3, <2>4, <2>5 DEF Owned
<1> QED
  BY <1>6, <1>7

LEMMA OwnedReaper == TypeInv /\ OwnedInv /\ Reaper => OwnedInv'
<1> SUFFICES ASSUME TypeInv, OwnedInv,
                    Claim \/ Sweep \/ \E c \in Sess : ReapFinalize(c) \/ ReapClose(c)
             PROVE  OwnedInv'
  BY OwnedRelease DEF Reaper, Tasks
<1>1. /\ "async" \in Tasks /\ "loop" \in Tasks /\ "async" # "loop"
      /\ DOMAIN pc = Tasks /\ on \in [Tasks -> Sess \cup {NoSess}]
      /\ queue \in Seq(Job) /\ DOMAIN mem = Sess /\ aged \subseteq zombies
  BY DEF Tasks, TypeInv, TypeOK, TasksType, BooksType, ObjectsType
<1>2. UNCHANGED logged /\ contended \subseteq contended'
  BY DEF Claim, Sweep, ReapFinalize, ReapClose, history
<1> SUFFICES ASSUME NEW s \in Sess \ contended', Owned(s) PROVE Owned(s)'
  BY <1>2 DEF OwnedInv
<1>3. CASE Claim
  <2> DEFINE stuck == {x \in registry \ finalized : x \in quiet}
  <2>1. /\ UNCHANGED <<queue, mem, zombies>> /\ finalized' = finalized \cup stuck /\ toFinalize' = stuck
        /\ contended' = contended \cup {x \in stuck : pc["async"] = "mark" /\ on["async"] = x}
        /\ pc["loop"] = "idle"
    BY <1>3 DEF Claim
  <2>2. (Waits(s)' <=> Waits(s)) /\ (Once(s)' <=> Once(s))
    BY <2>1, QueueStays
  <2>3. /\ pc'["async"] = pc["async"] /\ on'["async"] = on["async"]
        /\ \A t \in Tasks : (Rel(t, s)' <=> Rel(t, s)) /\ (Rel(t, s) => pc'[t] = pc[t])
    BY <1>1, <1>3 DEF Claim, Goto, Rel, Releasing
  <2>4. s \in stuck => s \notin finalized /\ ~(pc["async"] = "mark" /\ on["async"] = s)
    BY <2>1
  <2> HIDE DEF stuck
  <2>5. OneOwner(s)'
    BY <2>1, <2>2, <2>3, <2>4 DEF Owned, OneOwner, Untouched
  <2>6. Untouched(s)'
    BY <2>1, <2>2, <2>3, <2>4, <1>2 DEF Owned, Untouched
  <2>7. Progress(s)'
    BY <2>1, <2>2, <2>3, <2>4, <1>2 DEF Owned, Progress, Untouched
  <2> QED
    BY <2>5, <2>6, <2>7 DEF Owned
<1>4. CASE Sweep
  <2>1. UNCHANGED <<queue, finalized, toFinalize>> /\ zombies' \subseteq zombies
    BY <1>4 DEF Sweep
  <2>2. (Waits(s)' <=> Waits(s)) /\ (Once(s)' <=> Once(s))
    BY <2>1, QueueStays
  <2>3. /\ pc'["async"] = pc["async"] /\ on'["async"] = on["async"]
        /\ \A t \in Tasks : (Rel(t, s)' <=> Rel(t, s)) /\ (Rel(t, s) => pc'[t] = pc[t])
    BY <1>1, <1>4 DEF Sweep, Goto, Rel, Releasing
  <2>4. mem'[s] = "freed" => mem[s] = "freed" \/ s \in zombies
    BY <1>1, <1>4 DEF Sweep
  <2> QED
    BY <1>2, <2>1, <2>2, <2>3, <2>4 DEF Owned, OneOwner, Untouched, Progress
<1>5. ASSUME NEW c \in Sess, ReapFinalize(c) PROVE Owned(s)'
  <2>1. /\ UNCHANGED <<mem, finalized, zombies>> /\ toFinalize' = toFinalize \ {c} /\ c \in toFinalize
        /\ pc["loop"] = "reap"
    BY <1>5 DEF ReapFinalize, objects
  <2>2. ~Rel("loop", s)
    BY <2>1 DEF Rel, Releasing
  <2>3. /\ pc'["async"] = pc["async"] /\ on'["async"] = on["async"]
        /\ \A t \in Tasks : t # "loop" => (Rel(t, s)' <=> Rel(t, s)) /\ pc'[t] = pc[t]
    BY <1>1, <1>5 DEF ReapFinalize, Goto, Rel
  <2>4. s = c => ~Waits(s) /\ s \in finalized /\ logged[s] = 0 /\ \A t \in Tasks : ~Rel(t, s)
    BY <2>1 DEF Owned, OneOwner, Untouched, Progress
  <2>5. CASE Room
    <3> DEFINE j == [kind |-> "stuck", sess |-> c, line |-> 0]
    <3>1. j \in Job /\ (Final(j, s) <=> s = c)
      BY DEF Job, Final
    <3>2. queue' = Append(queue, j)
      BY <1>5, <2>5 DEF ReapFinalize
    <3> HIDE DEF j
    <3>3. /\ Waits(s)' <=> (Waits(s) \/ s = c)
          /\ Once(s) /\ (Waits(s) => s # c) => Once(s)'
      BY <1>1, <3>1, <3>2, QueueGrows
    <3>4. ~Rel("loop", s)'
      BY <1>5, <2>1, <2>5 DEF ReapFinalize, Rel, Releasing
    <3>5. OneOwner(s)'
      BY <2>1, <2>2, <2>3, <2>4, <3>3, <3>4 DEF Owned, OneOwner
    <3>6. Untouched(s)'
      BY <1>2, <2>1, <2>2, <2>3, <2>4, <3>3, <3>4 DEF Owned, Untouched
    <3>7. Progress(s)'
      BY <1>2, <2>1, <2>2, <2>3, <2>4, <3>3, <3>4 DEF Owned, Progress
    <3> QED
      BY <3>5, <3>6, <3>7 DEF Owned
  <2>6. CASE ~Room
    <3>1. UNCHANGED queue
      BY <1>5, <2>6 DEF ReapFinalize
    <3>2. (Waits(s)' <=> Waits(s)) /\ (Once(s)' <=> Once(s))
      BY <3>1, QueueStays
    <3>3. pc'["loop"] = "finalPark" /\ (Rel("loop", s)' <=> s = c)
      BY <1>1, <1>5, <2>6 DEF ReapFinalize, Goto, Rel, Releasing
    <3>5. OneOwner(s)'
      BY <2>1, <2>2, <2>3, <2>4, <3>2, <3>3 DEF Owned, OneOwner
    <3>6. Untouched(s)'
      BY <1>2, <2>1, <2>2, <2>3, <2>4, <3>2, <3>3 DEF Owned, Untouched
    <3>7. Progress(s)'
      BY <1>2, <2>1, <2>2, <2>3, <2>4, <3>2, <3>3 DEF Owned, Progress
    <3> QED
      BY <3>5, <3>6, <3>7 DEF Owned
  <2> QED
    BY <2>5, <2>6
<1>6. ASSUME NEW c \in Sess, ReapClose(c) PROVE Owned(s)'
  <2>1. UNCHANGED <<mem, finalized, zombies, toFinalize, pc, on>>
    BY <1>6 DEF ReapClose, objects
  <2>2. \A t \in Tasks : Rel(t, s)' <=> Rel(t, s)
    BY <2>1 DEF Rel
  <2>3. CASE UNCHANGED queue
    <3>1. (Waits(s)' <=> Waits(s)) /\ (Once(s)' <=> Once(s))
      BY <2>3, QueueStays
    <3> QED
      BY <1>2, <2>1, <2>2, <3>1 DEF Owned, OneOwner, Untouched, Progress
  <2>4. CASE queue' = Append(queue, [kind |-> "close", sess |-> c, line |-> 0])
    <3> DEFINE j == [kind |-> "close", sess |-> c, line |-> 0]
    <3>1. j \in Job /\ ~Final(j, s)
      BY DEF Job, Final
    <3> HIDE DEF j
    <3>2. (Waits(s)' <=> Waits(s)) /\ (Once(s) => Once(s)')
      BY <1>1, <2>4, <3>1, QueueGrows DEF j
    <3> QED
      BY <1>2, <2>1, <2>2, <3>2 DEF Owned, OneOwner, Untouched, Progress
  <2> QED
    BY <1>6, <2>3, <2>4 DEF ReapClose
<1> QED
  BY <1>3, <1>4, <1>5, <1>6

LEMMA OwnedEnvironment == TypeInv /\ OwnedInv /\ Environment => OwnedInv'
<1> SUFFICES ASSUME TypeInv, OwnedInv, NEW c \in Sess,
                    GoQuiet(c) \/ Age(c) \/ PeerCloses(c) \/ Vanish(c)
             PROVE  OwnedInv'
  BY DEF Environment
<1>1. UNCHANGED <<queue, toFinalize, finalized, logged, zombies, mem, contended, pc, on>>
  BY DEF GoQuiet, Age, PeerCloses, Vanish, objects, books, tasks, history
<1> SUFFICES ASSUME NEW s \in Sess \ contended, Owned(s) PROVE Owned(s)'
  BY <1>1 DEF OwnedInv
<1> QED
  BY <1>1, OwnedStays DEF Rel, Owned, Untouched

LEMMA OwnedStep == TypeInv /\ OwnedInv /\ [Next]_vars => OwnedInv'
<1>1. ASSUME OwnedInv, UNCHANGED vars PROVE OwnedInv'
  <2>1. UNCHANGED <<queue, toFinalize, finalized, logged, zombies, mem, contended, pc, on>>
    BY <1>1 DEF vars, objects, books, tasks, history
  <2> SUFFICES ASSUME NEW s \in Sess \ contended, Owned(s) PROVE Owned(s)'
    BY <1>1, <2>1 DEF OwnedInv
  <2> QED
    BY <2>1, OwnedStays DEF Rel, Owned, Untouched
<1> QED
  BY <1>1, OwnedCallbacks, OwnedAsync, OwnedWorker, OwnedReaper, OwnedEnvironment DEF Next

(* However the callbacks, the worker and the reaper interleave, and        *)
(* however full the queue is, a session that the reaper did not claim      *)
(* inside tn_finalize is written to the log once at most, and before it is *)
(* freed.                                                                  *)
THEOREM SessionsLoggedOnce == Spec => []LoggedOnce
<1>1. OwnedInv => LoggedOnce
  BY DEF OwnedInv, Owned, Progress, LoggedOnce
<1> QED
  BY <1>1, TypeInit, TypeStep, OwnedInit, OwnedStep, PTL DEF Spec
(***************************************************************************)
(* Where a session stands.                                                 *)
(***************************************************************************)

Opening(s) == on["async"] = s /\ pc["async"] \in {"gauge", "open"}
Marking(s) == on["async"] = s /\ pc["async"] = "mark"

Placed(s) ==
    /\ mem[s] = "none" => s \notin finalized \cup registry /\ conn[s] = "none"
    /\ s \in finalized => s \notin registry
    /\ Opening(s) => mem[s] = "none"
    /\ Marking(s) => mem[s] # "none"

PlaceInv ==
    /\ \A t \in Tasks : pc[t] \in {"gauge", "open", "mark", "send"} => t = "async"
    /\ pc["loop"] = "idle" => toFinalize = {}
    /\ \A s \in Sess \ contended : Placed(s)

LEMMA PlaceInit == Init => PlaceInv
  BY SessionAssumption DEF Init, PlaceInv, Placed, Opening, Marking, Tasks

(* What the types give the steps below.                                    *)
LEMMA Shapes ==
    ASSUME TypeInv
    PROVE  /\ "async" \in Tasks /\ "worker" \in Tasks /\ "loop" \in Tasks
           /\ DOMAIN pc = Tasks /\ DOMAIN on = Tasks /\ \A t \in Tasks : on[t] \in Sess \cup {NoSess}
           /\ DOMAIN mem = Sess /\ DOMAIN conn = Sess
           /\ \A s \in Sess : mem[s] \in {"none", "live", "freed"}
           /\ queue \in Seq(Job) /\ registry \in SUBSET Sess /\ toFinalize \in SUBSET Sess
           /\ finalized \in SUBSET Sess /\ active \in Nat /\ TnMax \in Nat
           /\ \A t \in Tasks : pc[t] \notin {"idle", "reap", "load", "store"} => on[t] \in Sess
  BY SessionAssumption
     DEF TypeInv, TypeOK, ObjectsType, BooksType, TasksType, AsyncTcpType, BusyOK, Tasks

LEMMA PlaceCallbacks == TypeInv /\ PlaceInv /\ Callbacks => PlaceInv'
<1> SUFFICES ASSUME TypeInv, PlaceInv, NEW c \in Sess,
                    TakeSlot(c) \/ OnBytes(c) \/ OnUser(c) \/ OnPassword(c)
                      \/ OnShellLine(c) \/ OnDisconnect(c)
             PROVE  PlaceInv'
  BY DEF Callbacks
<1> USE Shapes
<1>1. UNCHANGED <<mem, finalized, registry, toFinalize, contended>>
  BY DEF TakeSlot, OnBytes, OnUser, OnPassword, OnShellLine, OnDisconnect, objects, books, tasks, history
<1>2. \A t \in Tasks : pc'[t] = pc[t] \/ t = "async"
  BY DEF TakeSlot, OnBytes, OnUser, OnPassword, OnShellLine, OnDisconnect, tasks, Goto
<1>3. \A s \in Sess : conn'[s] = conn[s] \/ conn[s] = "down"
  BY DEF TakeSlot, OnBytes, OnUser, OnPassword, OnShellLine, OnDisconnect, asynctcp
<1>4. \A s \in Sess : /\ Opening(s)' => Opening(s) \/ mem[s] = "none"
                      /\ Marking(s)' => Marking(s) \/ conn[s] = "down"
  BY DEF TakeSlot, OnBytes, OnUser, OnPassword, OnShellLine, OnDisconnect, tasks, Goto, Opening, Marking
<1>5. \A s \in Sess \ contended : conn[s] = "down" => mem[s] # "none"
  BY DEF PlaceInv, Placed
<1>6. \A s \in Sess \ contended : Placed(s)'
  BY <1>1, <1>3, <1>4, <1>5 DEF PlaceInv, Placed
<1>7. "async" # "loop"
  OBVIOUS
<1> QED
  BY <1>1, <1>2, <1>6, <1>7 DEF PlaceInv

LEMMA PlaceExecute ==
    ASSUME TypeInv, PlaceInv, NEW t \in {"async", "worker"}, NEW exit \in BOOLEAN, Execute(t, exit)
    PROVE  PlaceInv'
<1> USE Shapes
<1>1. UNCHANGED <<mem, finalized, registry, toFinalize, contended>>
  BY DEF Execute, books
<1>2. \A u \in Tasks : pc'[u] = pc[u] \/ (u = t /\ pc'[u] = "idle")
  BY DEF Execute, Goto
<1>3. \A s \in Sess : conn'[s] = conn[s] \/ conn[s] = "up"
  BY DEF Execute, Hangup
<1>4. \A s \in Sess : (Opening(s)' => Opening(s)) /\ (Marking(s)' => Marking(s))
  BY DEF Execute, Goto, Opening, Marking
<1>5. \A s \in Sess \ contended : Placed(s)'
  BY <1>1, <1>3, <1>4 DEF PlaceInv, Placed
<1> QED
  BY <1>1, <1>2, <1>5 DEF PlaceInv

LEMMA PlaceRelease ==
    ASSUME TypeInv, OwnedInv, PlaceInv, NEW t \in Tasks, Release(t)
    PROVE  PlaceInv'
<1> USE Shapes
<1>1. UNCHANGED <<finalized, registry, toFinalize, conn, contended>>
  BY DEF Release, Forensics, Free, Park, Dec, LoadActive, StoreGauge, objects, books, asynctcp, history
<1>2. \A u \in Tasks : pc'[u] = pc[u] \/ (u = t /\ pc'[u] \in {"free", "park", "dec", "load", "store", Home(t)})
  BY DEF Release, Forensics, Free, Park, Dec, LoadActive, StoreGauge, Goto
<1>3. \A s \in Sess \ contended : (mem'[s] = "none" <=> mem[s] = "none")
  <2>1. CASE Free(t)
    <3>1. pc[t] = "free" /\ on[t] \in Sess
      BY <2>1 DEF Free
    <3>2. \A s \in Sess \ contended : s = on[t] => s \in finalized
      BY <3>1 DEF OwnedInv, Owned, Untouched, Rel, Releasing
    <3>3. \A s \in Sess \ contended : s = on[t] => mem[s] # "none"
      BY <3>2 DEF PlaceInv, Placed
    <3> QED
      BY <2>1, <3>1, <3>3 DEF Free
  <2>2. CASE UNCHANGED mem
    BY <2>2
  <2> QED
    BY <2>1, <2>2 DEF Release, Forensics, Park, Dec, LoadActive, StoreGauge, objects
<1>4. \A s \in Sess : (Opening(s)' => Opening(s)) /\ (Marking(s)' => Marking(s))
  BY DEF Release, Forensics, Free, Park, Dec, LoadActive, StoreGauge, Goto, Home, Opening, Marking
<1>5. \A s \in Sess \ contended : Placed(s)'
  BY <1>1, <1>3, <1>4 DEF PlaceInv, Placed
<1> QED
  BY <1>1, <1>2, <1>5 DEF PlaceInv, Home

LEMMA PlaceAsync == TypeInv /\ OwnedInv /\ PlaceInv /\ Async => PlaceInv'
<1> SUFFICES ASSUME TypeInv, OwnedInv, PlaceInv, PublishSlot \/ OpenSession \/ Mark \/ SendFinal
             PROVE  PlaceInv'
  BY PlaceRelease, PlaceExecute DEF Async, Tasks
<1> USE Shapes
<1>1. UNCHANGED <<toFinalize, contended>> /\ \A t \in Tasks : t # "async" => pc'[t] = pc[t]
  BY DEF PublishSlot, OpenSession, Mark, SendFinal, history, Goto
<1>2. CASE PublishSlot
  <2>1. /\ UNCHANGED <<mem, finalized, registry, conn>>
        /\ \A s : (Opening(s)' => Opening(s)) /\ (Marking(s)' => Marking(s))
    BY <1>2 DEF PublishSlot, objects, asynctcp, Goto, Opening, Marking
  <2> QED
    BY <1>1, <2>1 DEF PlaceInv, Placed
<1>3. CASE OpenSession
  <2>1. pc["async"] = "open" /\ on["async"] \in Sess
    BY <1>3 DEF OpenSession
  <2>2. /\ UNCHANGED finalized /\ registry' \subseteq registry \cup {on["async"]}
        /\ mem' = [mem EXCEPT ![on["async"]] = "live"]
        /\ conn' = [conn EXCEPT ![on["async"]] = "up"]
        /\ pc'["async"] = "idle"
    BY <1>3 DEF OpenSession, Goto
  <2>3. \A s : ~Opening(s)' /\ ~Marking(s)'
    BY <2>2 DEF Opening, Marking
  <2>4. \A s \in Sess \ contended : s = on["async"] => s \notin finalized
    BY <2>1 DEF PlaceInv, Placed, Opening
  <2>5. \A s \in Sess \ contended : Placed(s)'
    BY <2>1, <2>2, <2>3, <2>4 DEF PlaceInv, Placed
  <2> QED
    BY <1>1, <2>2, <2>5 DEF PlaceInv
<1>4. CASE Mark
  <2>1. /\ UNCHANGED <<mem, conn, on>> /\ finalized' = finalized \cup {on["async"]}
        /\ registry' = registry \ {on["async"]}
        /\ pc["async"] = "mark" /\ pc'["async"] = "send"
    BY <1>4 DEF Mark, Goto, asynctcp
  <2>2. \A s : ~Opening(s)' /\ ~Marking(s)'
    BY <2>1 DEF Opening, Marking
  <2>3. \A s \in Sess \ contended : Placed(s)'
    BY <2>1, <2>2 DEF PlaceInv, Placed, Marking
  <2> QED
    BY <1>1, <2>1, <2>3 DEF PlaceInv
<1>5. CASE SendFinal
  <2>1. UNCHANGED <<mem, conn, finalized, registry>> /\ pc'["async"] \in {"idle", "finalFree"}
    BY <1>5 DEF SendFinal, Goto, objects, asynctcp
  <2>2. \A s : ~Opening(s)' /\ ~Marking(s)'
    BY <2>1 DEF Opening, Marking
  <2>3. \A s \in Sess \ contended : Placed(s)'
    BY <1>1, <2>1, <2>2 DEF PlaceInv, Placed
  <2> QED
    BY <1>1, <2>1, <2>3 DEF PlaceInv
<1> QED
  BY <1>2, <1>3, <1>4, <1>5

LEMMA PlaceWorker == TypeInv /\ OwnedInv /\ PlaceInv /\ Worker => PlaceInv'
<1> SUFFICES ASSUME TypeInv, OwnedInv, PlaceInv, TakeLine \/ TakeFinal \/ TakeClose
             PROVE  PlaceInv'
  BY PlaceRelease, PlaceExecute DEF Worker, Tasks
<1> USE Shapes
<1>1. UNCHANGED <<toFinalize, contended, mem, finalized, registry>>
  BY DEF TakeLine, TakeFinal, TakeClose, objects, tasks, history
<1>2. /\ \A t \in Tasks : pc'[t] = pc[t] \/ (t = "worker" /\ pc'[t] \in {"exec", "finalFree", "finalPark"})
      /\ on'["async"] = on["async"]
  BY DEF TakeLine, TakeFinal, TakeClose, Goto, tasks
<1>3. \A s \in Sess : conn'[s] = conn[s] \/ conn[s] = "up"
  BY DEF TakeLine, TakeFinal, TakeClose, Hangup, asynctcp
<1>4. \A s : (Opening(s)' <=> Opening(s)) /\ (Marking(s)' <=> Marking(s))
  BY <1>2 DEF Opening, Marking
<1>5. \A s \in Sess \ contended : Placed(s)'
  BY <1>1, <1>3, <1>4 DEF PlaceInv, Placed
<1> QED
  BY <1>1, <1>2, <1>5 DEF PlaceInv

LEMMA PlaceReaper == TypeInv /\ OwnedInv /\ PlaceInv /\ Reaper => PlaceInv'
<1> SUFFICES ASSUME TypeInv, OwnedInv, PlaceInv,
                    Claim \/ Sweep \/ \E c \in Sess : ReapFinalize(c) \/ ReapClose(c)
             PROVE  PlaceInv'
  BY PlaceRelease DEF Reaper, Tasks
<1> USE Shapes
<1>1. /\ \A t \in Tasks : t # "loop" => pc'[t] = pc[t]
      /\ pc'["loop"] \in {"reap", "finalPark", "idle"} /\ on'["async"] = on["async"]
  BY DEF Claim, Sweep, ReapFinalize, ReapClose, Goto
<1>2. \A s : (Opening(s)' <=> Opening(s)) /\ (Marking(s)' <=> Marking(s))
  BY <1>1 DEF Opening, Marking
<1>3. pc'["loop"] = "idle" => toFinalize' = {}
  BY DEF Claim, Sweep, ReapFinalize, ReapClose, Goto
<1>4. contended \subseteq contended'
  BY DEF Claim, Sweep, ReapFinalize, ReapClose, history
<1>5. \A s \in Sess \ contended' : Placed(s)'
  <2>1. CASE Claim
    <3>1. UNCHANGED <<mem, conn>> /\ registry' \subseteq registry
          /\ \A s : s \in finalized' <=> s \in finalized \/ s \in registry \ registry'
      BY <2>1 DEF Claim, asynctcp
    <3> QED
      BY <1>2, <1>4, <3>1 DEF PlaceInv, Placed
  <2>2. CASE Sweep
    <3>1. UNCHANGED <<conn, registry, finalized, contended>> /\ aged \subseteq zombies
          /\ mem' = [s \in Sess |-> IF s \in aged THEN "freed" ELSE mem[s]]
      BY <2>2 DEF Sweep, asynctcp, history, TypeInv, TypeOK, BooksType
    <3>2. \A s \in Sess \ contended : s \in aged => s \in finalized
      BY <3>1 DEF OwnedInv, Owned, Untouched
    <3>3. \A s \in Sess \ contended : s \in aged => mem[s] # "none"
      BY <3>2 DEF PlaceInv, Placed
    <3>4. \A s \in Sess \ contended : (mem'[s] = "none" <=> mem[s] = "none")
      BY <3>1, <3>3
    <3> QED
      BY <1>2, <3>1, <3>4 DEF PlaceInv, Placed
  <2>3. ASSUME NEW c \in Sess, ReapFinalize(c) \/ ReapClose(c) PROVE \A s \in Sess \ contended' : Placed(s)'
    <3>1. UNCHANGED <<mem, registry, finalized, contended>>
      BY <2>3 DEF ReapFinalize, ReapClose, objects, history
    <3>2. \A s \in Sess : conn'[s] = conn[s] \/ conn[s] = "up"
      BY <2>3 DEF ReapFinalize, ReapClose, asynctcp, Hangup
    <3> QED
      BY <1>2, <3>1, <3>2 DEF PlaceInv, Placed
  <2> QED
    BY <2>1, <2>2, <2>3
<1> QED
  BY <1>1, <1>3, <1>5 DEF PlaceInv

LEMMA PlaceEnvironment == TypeInv /\ PlaceInv /\ Environment => PlaceInv'
<1> SUFFICES ASSUME TypeInv, PlaceInv, NEW c \in Sess,
                    GoQuiet(c) \/ Age(c) \/ PeerCloses(c) \/ Vanish(c)
             PROVE  PlaceInv'
  BY DEF Environment
<1> USE Shapes
<1>1. UNCHANGED <<mem, finalized, registry, toFinalize, contended, pc, on>>
  BY DEF GoQuiet, Age, PeerCloses, Vanish, objects, books, tasks, history
<1>2. \A s \in Sess : conn'[s] = conn[s] \/ conn[s] \in {"up", "down"}
  BY DEF GoQuiet, Age, PeerCloses, Vanish, asynctcp, Hangup
<1>3. \A s \in Sess \ contended : Placed(s)'
  BY <1>1, <1>2 DEF PlaceInv, Placed, Opening, Marking
<1> QED
  BY <1>1, <1>3 DEF PlaceInv

LEMMA PlaceStep == TypeInv /\ OwnedInv /\ PlaceInv /\ [Next]_vars => PlaceInv'
<1>1. PlaceInv /\ UNCHANGED vars => PlaceInv'
  BY DEF PlaceInv, Placed, Opening, Marking, vars, objects, books, tasks, asynctcp, history
<1> QED
  BY <1>1, PlaceCallbacks, PlaceAsync, PlaceWorker, PlaceReaper, PlaceEnvironment DEF Next

(***************************************************************************)
(* The slots.                                                              *)
(***************************************************************************)

(* The ways a session can hold a slot.                                     *)
Holds(s) ==
    \/ Opening(s) \/ s \in registry \/ s \in toFinalize \/ Waits(s)
    \/ \E t \in Tasks : Rel(t, s)

LEMMA HoldersHold == TypeInv /\ PlaceInv => Holders = {s \in Sess : Holds(s)}
<1> SUFFICES ASSUME TypeInv, PlaceInv PROVE Holders = {s \in Sess : Holds(s)}
  OBVIOUS
<1> USE Shapes
<1>1. Holders \subseteq Sess
  BY DEF Holders, Accepting, InQueue, InTask, Releasing
<1>2. \A s : s \in Accepting <=> Opening(s)
  BY DEF PlaceInv, Accepting, Opening
<1>3. \A s \in Sess : s \in InQueue <=> Waits(s)
  BY DEF InQueue, Queued, Waits, Final
<1>4. \A s : s \in InTask <=> \E t \in Tasks : Rel(t, s)
  BY DEF InTask, Rel
<1>5. \A s \in Sess : s \in Holders <=> Holds(s)
  BY <1>2, <1>3, <1>4 DEF Holders, Holds
<1> QED
  BY <1>1, <1>5

(* A live session that nobody has begun to finalize is in the registry.    *)
Kept == \A s \in Sess : mem[s] = "live" /\ s \notin finalized => s \in registry

SlotInv ==
    contended = {} => IsFiniteSet(Holders) /\ active = Cardinality(Holders) /\ Kept

Inv == TypeInv /\ OwnedInv /\ PlaceInv

LEMMA SlotInit == Init => SlotInv
<1> SUFFICES ASSUME Init PROVE SlotInv
  OBVIOUS
<1>1. Holders = {}
  BY DEF Init, Holders, Accepting, InQueue, Queued, InTask, Releasing
<1>2. Kept
  BY DEF Init, Kept
<1> QED
  BY <1>1, <1>2, FS_EmptySet DEF Init, SlotInv

LEMMA HoldersHoldNext == TypeInv' /\ PlaceInv' => Holders' = {s \in Sess : Holds(s)'}
<1>1. (TypeInv /\ PlaceInv => Holders = {s \in Sess : Holds(s)})'
  BY HoldersHold, PTL
<1> QED
  BY <1>1

(* The three ways a step treats the slots: it passes them on, takes one,   *)
(* or gives one back.                                                      *)
LEMMA SlotsPassOn ==
    ASSUME Inv, Inv', SlotInv, contended = {}, Kept', UNCHANGED active,
           \A s \in Sess : Holds(s)' <=> Holds(s)
    PROVE  SlotInv'
<1>1. Holders' = Holders
  BY HoldersHold, HoldersHoldNext DEF Inv
<1> QED
  BY <1>1 DEF SlotInv

LEMMA SlotTaken ==
    ASSUME Inv, Inv', SlotInv, contended = {}, Kept', NEW c \in Sess, ~Holds(c),
           active' = active + 1, \A s \in Sess : Holds(s)' <=> Holds(s) \/ s = c
    PROVE  SlotInv'
<1>1. Holders' = Holders \cup {c} /\ c \notin Holders
  BY HoldersHold, HoldersHoldNext DEF Inv
<1> QED
  BY <1>1, FS_AddElement DEF SlotInv

LEMMA SlotReturned ==
    ASSUME Inv, Inv', SlotInv, contended = {}, Kept', NEW c \in Sess, Holds(c),
           active' = IF active > 0 THEN active - 1 ELSE 0,
           \A s \in Sess : Holds(s)' <=> Holds(s) /\ s # c
    PROVE  SlotInv'
<1>1. Holders' = Holders \ {c} /\ c \in Holders
  BY HoldersHold, HoldersHoldNext DEF Inv
<1>2. /\ IsFiniteSet(Holders') /\ Cardinality(Holders') = Cardinality(Holders) - 1
      /\ Cardinality(Holders) \in Nat /\ Cardinality(Holders') \in Nat
  BY <1>1, FS_RemoveElement, FS_CardinalityType DEF SlotInv
<1> QED
  BY <1>2 DEF SlotInv

LEMMA SlotCallbacks == Inv /\ Inv' /\ SlotInv /\ Callbacks => SlotInv'
<1> SUFFICES ASSUME Inv, Inv', SlotInv, contended' = {}, NEW c \in Sess,
                    TakeSlot(c) \/ OnBytes(c) \/ OnUser(c) \/ OnPassword(c)
                      \/ OnShellLine(c) \/ OnDisconnect(c)
             PROVE  SlotInv'
  BY DEF Callbacks, SlotInv
<1>1. UNCHANGED <<mem, finalized, registry, toFinalize, contended>>
  BY DEF TakeSlot, OnBytes, OnUser, OnPassword, OnShellLine, OnDisconnect, objects, books, tasks, history
<1>2. contended = {} /\ Kept /\ Kept'
  BY <1>1 DEF SlotInv, Kept
<1> USE Shapes DEF Inv
<1>3. \A s : \A t \in Tasks : Rel(t, s)' <=> Rel(t, s)
  BY DEF TakeSlot, OnBytes, OnUser, OnPassword, OnShellLine, OnDisconnect, Receives, tasks, Goto, Rel, Releasing
<1>4. CASE TakeSlot(c)
  <2>1. /\ pc["async"] = "idle" /\ pc'["async"] = "gauge" /\ on'["async"] = c /\ mem[c] = "none"
        /\ UNCHANGED queue /\ active' = active + 1
    BY <1>4 DEF TakeSlot, Goto
  <2>2. \A s : (Opening(s)' <=> s = c) /\ ~Opening(s)
    BY <2>1 DEF Opening
  <2>3. ~Holds(c)
    BY <1>2, <2>1, <2>2 DEF PlaceInv, Placed, OwnedInv, Owned, Untouched, Holds
  <2>4. \A s \in Sess : Holds(s)' <=> Holds(s) \/ s = c
    BY <1>1, <1>3, <2>1, <2>2, QueueStays DEF Holds
  <2> QED
    BY <1>2, <2>1, <2>3, <2>4, SlotTaken
<1>5. CASE OnBytes(c) \/ OnUser(c) \/ OnPassword(c) \/ OnShellLine(c) \/ OnDisconnect(c)
  <2>1. UNCHANGED active /\ pc["async"] = "idle" /\ pc'["async"] \in {"idle", "exec", "mark"}
    BY <1>5 DEF OnBytes, OnUser, OnPassword, OnShellLine, OnDisconnect, Receives, books, tasks, Goto
  <2>2. \A s : ~Opening(s)' /\ ~Opening(s)
    BY <2>1 DEF Opening
  <2>3. \A s : Waits(s)' <=> Waits(s)
    <3>1. CASE UNCHANGED queue
      BY <3>1, QueueStays
    <3>2. CASE queue' = Append(queue, [kind |-> "line", sess |-> c, line |-> typed[c] + 1])
      <4> DEFINE j == [kind |-> "line", sess |-> c, line |-> typed[c] + 1]
      <4>1. j \in Job /\ \A s : ~Final(j, s)
        <5>1. typed[c] + 1 \in Nat
          BY DEF TypeInv, TypeOK, HistoryType
        <5> QED
          BY <5>1 DEF Job, Final
      <4> HIDE DEF j
      <4> QED
        BY <3>2, <4>1, QueueGrows DEF j
    <3> QED
      BY <1>5, <3>1, <3>2 DEF OnBytes, OnUser, OnPassword, OnShellLine, OnDisconnect, books
  <2>4. \A s \in Sess : Holds(s)' <=> Holds(s)
    BY <1>1, <1>3, <2>2, <2>3 DEF Holds
  <2> QED
    BY <1>2, <2>1, <2>4, SlotsPassOn
<1> QED
  BY <1>4, <1>5

LEMMA SlotExecute ==
    ASSUME Inv, Inv', SlotInv, NEW t \in Tasks, NEW exit \in BOOLEAN, Execute(t, exit) PROVE SlotInv'
<1> SUFFICES ASSUME contended' = {} PROVE SlotInv'
  BY DEF SlotInv
<1>1. UNCHANGED <<mem, finalized, registry, toFinalize, contended, queue, active>>
  BY DEF Execute, books
<1>2. contended = {} /\ Kept /\ Kept'
  BY <1>1 DEF SlotInv, Kept
<1> USE Shapes DEF Inv
<1>3. \A s : \A u \in Tasks : Rel(u, s)' <=> Rel(u, s)
  BY DEF Execute, Goto, Rel, Releasing
<1>4. \A s \in Sess : Opening(s)' <=> Opening(s)
  BY DEF Execute, Goto, Opening
<1>5. \A s \in Sess : Holds(s)' <=> Holds(s)
  BY <1>1, <1>3, <1>4, QueueStays DEF Holds
<1> QED
  BY <1>1, <1>2, <1>5, SlotsPassOn

LEMMA SlotRelease ==
    ASSUME Inv, Inv', SlotInv, NEW t \in Tasks, Release(t) PROVE SlotInv'
<1> SUFFICES ASSUME contended' = {} PROVE SlotInv'
  BY DEF SlotInv
<1> USE Shapes DEF Inv
<1>1. UNCHANGED <<finalized, registry, toFinalize, contended, queue>>
  BY DEF Release, Forensics, Free, Park, Dec, LoadActive, StoreGauge, books, objects, history
<1>2. \A s \in Sess : mem'[s] = "live" => mem[s] = "live"
  BY DEF Release, Forensics, Free, Park, Dec, LoadActive, StoreGauge, objects
<1>3. contended = {} /\ Kept /\ Kept'
  BY <1>1, <1>2 DEF SlotInv, Kept
<1>4. \A s \in Sess : Opening(s)' <=> Opening(s)
  BY DEF Release, Forensics, Free, Park, Dec, LoadActive, StoreGauge, Goto, Home, Opening
<1>5. CASE Forensics(t) \/ Free(t) \/ Park(t) \/ LoadActive(t) \/ StoreGauge(t)
  <2>1. UNCHANGED active /\ \A s : \A u \in Tasks : Rel(u, s)' <=> Rel(u, s)
    BY <1>5 DEF Forensics, Free, Park, LoadActive, StoreGauge, books, Goto, Home, Rel, Releasing
  <2>2. \A s \in Sess : Holds(s)' <=> Holds(s)
    BY <1>1, <1>4, <2>1, QueueStays DEF Holds
  <2> QED
    BY <1>3, <2>1, <2>2, SlotsPassOn
<1>6. CASE Dec(t)
  <2>1. /\ pc[t] = "dec" /\ on[t] \in Sess /\ Rel(t, on[t])
        /\ active' = IF active > 0 THEN active - 1 ELSE 0
    BY <1>6 DEF Dec, Rel, Releasing
  <2>2. \A s \in Sess : \A u \in Tasks : Rel(u, s)' <=> Rel(u, s) /\ u # t
    BY <1>6 DEF Dec, Goto, Rel, Releasing
  <2>3. PICK c \in Sess : c = on[t]
    BY <2>1
  <2>4. c \in finalized /\ ~Waits(c) /\ c \notin toFinalize /\ \A u \in Tasks : Rel(u, c) <=> u = t
    BY <1>3, <2>1, <2>3 DEF OwnedInv, Owned, OneOwner, Untouched
  <2>5. c \notin registry /\ ~Opening(c)
    BY <1>3, <2>4 DEF PlaceInv, Placed
  <2>6. \A s \in Sess : s # c => ~Rel(t, s)
    BY <2>3 DEF Rel
  <2>7. Holds(c) /\ \A s \in Sess : Holds(s)' <=> Holds(s) /\ s # c
    BY <1>1, <1>4, <2>2, <2>4, <2>5, <2>6, QueueStays DEF Holds
  <2> QED
    BY <1>3, <2>1, <2>7, SlotReturned
<1> QED
  BY <1>5, <1>6 DEF Release

LEMMA SlotAsync == Inv /\ Inv' /\ SlotInv /\ Async => SlotInv'
<1> SUFFICES ASSUME Inv, Inv', SlotInv, contended' = {}, PublishSlot \/ OpenSession \/ Mark \/ SendFinal
             PROVE  SlotInv'
  BY SlotRelease, SlotExecute DEF Async, Tasks, SlotInv
<1> USE Shapes DEF Inv
<1>1. UNCHANGED <<toFinalize, contended, active>>
  BY DEF PublishSlot, OpenSession, Mark, SendFinal, history
<1>2. contended = {} /\ Kept /\ IsFiniteSet(Holders) /\ active = Cardinality(Holders)
  BY <1>1 DEF SlotInv
<1>3. \A t \in Tasks : t # "async" => \A s : Rel(t, s)' <=> Rel(t, s)
  BY DEF PublishSlot, OpenSession, Mark, SendFinal, Goto, Rel
<1>4. CASE PublishSlot
  <2>1. UNCHANGED <<mem, finalized, registry, queue>>
    BY <1>4 DEF PublishSlot, objects
  <2>2. \A s : (Opening(s)' <=> Opening(s)) /\ (Rel("async", s)' <=> Rel("async", s))
    BY <1>4 DEF PublishSlot, Goto, Opening, Rel, Releasing
  <2>3. Kept' /\ \A s \in Sess : Holds(s)' <=> Holds(s)
    BY <1>1, <1>2, <1>3, <2>1, <2>2, QueueStays DEF Kept, Holds
  <2> QED
    BY <1>1, <1>2, <2>3, SlotsPassOn
<1>5. CASE OpenSession
  <2>1. /\ pc["async"] = "open" /\ on["async"] \in Sess /\ UNCHANGED <<finalized, queue>>
        /\ mem' = [mem EXCEPT ![on["async"]] = "live"] /\ pc'["async"] = "idle"
        /\ registry' = IF Cardinality(registry) < TnMax THEN registry \cup {on["async"]} ELSE registry
    BY <1>5 DEF OpenSession, Goto
  <2>2. PICK c \in Sess : c = on["async"]
    BY <2>1
  <2>3. Opening(c) /\ c \notin registry /\ c \in Holders
    BY <1>2, <2>1, <2>2, HoldersHold DEF Opening, PlaceInv, Placed, Holds
  <2>4. registry \subseteq Holders \ {c}
    BY <2>3 DEF Holders
  <2>5. Cardinality(registry) < TnMax
    <3>1. IsFiniteSet(Holders \ {c}) /\ Cardinality(Holders \ {c}) = active - 1
      BY <1>2, <2>3, FS_RemoveElement
    <3>2. IsFiniteSet(registry) /\ Cardinality(registry) <= active - 1
      BY <2>4, <3>1, FS_Subset
    <3>3. Cardinality(registry) \in Nat /\ active <= TnMax
      BY <3>2, FS_CardinalityType DEF TypeInv, TypeOK, BooksType
    <3> QED
      BY <3>2, <3>3
  <2>6. registry' = registry \cup {c}
    BY <2>1, <2>2, <2>5
  <2>7. Kept'
    BY <1>2, <2>1, <2>2, <2>6 DEF Kept
  <2>8. \A s : (Opening(s) <=> s = c) /\ ~Opening(s)' /\ ~Rel("async", s) /\ ~Rel("async", s)'
    BY <2>1, <2>2 DEF Opening, Rel, Releasing
  <2>9. \A s \in Sess : Holds(s)' <=> Holds(s)
    BY <1>1, <1>3, <2>1, <2>6, <2>8, QueueStays DEF Holds
  <2> QED
    BY <1>1, <1>2, <2>7, <2>9, SlotsPassOn
<1>6. CASE Mark
  <2>1. /\ pc["async"] = "mark" /\ on["async"] \in Sess /\ UNCHANGED <<mem, queue, on>>
        /\ finalized' = finalized \cup {on["async"]} /\ registry' = registry \ {on["async"]}
        /\ pc'["async"] = "send"
    BY <1>6 DEF Mark, Goto
  <2>2. PICK c \in Sess : c = on["async"]
    BY <2>1
  <2>3. c \notin finalized /\ mem[c] # "none" /\ mem[c] # "freed"
    BY <1>2, <2>1, <2>2 DEF OwnedInv, Owned, Untouched, PlaceInv, Placed, Marking
  <2>4. c \in registry
    BY <1>2, <2>3 DEF Kept
  <2>5. \A s : ~Opening(s)' /\ ~Opening(s) /\ ~Rel("async", s) /\ (Rel("async", s)' <=> s = c)
    BY <2>1, <2>2 DEF Opening, Rel, Releasing
  <2>6. Kept'
    BY <1>2, <2>1, <2>2 DEF Kept
  <2>7. \A s \in Sess : Holds(s)' <=> Holds(s)
    BY <1>1, <1>3, <2>1, <2>2, <2>4, <2>5, QueueStays DEF Holds
  <2> QED
    BY <1>1, <1>2, <2>6, <2>7, SlotsPassOn
<1>7. CASE SendFinal
  <2>1. /\ pc["async"] = "send" /\ on["async"] \in Sess /\ UNCHANGED <<mem, finalized, registry>>
    BY <1>7 DEF SendFinal, objects
  <2>2. Kept'
    BY <1>2, <2>1 DEF Kept
  <2>3. PICK c \in Sess : c = on["async"]
    BY <2>1
  <2>4. CASE Room
    <3> DEFINE j == [kind |-> "final", sess |-> c, line |-> 0]
    <3>1. j \in Job /\ \A s : Final(j, s) <=> s = c
      BY DEF Job, Final
    <3>2. queue' = Append(queue, j) /\ pc'["async"] = "idle"
      BY <1>7, <2>3, <2>4 DEF SendFinal, Goto
    <3> HIDE DEF j
    <3>3. \A s : Waits(s)' <=> Waits(s) \/ s = c
      BY <3>1, <3>2, QueueGrows
    <3>4. \A s : ~Opening(s)' /\ ~Opening(s) /\ ~Rel("async", s)' /\ (Rel("async", s) <=> s = c)
      BY <2>1, <2>3, <3>2 DEF Opening, Rel, Releasing
    <3>5. \A s \in Sess : Holds(s)' <=> Holds(s)
      BY <1>1, <1>3, <2>1, <3>3, <3>4 DEF Holds
    <3> QED
      BY <1>1, <1>2, <2>2, <3>5, SlotsPassOn
  <2>5. CASE ~Room
    <3>1. UNCHANGED <<queue, on>> /\ pc'["async"] = "finalFree"
      BY <1>7, <2>5 DEF SendFinal, Goto
    <3>2. \A s : ~Opening(s)' /\ ~Opening(s) /\ (Rel("async", s)' <=> Rel("async", s))
      BY <2>1, <3>1 DEF Opening, Rel, Releasing
    <3>3. \A s \in Sess : Holds(s)' <=> Holds(s)
      BY <1>1, <1>3, <2>1, <3>1, <3>2, QueueStays DEF Holds
    <3> QED
      BY <1>1, <1>2, <2>2, <3>3, SlotsPassOn
  <2> QED
    BY <2>4, <2>5
<1> QED
  BY <1>4, <1>5, <1>6, <1>7

LEMMA SlotWorker == Inv /\ Inv' /\ SlotInv /\ Worker => SlotInv'
<1> SUFFICES ASSUME Inv, Inv', SlotInv, contended' = {}, TakeLine \/ TakeFinal \/ TakeClose
             PROVE  SlotInv'
  BY SlotRelease, SlotExecute DEF Worker, Tasks, SlotInv
<1> USE Shapes DEF Inv
<1>1. /\ UNCHANGED <<toFinalize, contended, active, mem, finalized, registry>>
      /\ pc["worker"] = "idle" /\ queue # <<>> /\ queue' = Tail(queue)
  BY DEF TakeLine, TakeFinal, TakeClose, objects, tasks, history
<1>2. contended = {} /\ Kept /\ Kept'
  BY <1>1 DEF SlotInv, Kept
<1>3. /\ \A t \in Tasks : t # "worker" => \A s : Rel(t, s)' <=> Rel(t, s)
      /\ \A s : (Opening(s)' <=> Opening(s)) /\ ~Rel("worker", s)
  BY <1>1 DEF TakeLine, TakeFinal, TakeClose, Goto, Rel, Releasing, Opening, tasks
<1>4. \A s : Waits(s) <=> (Waits(s)' \/ Final(Head(queue), s))
  BY <1>1, QueueShrinks
<1>5. \A s \in Sess : Rel("worker", s)' <=> Final(Head(queue), s)
  <2>1. CASE TakeLine \/ TakeClose
    BY <1>1, <2>1 DEF TakeLine, TakeClose, Goto, Rel, Releasing, Final, tasks
  <2>2. CASE TakeFinal
    BY <2>2 DEF TakeFinal, Goto, Rel, Releasing, Final
  <2> QED
    BY <2>1, <2>2
<1>6. \A s \in Sess : Holds(s)' <=> Holds(s)
  BY <1>1, <1>3, <1>4, <1>5 DEF Holds
<1> QED
  BY <1>1, <1>2, <1>6, SlotsPassOn

LEMMA SlotReaper == Inv /\ Inv' /\ SlotInv /\ Reaper => SlotInv'
<1> SUFFICES ASSUME Inv, Inv', SlotInv, contended' = {},
                    Claim \/ Sweep \/ \E c \in Sess : ReapFinalize(c) \/ ReapClose(c)
             PROVE  SlotInv'
  BY SlotRelease DEF Reaper, Tasks, SlotInv
<1> USE Shapes DEF Inv
<1>1. UNCHANGED active /\ contended = {}
  BY DEF Claim, Sweep, ReapFinalize, ReapClose, history
<1>2. Kept
  BY <1>1 DEF SlotInv
<1>3. /\ \A t \in Tasks : t # "loop" => \A s : Rel(t, s)' <=> Rel(t, s)
      /\ \A s : (Opening(s)' <=> Opening(s)) /\ ~Rel("loop", s)
  BY DEF Claim, Sweep, ReapFinalize, ReapClose, Goto, Rel, Releasing, Opening
<1>4. CASE Claim
  <2>1. /\ UNCHANGED <<mem, queue>> /\ toFinalize = {} /\ toFinalize' \subseteq registry
        /\ finalized' = finalized \cup toFinalize' /\ registry' = registry \ toFinalize'
    BY <1>4 DEF Claim, PlaceInv
  <2>2. \A s : ~Rel("loop", s)'
    BY <1>4 DEF Claim, Goto, Rel, Releasing
  <2>3. Kept'
    BY <1>2, <2>1 DEF Kept
  <2>4. \A s \in Sess : Holds(s)' <=> Holds(s)
    BY <1>3, <2>1, <2>2, QueueStays DEF Holds
  <2> QED
    BY <1>1, <2>3, <2>4, SlotsPassOn
<1>5. CASE Sweep
  <2>1. /\ UNCHANGED <<queue, toFinalize, finalized, registry>>
        /\ \A s \in Sess : mem'[s] = "live" => mem[s] = "live"
    BY <1>5 DEF Sweep
  <2>2. \A s : ~Rel("loop", s)'
    BY <1>5 DEF Sweep, Goto, Rel, Releasing
  <2>3. Kept'
    BY <1>2, <2>1 DEF Kept
  <2>4. \A s \in Sess : Holds(s)' <=> Holds(s)
    BY <1>3, <2>1, <2>2, QueueStays DEF Holds
  <2> QED
    BY <1>1, <2>3, <2>4, SlotsPassOn
<1>6. ASSUME NEW c \in Sess, ReapFinalize(c) PROVE SlotInv'
  <2>1. /\ UNCHANGED <<mem, finalized, registry>> /\ c \in toFinalize /\ toFinalize' = toFinalize \ {c}
        /\ pc["loop"] = "reap"
    BY <1>6 DEF ReapFinalize, objects
  <2>2. Kept'
    BY <1>2, <2>1 DEF Kept
  <2>3. CASE Room
    <3> DEFINE j == [kind |-> "stuck", sess |-> c, line |-> 0]
    <3>1. j \in Job /\ \A s : Final(j, s) <=> s = c
      BY DEF Job, Final
    <3>2. queue' = Append(queue, j)
      BY <1>6, <2>3 DEF ReapFinalize
    <3> HIDE DEF j
    <3>3. \A s : Waits(s)' <=> Waits(s) \/ s = c
      BY <3>1, <3>2, QueueGrows
    <3>4. \A s : ~Rel("loop", s)'
      BY <1>6, <2>1, <2>3 DEF ReapFinalize, Rel, Releasing
    <3>5. \A s \in Sess : Holds(s)' <=> Holds(s)
      BY <1>3, <2>1, <3>3, <3>4 DEF Holds
    <3> QED
      BY <1>1, <2>2, <3>5, SlotsPassOn
  <2>4. CASE ~Room
    <3>1. UNCHANGED queue /\ \A s : Rel("loop", s)' <=> s = c
      BY <1>6, <2>4 DEF ReapFinalize, Goto, Rel, Releasing
    <3>2. \A s \in Sess : Holds(s)' <=> Holds(s)
      BY <1>3, <2>1, <3>1, QueueStays DEF Holds
    <3> QED
      BY <1>1, <2>2, <3>2, SlotsPassOn
  <2> QED
    BY <2>3, <2>4
<1>7. ASSUME NEW c \in Sess, ReapClose(c) PROVE SlotInv'
  <2>1. UNCHANGED <<mem, finalized, registry, toFinalize, pc, on>>
    BY <1>7 DEF ReapClose, objects
  <2>2. Kept' /\ \A t \in Tasks : \A s : Rel(t, s)' <=> Rel(t, s)
    BY <1>2, <2>1 DEF Kept, Rel
  <2>3. \A s : Waits(s)' <=> Waits(s)
    <3>1. CASE UNCHANGED queue
      BY <3>1, QueueStays
    <3>2. CASE queue' = Append(queue, [kind |-> "close", sess |-> c, line |-> 0])
      <4> DEFINE j == [kind |-> "close", sess |-> c, line |-> 0]
      <4>1. j \in Job /\ \A s : ~Final(j, s)
        BY DEF Job, Final
      <4> HIDE DEF j
      <4> QED
        BY <3>2, <4>1, QueueGrows DEF j
    <3> QED
      BY <1>7, <3>1, <3>2 DEF ReapClose
  <2>4. \A s \in Sess : Holds(s)' <=> Holds(s)
    BY <1>3, <2>1, <2>2, <2>3 DEF Holds
  <2> QED
    BY <1>1, <2>2, <2>4, SlotsPassOn
<1> QED
  BY <1>4, <1>5, <1>6, <1>7

LEMMA SlotNothing ==
    ASSUME Inv, Inv', SlotInv, UNCHANGED <<queue, toFinalize, finalized, registry, active, mem, contended, pc, on>>
    PROVE  SlotInv'
<1> SUFFICES ASSUME contended = {} PROVE SlotInv'
  BY DEF SlotInv
<1>1. Kept'
  BY DEF SlotInv, Kept
<1>2. \A s \in Sess : Holds(s)' <=> Holds(s)
  BY QueueStays DEF Holds, Opening, Rel
<1> QED
  BY <1>1, <1>2, SlotsPassOn

LEMMA SlotStep == Inv /\ Inv' /\ SlotInv /\ [Next]_vars => SlotInv'
<1>1. Inv /\ Inv' /\ SlotInv /\ Environment => SlotInv'
  BY SlotNothing
     DEF Environment, GoQuiet, Age, PeerCloses, Vanish, objects, books, tasks, history
<1>2. Inv /\ Inv' /\ SlotInv /\ UNCHANGED vars => SlotInv'
  BY SlotNothing DEF vars, objects, books, tasks, history
<1> QED
  BY <1>1, <1>2, SlotCallbacks, SlotAsync, SlotWorker, SlotReaper DEF Next

(* As long as no session was claimed inside tn_finalize or deleted while   *)
(* it was held, s_active is the number of sessions somebody will still     *)
(* release: however the tasks interleave and however full the queue is, no *)
(* slot leaks and none is given back twice.                                *)
THEOREM SlotsAreAccounted == Spec => []SlotsAccounted
<1>1. SlotInv => SlotsAccounted
  BY DEF SlotInv, SlotsAccounted
<1>2. Init => Inv /\ SlotInv
  BY TypeInit, OwnedInit, PlaceInit, SlotInit DEF Inv
<1>3. Inv /\ [Next]_vars => Inv'
  BY TypeStep, OwnedStep, PlaceStep DEF Inv
<1>4. Inv /\ SlotInv /\ [Next]_vars => Inv' /\ SlotInv'
  BY <1>3, SlotStep
<1> QED
  BY <1>1, <1>2, <1>4, PTL DEF Spec

(***************************************************************************)
(* Sessions that neither the reaper's race nor a full queue touched.       *)
(***************************************************************************)

LEMMA RegularShrinks == Next => Regular' \subseteq Regular
<1> SUFFICES ASSUME Next
             PROVE  contended \subseteq contended' /\ inlined \subseteq inlined' /\ hasty \subseteq hasty'
  BY DEF Regular
<1> USE DEF books, history
<1>1. CASE Callbacks
  BY <1>1 DEF Callbacks, TakeSlot, OnBytes, OnUser, OnPassword, OnShellLine, OnDisconnect
<1>2. ASSUME NEW t \in Tasks, Release(t) PROVE UNCHANGED <<contended, inlined, hasty>>
  BY <1>2 DEF Release, Forensics, Free, Park, Dec, LoadActive, StoreGauge
<1>3. ASSUME NEW t \in Tasks, NEW exit \in BOOLEAN, Execute(t, exit) PROVE UNCHANGED <<contended, inlined, hasty>>
  BY <1>3 DEF Execute
<1>4. CASE Async
  BY <1>2, <1>3, <1>4 DEF Async, Tasks, PublishSlot, OpenSession, Mark, SendFinal
<1>5. CASE Worker
  BY <1>2, <1>3, <1>5 DEF Worker, Tasks, TakeLine, TakeFinal, TakeClose
<1>6. CASE Reaper
  BY <1>2, <1>6 DEF Reaper, Tasks, Claim, Sweep, ReapFinalize, ReapClose
<1>7. CASE Environment
  BY <1>7 DEF Environment, GoQuiet, Age, PeerCloses, Vanish
<1> QED
  BY <1>1, <1>4, <1>5, <1>6, <1>7 DEF Next

(* Which task may have such a session in hand, and at what.                *)
Seats(s) ==
    /\ on["loop"] # s
    /\ on["async"] = s => pc["async"] \in {"gauge", "open", "mark", "send"}
    /\ on["worker"] = s =>
           pc["worker"] \in {"exec", "finalFree", "finalPark", "free", "park", "dec"}

SeatInv == \A s \in Regular : Seats(s)

LEMMA SeatInit == Init => SeatInv
  BY SessionAssumption DEF Init, SeatInv, Seats, Regular, Tasks

LEMMA SeatStep == TypeInv /\ SeatInv /\ [Next]_vars => SeatInv'
<1>0. SeatInv /\ UNCHANGED vars => SeatInv'
  BY DEF SeatInv, Seats, Regular, vars, books, tasks, history
<1> SUFFICES ASSUME TypeInv, SeatInv, Next, NEW s \in Regular' PROVE Seats(s)'
  BY <1>0 DEF SeatInv
<1> USE Shapes
<1>1. Seats(s) /\ s \in Sess /\ s # NoSess /\ s \notin inlined'
  BY RegularShrinks, SessionAssumption DEF SeatInv, Regular
<1>2. CASE Callbacks
  BY <1>1, <1>2 DEF Callbacks, TakeSlot, OnBytes, OnUser, OnPassword, OnShellLine, OnDisconnect, Receives,
                    tasks, Goto, Seats
<1>3. ASSUME NEW t \in Tasks, Release(t) PROVE Seats(s)'
  <2>1. CASE Forensics(t) \/ Free(t) \/ Park(t)
    BY <1>1, <2>1 DEF Forensics, Free, Park, Goto, Seats
  <2>2. CASE Dec(t) \/ LoadActive(t) \/ StoreGauge(t)
    BY <1>1, <2>2 DEF Dec, LoadActive, StoreGauge, Goto, Home, Seats
  <2> QED
    BY <1>3, <2>1, <2>2 DEF Release
<1>4. ASSUME NEW t \in Tasks, NEW exit \in BOOLEAN, Execute(t, exit) PROVE Seats(s)'
  BY <1>1, <1>4 DEF Execute, Goto, Seats
<1>5. CASE PublishSlot \/ OpenSession \/ Mark \/ SendFinal
  BY <1>1, <1>5 DEF PublishSlot, OpenSession, Mark, SendFinal, Goto, Seats
<1>6. CASE TakeLine \/ TakeFinal \/ TakeClose
  BY <1>1, <1>6 DEF TakeLine, TakeFinal, TakeClose, tasks, Goto, Seats
<1>7. CASE Claim \/ Sweep \/ \E c \in Sess : ReapFinalize(c) \/ ReapClose(c)
  <2>1. \A t \in Tasks : t # "loop" => pc'[t] = pc[t] /\ on'[t] = on[t]
    <3>1. CASE Claim \/ Sweep
      BY <3>1 DEF Claim, Sweep, Goto
    <3>2. ASSUME NEW c \in Sess, ReapFinalize(c) \/ ReapClose(c)
          PROVE  \A t \in Tasks : t # "loop" => pc'[t] = pc[t] /\ on'[t] = on[t]
      <4>1. UNCHANGED <<pc, on>> \/ (Goto("loop", "finalPark") /\ on' = [on EXCEPT !["loop"] = c])
        BY <3>2 DEF ReapFinalize, ReapClose
      <4> QED
        BY <4>1 DEF Goto
    <3> QED
      BY <1>7, <3>1, <3>2
  <2>2. on'["loop"] = on["loop"] \/ on'["loop"] \in inlined'
    <3>1. CASE Claim \/ Sweep
      BY <3>1 DEF Claim, Sweep
    <3>2. ASSUME NEW c \in Sess, ReapFinalize(c) \/ ReapClose(c)
          PROVE  on'["loop"] = on["loop"] \/ on'["loop"] \in inlined'
      <4>1. UNCHANGED on \/ (inlined' = inlined \cup {c} /\ on' = [on EXCEPT !["loop"] = c])
        BY <3>2 DEF ReapFinalize, ReapClose
      <4> QED
        BY <4>1
    <3> QED
      BY <1>7, <3>1, <3>2
  <2> QED
    BY <1>1, <2>1, <2>2 DEF Seats
<1>8. CASE Environment
  BY <1>1, <1>8 DEF Environment, GoQuiet, Age, PeerCloses, Vanish, tasks, Seats
<1> QED
  BY <1>2, <1>3, <1>4, <1>5, <1>6, <1>7, <1>8 DEF Next, Async, Worker, Reaper, Tasks

(***************************************************************************)
(* The lines in the queue.                                                 *)
(***************************************************************************)

Line(j, s) == j.sess = s /\ j.kind = "line"
Last(j, s) == j.sess = s /\ j.kind = "final"

(* The lines of a session that wait, and that they wait in the order they  *)
(* came and none behind the session's end.                                 *)
Pending(s)   == {queue[i].line : i \in {j \in DOMAIN queue : Line(queue[j], s)}}
LinesRise(s) == \A i, j \in DOMAIN queue :
                    i < j /\ Line(queue[i], s) /\ Line(queue[j], s) => queue[i].line < queue[j].line
HasLast(s)   == \E i \in DOMAIN queue : Last(queue[i], s)
LastIsLast(s) == \A i, j \in DOMAIN queue : i < j /\ Last(queue[i], s) => ~Line(queue[j], s)

LEMMA LinesStay ==
    ASSUME UNCHANGED queue, NEW s
    PROVE  /\ Pending(s)' = Pending(s) /\ (LinesRise(s)' <=> LinesRise(s))
           /\ (HasLast(s)' <=> HasLast(s)) /\ (LastIsLast(s)' <=> LastIsLast(s))
  BY DEF Pending, LinesRise, HasLast, LastIsLast

LEMMA LinesGrow ==
    ASSUME queue \in Seq(Job), NEW j \in Job, queue' = Append(queue, j), NEW s
    PROVE  /\ Pending(s)' = IF Line(j, s) THEN Pending(s) \cup {j.line} ELSE Pending(s)
           /\ LinesRise(s) /\ (Line(j, s) => \A p \in Pending(s) : p < j.line) => LinesRise(s)'
           /\ HasLast(s)' <=> HasLast(s) \/ Last(j, s)
           /\ LastIsLast(s) /\ (Line(j, s) => ~HasLast(s)) => LastIsLast(s)'
<1>1. /\ DOMAIN queue = 1 .. Len(queue) /\ DOMAIN queue' = 1 .. (Len(queue) + 1)
      /\ \A i \in 1 .. Len(queue) : queue'[i] = queue[i]
      /\ queue'[Len(queue) + 1] = j /\ Len(queue) \in Nat
  OBVIOUS
<1>2. \A i \in DOMAIN queue' : i \in DOMAIN queue \/ i = Len(queue) + 1
  BY <1>1
<1>3. Pending(s)' = IF Line(j, s) THEN Pending(s) \cup {j.line} ELSE Pending(s)
  BY <1>1, <1>2 DEF Pending
<1>4. LinesRise(s) /\ (Line(j, s) => \A p \in Pending(s) : p < j.line) => LinesRise(s)'
  <2> SUFFICES ASSUME LinesRise(s), Line(j, s) => \A p \in Pending(s) : p < j.line,
                      NEW a \in DOMAIN queue', NEW b \in DOMAIN queue', a < b,
                      Line(queue'[a], s), Line(queue'[b], s)
               PROVE  queue'[a].line < queue'[b].line
    BY DEF LinesRise
  <2>1. a \in DOMAIN queue /\ queue'[a] = queue[a]
    BY <1>1
  <2>2. CASE b \in DOMAIN queue
    BY <1>1, <2>1, <2>2 DEF LinesRise
  <2>3. CASE b = Len(queue) + 1
    <3>1. Line(j, s) /\ queue[a].line \in Pending(s)
      BY <1>1, <2>1, <2>3 DEF Pending
    <3> QED
      BY <1>1, <2>1, <2>3, <3>1
  <2> QED
    BY <1>2, <2>2, <2>3
<1>5. HasLast(s)' <=> HasLast(s) \/ Last(j, s)
  BY <1>1, <1>2 DEF HasLast
<1>6. LastIsLast(s) /\ (Line(j, s) => ~HasLast(s)) => LastIsLast(s)'
  <2> SUFFICES ASSUME LastIsLast(s), Line(j, s) => ~HasLast(s),
                      NEW a \in DOMAIN queue', NEW b \in DOMAIN queue', a < b, Last(queue'[a], s)
               PROVE  ~Line(queue'[b], s)
    BY DEF LastIsLast
  <2>1. a \in DOMAIN queue /\ queue'[a] = queue[a]
    BY <1>1
  <2>2. CASE b \in DOMAIN queue
    BY <1>1, <2>1, <2>2 DEF LastIsLast
  <2>3. CASE b = Len(queue) + 1
    BY <1>1, <2>1, <2>3 DEF HasLast
  <2> QED
    BY <1>2, <2>2, <2>3
<1> QED
  BY <1>3, <1>4, <1>5, <1>6

LEMMA LinesShrink ==
    ASSUME queue \in Seq(Job), queue # <<>>, queue' = Tail(queue), NEW s
    PROVE  /\ Pending(s) = IF Line(Head(queue), s) THEN Pending(s)' \cup {Head(queue).line} ELSE Pending(s)'
           /\ LinesRise(s) => LinesRise(s)'
           /\ LinesRise(s) /\ Line(Head(queue), s) => \A p \in Pending(s)' : Head(queue).line < p
           /\ HasLast(s) <=> HasLast(s)' \/ Last(Head(queue), s)
           /\ LastIsLast(s) => LastIsLast(s)'
           /\ LastIsLast(s) /\ Last(Head(queue), s) => Pending(s)' = {} /\ Pending(s) = {}
<1>1. /\ DOMAIN queue = 1 .. Len(queue) /\ DOMAIN queue' = 1 .. (Len(queue) - 1)
      /\ \A i \in 1 .. (Len(queue) - 1) : queue'[i] = queue[i + 1]
      /\ Head(queue) = queue[1] /\ Len(queue) \in Nat \ {0}
  OBVIOUS
<1>2. \A i \in DOMAIN queue : i # 1 => i - 1 \in DOMAIN queue' /\ queue'[i - 1] = queue[i]
  BY <1>1
<1>3. \A i \in DOMAIN queue' : i \in Int /\ i + 1 \in DOMAIN queue /\ 1 < i + 1 /\ queue'[i] = queue[i + 1]
  BY <1>1
<1>4. 1 \in DOMAIN queue /\ queue[1] = Head(queue)
  BY <1>1
<1>5. Pending(s) = IF Line(Head(queue), s) THEN Pending(s)' \cup {Head(queue).line} ELSE Pending(s)'
  <2>1. ASSUME NEW p \in Pending(s) PROVE p \in Pending(s)' \/ (Line(Head(queue), s) /\ p = Head(queue).line)
    <3>1. PICK i \in DOMAIN queue : Line(queue[i], s) /\ p = queue[i].line
      BY DEF Pending
    <3> QED
      BY <1>2, <1>4, <3>1 DEF Pending
  <2>2. ASSUME NEW p \in Pending(s)' PROVE p \in Pending(s)
    <3>1. PICK i \in DOMAIN queue' : Line(queue'[i], s) /\ p = queue'[i].line
      BY DEF Pending
    <3> QED
      BY <1>3, <3>1 DEF Pending
  <2>3. Line(Head(queue), s) => Head(queue).line \in Pending(s)
    BY <1>4 DEF Pending
  <2> QED
    BY <2>1, <2>2, <2>3
<1>6. LinesRise(s) => LinesRise(s)'
  BY <1>3 DEF LinesRise
<1>7. LinesRise(s) /\ Line(Head(queue), s) => \A p \in Pending(s)' : Head(queue).line < p
  BY <1>3, <1>4 DEF LinesRise, Pending
<1>8. HasLast(s) <=> HasLast(s)' \/ Last(Head(queue), s)
  BY <1>2, <1>3, <1>4 DEF HasLast
<1>9. LastIsLast(s) => LastIsLast(s)'
  BY <1>3 DEF LastIsLast
<1>10. LastIsLast(s) /\ Last(Head(queue), s) => Pending(s)' = {}
  BY <1>3, <1>4 DEF LastIsLast, Pending
<1>11. Last(Head(queue), s) => ~Line(Head(queue), s)
  BY DEF Last, Line
<1> QED
  BY <1>5, <1>6, <1>7, <1>8, <1>9, <1>10, <1>11

(***************************************************************************)
(* Commands.                                                               *)
(***************************************************************************)

Executing(s) == on["worker"] = s /\ pc["worker"] = "exec"

(* The number of the next line to start.                                   *)
NextLine(s) == Len(ran[s]) + (IF Executing(s) THEN 2 ELSE 1)

(* What ran are the first lines typed, what runs is the next, and what     *)
(* waits are, until the session is finalized, all the others; when the     *)
(* attack is appended nothing runs and nothing will.                       *)
Orderly(s) ==
    /\ LinesRise(s) /\ \A p \in Pending(s) : p <= typed[s]
    /\ \A k \in DOMAIN ran[s] : ran[s][k] = k
    /\ Executing(s) => val["worker"] = Len(ran[s]) + 1
    /\ NextLine(s) <= typed[s] + 1
    /\ s \notin finalized => Pending(s) = NextLine(s) .. typed[s]
    /\ logged[s] > 0 => ~Executing(s) /\ counted[s] = Len(ran[s])

OrderInv == \A s \in Regular : Orderly(s)

LEMMA Counts ==
    ASSUME TypeInv
    PROVE  /\ typed \in [Sess -> Nat] /\ logged \in [Sess -> Nat] /\ counted \in [Sess -> Nat]
           /\ ran \in [Sess -> Seq(Nat)] /\ val \in [Tasks -> Nat]
           /\ \A s : Pending(s) \subseteq Nat
<1>1. ASSUME NEW s, NEW i \in DOMAIN queue PROVE queue[i].line \in Nat
  <2>1. queue \in Seq(Job)
    BY DEF TypeInv, TypeOK, BooksType
  <2>2. queue[i] \in Job
    BY <2>1
  <2> QED
    BY <2>2 DEF Job
<1> QED
  BY <1>1 DEF TypeInv, TypeOK, HistoryType, TasksType, Pending

LEMMA OrderInit == Init => OrderInv
<1> SUFFICES ASSUME Init, NEW s \in Regular PROVE Orderly(s)
  BY DEF OrderInv
<1>1. Pending(s) = {} /\ LinesRise(s) /\ s \in Sess
  BY DEF Init, Pending, LinesRise, Regular
<1>2. ran[s] = <<>> /\ typed[s] = 0 /\ logged[s] = 0 /\ ~Executing(s)
  BY <1>1 DEF Init, Executing, Tasks
<1>3. NextLine(s) = 1
  BY <1>2 DEF NextLine
<1> QED
  BY <1>1, <1>2, <1>3 DEF Orderly

LEMMA OrderlyStays ==
    ASSUME NEW s, Orderly(s), LinesRise(s)', Pending(s)' \subseteq Pending(s),
           s \in finalized \/ Pending(s)' = Pending(s), finalized \subseteq finalized',
           typed'[s] = typed[s], UNCHANGED <<ran, logged, counted>>,
           Executing(s)' <=> Executing(s), Executing(s) => val'["worker"] = val["worker"]
    PROVE  Orderly(s)'
<1>1. NextLine(s)' = NextLine(s)
  BY DEF NextLine
<1> QED
  BY <1>1 DEF Orderly

LEMMA NumbersTyped ==
    ASSUME TypeInv, NEW s \in Sess
    PROVE  /\ typed[s] \in Nat /\ ran[s] \in Seq(Nat) /\ Len(ran[s]) \in Nat
           /\ NextLine(s) \in Nat /\ val["worker"] \in Nat /\ logged[s] \in Nat
           /\ \A q \in Pending(s) : q \in Nat
<1>1. typed[s] \in Nat /\ ran[s] \in Seq(Nat) /\ val["worker"] \in Nat /\ logged[s] \in Nat
  BY Counts DEF Tasks
<1>2. Len(ran[s]) \in Nat
  BY <1>1
<1> QED
  BY <1>1, <1>2, Counts DEF NextLine

LEMMA OrderCallbacks == TypeInv /\ OrderInv /\ Callbacks /\ Regular' \subseteq Regular => OrderInv'
<1> SUFFICES ASSUME TypeInv, OrderInv, NEW c \in Sess, NEW s \in Sess, Orderly(s), s \notin inlined',
                    TakeSlot(c) \/ OnBytes(c) \/ OnUser(c) \/ OnPassword(c)
                      \/ OnShellLine(c) \/ OnDisconnect(c)
             PROVE  Orderly(s)'
  BY DEF Callbacks, OrderInv, Regular
<1> USE Shapes, Counts
<1>1. UNCHANGED <<ran, logged, counted, finalized>>
  BY DEF TakeSlot, OnBytes, OnUser, OnPassword, OnShellLine, OnDisconnect, objects, history
<1>2. on'["worker"] = on["worker"] /\ pc'["worker"] = pc["worker"] /\ val'["worker"] = val["worker"]
  BY DEF TakeSlot, OnBytes, OnUser, OnPassword, OnShellLine, OnDisconnect, tasks, Goto
<1>3. (Executing(s)' <=> Executing(s)) /\ val'["worker"] = val["worker"]
  BY <1>2 DEF Executing
<1>4. CASE UNCHANGED <<queue, typed>>
  BY <1>1, <1>3, <1>4, LinesStay, OrderlyStays DEF Orderly
<1>5. CASE OnShellLine(c)
  <2>1. typed' = [typed EXCEPT ![c] = @ + 1] /\ typed[c] + 1 \in Nat
    BY <1>5 DEF OnShellLine
  <2>2. CASE inlined' = inlined \cup {c} /\ UNCHANGED queue
    <3>1. typed'[s] = typed[s]
      BY <2>1, <2>2
    <3> QED
      BY <1>1, <1>3, <2>2, <3>1, LinesStay, OrderlyStays DEF Orderly
  <2>3. CASE queue' = Append(queue, [kind |-> "line", sess |-> c, line |-> typed[c] + 1])
    <3> DEFINE j == [kind |-> "line", sess |-> c, line |-> typed[c] + 1]
    <3>1. j \in Job /\ (Line(j, s) <=> s = c) /\ j.line = typed[c] + 1
      BY <2>1 DEF Job, Line
    <3> HIDE DEF j
    <3>2. /\ typed[s] \in Nat /\ NextLine(s) \in Nat /\ NextLine(s) <= typed[s] + 1
          /\ \A q \in Pending(s) : q \in Nat /\ q <= typed[s]
      BY NumbersTyped DEF Orderly
    <3>3. Line(j, s) => j.line = typed[s] + 1 /\ \A q \in Pending(s) : q < j.line
      BY <3>1, <3>2
    <3>4. LinesRise(s)' /\ Pending(s)' = IF Line(j, s) THEN Pending(s) \cup {j.line} ELSE Pending(s)
      BY <2>3, <3>1, <3>3, LinesGrow DEF j, Orderly
    <3>5. CASE s = c
      <4>1. Pending(s)' = Pending(s) \cup {typed[s] + 1} /\ typed'[s] = typed[s] + 1
        BY <2>1, <3>1, <3>3, <3>4, <3>5
      <4>2. NextLine(s)' = NextLine(s)
        BY <1>1, <1>3 DEF NextLine
      <4>3. \A q \in Pending(s)' : q <= typed'[s]
        BY <3>2, <4>1
      <4>4. Pending(s) = NextLine(s) .. typed[s] => Pending(s)' = NextLine(s)' .. typed'[s]
        BY <3>2, <4>1, <4>2
      <4>5. NextLine(s)' <= typed'[s] + 1
        BY <3>2, <4>1, <4>2
      <4> QED
        BY <1>1, <1>3, <3>4, <4>3, <4>4, <4>5 DEF Orderly
    <3>6. CASE s # c
      <4>1. Pending(s)' = Pending(s) /\ typed'[s] = typed[s]
        BY <2>1, <3>1, <3>4, <3>6
      <4> QED
        BY <1>1, <1>3, <3>4, <4>1, OrderlyStays
    <3> QED
      BY <3>5, <3>6
  <2> QED
    BY <1>5, <2>2, <2>3 DEF OnShellLine
<1> QED
  BY <1>4, <1>5 DEF TakeSlot, OnBytes, OnUser, OnPassword, OnDisconnect, books, history

LEMMA Appended ==
    ASSUME NEW r \in Seq(Nat), NEW v \in Nat, v = Len(r) + 1, \A k \in DOMAIN r : r[k] = k
    PROVE  /\ Len(Append(r, v)) = Len(r) + 1
           /\ \A k \in DOMAIN Append(r, v) : Append(r, v)[k] = k
  OBVIOUS

LEMMA OrderExecute ==
    ASSUME TypeInv, SeatInv, OrderInv, NEW t \in Tasks, NEW exit \in BOOLEAN, Execute(t, exit)
    PROVE  OrderInv'
<1>1. UNCHANGED <<queue, typed, finalized, logged, counted, contended, inlined, hasty>>
  BY DEF Execute, books
<1> SUFFICES ASSUME NEW s \in Regular, Orderly(s), Seats(s) PROVE Orderly(s)'
  BY <1>1 DEF OrderInv, SeatInv, Regular
<1> USE Shapes, Counts
<1>2. s \in Sess /\ s # NoSess /\ pc[t] = "exec" /\ ran' = [ran EXCEPT ![on[t]] = Append(@, val[t])]
  BY SessionAssumption DEF Execute, Regular
<1>3. Pending(s)' = Pending(s) /\ LinesRise(s)'
  BY <1>1, LinesStay DEF Orderly
<1>4. CASE on[t] = s
  <2>1. t = "worker" /\ Executing(s)
    BY <1>2, <1>4 DEF Seats, Executing, Tasks
  <2>2. ~Executing(s)'
    BY <1>2, <2>1 DEF Execute, Executing, Goto
  <2>3. logged[s] = 0 /\ logged'[s] = 0
    BY <1>1, <1>2, <2>1 DEF Orderly
  <2>4. ran'[s] = Append(ran[s], val["worker"])
    BY <1>2, <1>4, <2>1, Counts
  <2>5. /\ ran[s] \in Seq(Nat) /\ val["worker"] \in Nat /\ val["worker"] = Len(ran[s]) + 1
        /\ \A k \in DOMAIN ran[s] : ran[s][k] = k
    BY <1>2, <2>1, NumbersTyped DEF Orderly
  <2>6. Len(ran'[s]) = Len(ran[s]) + 1 /\ \A k \in DOMAIN ran'[s] : ran'[s][k] = k
    BY <2>4, <2>5, Appended
  <2>7. NextLine(s)' = NextLine(s)
    <3>1. Len(ran[s]) \in Nat
      BY <2>5
    <3>2. NextLine(s)' = Len(ran[s]) + 1 + 1 /\ NextLine(s) = Len(ran[s]) + 2
      BY <2>1, <2>2, <2>6 DEF NextLine
    <3> QED
      BY <3>1, <3>2
  <2>8. typed'[s] = typed[s] /\ ~(logged'[s] > 0)
    BY <1>1, <2>3
  <2> QED
    BY <1>1, <1>3, <2>2, <2>6, <2>7, <2>8 DEF Orderly
<1>5. CASE on[t] # s
  <2>1. ran'[s] = ran[s]
    BY <1>2, <1>5
  <2>2. (Executing(s)' <=> Executing(s)) /\ (Executing(s) => val'["worker"] = val["worker"])
    BY <1>2, <1>5 DEF Execute, Executing, Goto
  <2>3. NextLine(s)' = NextLine(s)
    BY <2>1, <2>2 DEF NextLine
  <2> QED
    BY <1>1, <1>3, <2>1, <2>2, <2>3 DEF Orderly
<1> QED
  BY <1>4, <1>5

LEMMA OrderRelease ==
    ASSUME TypeInv, SeatInv, OrderInv, NEW t \in Tasks, Release(t)
    PROVE  OrderInv'
<1>1. UNCHANGED <<queue, typed, ran, finalized, contended, inlined, hasty>>
  BY DEF Release, Forensics, Free, Park, Dec, LoadActive, StoreGauge, objects, books, history
<1> SUFFICES ASSUME NEW s \in Regular, Orderly(s), Seats(s) PROVE Orderly(s)'
  BY <1>1 DEF OrderInv, SeatInv, Regular
<1> USE Shapes, Counts
<1>2. s \in Sess
  BY DEF Regular
<1>3. Pending(s)' = Pending(s) /\ LinesRise(s)'
  BY <1>1, LinesStay DEF Orderly
<1>4. (Executing(s)' <=> Executing(s)) /\ (Executing(s) => val'["worker"] = val["worker"])
  BY DEF Release, Forensics, Free, Park, Dec, LoadActive, StoreGauge, Goto, Home, Executing
<1>0. NextLine(s)' = NextLine(s)
  BY <1>1, <1>4 DEF NextLine
<1>5. CASE Forensics(t)
  <2>1. /\ logged' = [logged EXCEPT ![on[t]] = @ + 1] /\ counted' = [counted EXCEPT ![on[t]] = Len(ran[on[t]])]
        /\ pc[t] \in {"finalFree", "finalPark"}
    BY <1>5 DEF Forensics
  <2>2. CASE on[t] = s
    <3>1. t = "worker"
      BY <2>1, <2>2 DEF Seats, Tasks
    <3>2. ~Executing(s)'
      BY <1>4, <2>1, <3>1 DEF Executing
    <3>3. counted'[s] = Len(ran[s])
      BY <1>2, <2>1, <2>2
    <3> QED
      BY <1>0, <1>1, <1>3, <1>4, <3>2, <3>3 DEF Orderly
  <2>3. CASE on[t] # s
    <3>1. logged'[s] = logged[s] /\ counted'[s] = counted[s]
      BY <1>2, <2>1, <2>3
    <3> QED
      BY <1>0, <1>1, <1>3, <1>4, <3>1 DEF Orderly
  <2> QED
    BY <2>2, <2>3
<1>6. CASE UNCHANGED <<logged, counted>>
  BY <1>1, <1>3, <1>4, <1>6, OrderlyStays
<1> QED
  BY <1>5, <1>6 DEF Release, Free, Park, Dec, LoadActive, StoreGauge, history

LEMMA OrderAsync == TypeInv /\ SeatInv /\ OrderInv /\ Async /\ Regular' \subseteq Regular => OrderInv'
<1> SUFFICES ASSUME TypeInv, NEW s \in Sess, Orderly(s), PublishSlot \/ OpenSession \/ Mark \/ SendFinal
             PROVE  Orderly(s)'
  BY OrderRelease, OrderExecute DEF Async, Tasks, OrderInv, Regular
<1> USE Shapes, Counts
<1>1. UNCHANGED <<typed, ran, logged, counted>> /\ finalized \subseteq finalized'
  BY DEF PublishSlot, OpenSession, Mark, SendFinal, objects, history
<1>2. on'["worker"] = on["worker"] /\ pc'["worker"] = pc["worker"] /\ val'["worker"] = val["worker"]
  BY DEF PublishSlot, OpenSession, Mark, SendFinal, Goto
<1>3. (Executing(s)' <=> Executing(s)) /\ val'["worker"] = val["worker"]
  BY <1>2 DEF Executing
<1>4. CASE UNCHANGED queue
  BY <1>1, <1>3, <1>4, LinesStay, OrderlyStays DEF Orderly
<1>5. CASE SendFinal
  <2> DEFINE j == [kind |-> "final", sess |-> on["async"], line |-> 0]
  <2>1. j \in Job /\ ~Line(j, s)
    BY <1>5 DEF Job, Line, SendFinal
  <2>2. queue' = Append(queue, j) \/ queue' = queue
    BY <1>5 DEF SendFinal
  <2> HIDE DEF j
  <2>3. Pending(s)' = Pending(s) /\ LinesRise(s)'
    BY <2>1, <2>2, LinesGrow, LinesStay DEF Orderly
  <2> QED
    BY <1>1, <1>3, <2>3, OrderlyStays
<1> QED
  BY <1>4, <1>5 DEF PublishSlot, OpenSession, Mark

LEMMA OrderWorker ==
    TypeInv /\ OwnedInv /\ SeatInv /\ OrderInv /\ Worker /\ Regular' \subseteq Regular => OrderInv'
<1> SUFFICES ASSUME TypeInv, NEW s \in Sess, Owned(s), Orderly(s), TakeLine \/ TakeFinal \/ TakeClose
             PROVE  Orderly(s)'
  BY OrderRelease, OrderExecute DEF Worker, Tasks, OrderInv, OwnedInv, Regular
<1> USE Shapes, Counts
<1>1. UNCHANGED <<typed, ran, logged, counted, finalized>> /\ queue # <<>> /\ queue' = Tail(queue)
  BY DEF TakeLine, TakeFinal, TakeClose, objects, history
<1>2. /\ Pending(s) = IF Line(Head(queue), s) THEN Pending(s)' \cup {Head(queue).line} ELSE Pending(s)'
      /\ LinesRise(s)' /\ (Line(Head(queue), s) => \A p \in Pending(s)' : Head(queue).line < p)
  BY <1>1, LinesShrink DEF Orderly
<1>3. pc["worker"] = "idle" /\ ~Executing(s)
  BY DEF TakeLine, TakeFinal, TakeClose, Executing
<1>4. CASE ~Executing(s)'
  <2>1. Line(Head(queue), s) => s \in finalized
    BY <1>3, <1>4 DEF TakeLine, TakeFinal, TakeClose, Line, Goto, Executing
  <2> QED
    BY <1>1, <1>2, <1>3, <1>4, <2>1, OrderlyStays
<1>5. CASE Executing(s)'
  <2>1. TakeLine /\ Head(queue).sess = s /\ s \notin finalized /\ val'["worker"] = Head(queue).line
    BY <1>3, <1>5 DEF TakeLine, TakeFinal, TakeClose, Goto, Executing, tasks
  <2>2. logged[s] = 0
    BY <2>1 DEF Owned, Untouched
  <2> DEFINE n == Head(queue).line
  <2>3. Pending(s) = Pending(s)' \cup {n} /\ \A q \in Pending(s)' : n < q
    BY <1>2, <2>1 DEF TakeLine, Line
  <2>4. /\ typed[s] \in Nat /\ Len(ran[s]) \in Nat /\ NextLine(s) = Len(ran[s]) + 1
        /\ NextLine(s)' = Len(ran[s]) + 2 /\ Pending(s) = NextLine(s) .. typed[s]
    BY <1>1, <1>3, <1>5, <2>1, NumbersTyped DEF NextLine, Orderly
  <2> HIDE DEF n
  <2>5. n \in Len(ran[s]) + 1 .. typed[s] /\ n \notin Pending(s)'
    BY <2>3, <2>4
  <2>6. n = Len(ran[s]) + 1
    <3>1. Len(ran[s]) + 1 = n \/ n < Len(ran[s]) + 1
      <4>1. Len(ran[s]) + 1 \in Pending(s)
        BY <2>4, <2>5
      <4> QED
        BY <2>3, <4>1
    <3>2. Len(ran[s]) \in Nat /\ n \in Nat /\ Len(ran[s]) + 1 <= n
      BY <2>4, <2>5
    <3> QED
      BY <3>1, <3>2
  <2>7. Pending(s)' = Len(ran[s]) + 2 .. typed[s]
    <3>1. ASSUME NEW q \in Pending(s)' PROVE q \in Len(ran[s]) + 2 .. typed[s]
      <4>1. q \in Len(ran[s]) + 1 .. typed[s] /\ n < q
        BY <2>3, <2>4
      <4> QED
        BY <2>4, <2>6, <4>1
    <3>2. ASSUME NEW q \in Len(ran[s]) + 2 .. typed[s] PROVE q \in Pending(s)'
      <4>1. q \in Pending(s) /\ q # n
        BY <2>4, <2>6
      <4> QED
        BY <2>3, <4>1
    <3> QED
      BY <3>1, <3>2
  <2>8. Len(ran[s]) + 2 <= typed[s] + 1
    BY <2>4, <2>5
  <2>9. \A q \in Pending(s)' : q <= typed[s]
    BY <2>3 DEF Orderly
  <2>10. val'["worker"] = Len(ran[s]) + 1
    BY <2>1, <2>6 DEF n
  <2>11. ~(logged'[s] > 0)
    BY <1>1, <2>2
  <2>12. \A k \in DOMAIN ran[s] : ran[s][k] = k
    BY DEF Orderly
  <2> QED
    BY <1>1, <1>2, <2>4, <2>7, <2>8, <2>9, <2>10, <2>11, <2>12 DEF Orderly
<1> QED
  BY <1>4, <1>5

LEMMA OrderReaper == TypeInv /\ SeatInv /\ OrderInv /\ Reaper /\ Regular' \subseteq Regular => OrderInv'
<1> SUFFICES ASSUME TypeInv, NEW s \in Sess, Orderly(s),
                    Claim \/ Sweep \/ \E c \in Sess : ReapFinalize(c) \/ ReapClose(c)
             PROVE  Orderly(s)'
  BY OrderRelease DEF Reaper, Tasks, OrderInv, Regular
<1> USE Shapes, Counts
<1>1. UNCHANGED <<typed, ran, logged, counted>> /\ finalized \subseteq finalized'
  BY DEF Claim, Sweep, ReapFinalize, ReapClose, objects, history
<1>2. on'["worker"] = on["worker"] /\ pc'["worker"] = pc["worker"] /\ val'["worker"] = val["worker"]
  BY DEF Claim, Sweep, ReapFinalize, ReapClose, Goto
<1>3. (Executing(s)' <=> Executing(s)) /\ val'["worker"] = val["worker"]
  BY <1>2 DEF Executing
<1>4. CASE UNCHANGED queue
  BY <1>1, <1>3, <1>4, LinesStay, OrderlyStays DEF Orderly
<1>5. ASSUME NEW c \in Sess, NEW k \in {"stuck", "close"},
             queue' = Append(queue, [kind |-> k, sess |-> c, line |-> 0])
      PROVE  Orderly(s)'
  <2> DEFINE j == [kind |-> k, sess |-> c, line |-> 0]
  <2>1. j \in Job /\ ~Line(j, s)
    BY DEF Job, Line
  <2> HIDE DEF j
  <2>2. Pending(s)' = Pending(s) /\ LinesRise(s)'
    BY <1>5, <2>1, LinesGrow DEF j, Orderly
  <2> QED
    BY <1>1, <1>3, <2>2, OrderlyStays
<1> QED
  BY <1>4, <1>5 DEF Claim, Sweep, ReapFinalize, ReapClose

LEMMA OrderStep == TypeInv /\ OwnedInv /\ SeatInv /\ OrderInv /\ [Next]_vars => OrderInv'
<1>1. OrderInv /\ UNCHANGED vars => OrderInv'
  <2> SUFFICES ASSUME NEW s \in Regular, Orderly(s), UNCHANGED vars PROVE Orderly(s)'
    BY DEF OrderInv, Regular, vars, books, history
  <2>1. UNCHANGED <<queue, typed, finalized, ran, logged, counted, on, pc, val>>
    BY DEF vars, objects, books, tasks, history
  <2> QED
    BY <2>1, LinesStay DEF Orderly, Executing, NextLine
<1>2. TypeInv /\ OrderInv /\ Environment => OrderInv'
  <2> SUFFICES ASSUME NEW s \in Regular, Orderly(s), Environment PROVE Orderly(s)'
    BY DEF OrderInv, Regular, Environment, GoQuiet, Age, PeerCloses, Vanish, books, history
  <2>1. UNCHANGED <<queue, typed, finalized, ran, logged, counted, on, pc, val>>
    BY DEF Environment, GoQuiet, Age, PeerCloses, Vanish, objects, books, tasks, history
  <2> QED
    BY <2>1, LinesStay DEF Orderly, Executing, NextLine
<1> QED
  BY <1>1, <1>2, RegularShrinks, OrderCallbacks, OrderAsync, OrderWorker, OrderReaper DEF Next

(* A session that was neither claimed inside tn_finalize, nor worked on    *)
(* past a full queue, nor deleted while it was held, executes the lines    *)
(* typed from the first on, without gap, repeat or change of order, and    *)
(* its appended attack counts every one of them.                           *)
THEOREM CommandsAreComplete == Spec => []CommandsComplete
<1>1. TypeInv /\ OrderInv => CommandsComplete
  BY DEF OrderInv, Orderly, CommandsComplete, Regular
<1>2. Init => TypeInv /\ OwnedInv /\ SeatInv /\ OrderInv
  BY TypeInit, OwnedInit, SeatInit, OrderInit
<1>3. TypeInv /\ OwnedInv /\ SeatInv /\ OrderInv /\ [Next]_vars
        => TypeInv' /\ OwnedInv' /\ SeatInv' /\ OrderInv'
  BY TypeStep, OwnedStep, SeatStep, OrderStep
<1> QED
  BY <1>1, <1>2, <1>3, PTL DEF Spec

(***************************************************************************)
(* Memory.                                                                 *)
(***************************************************************************)

Hung(s)      == conn[s] \in {"down", "gone"}
Leaving(s)   == on["async"] = s /\ pc["async"] \in {"mark", "send"}
Finishing(s) == on["worker"] = s /\ pc["worker"] \in {"finalFree", "free"}

(* A session is freed after its connection has ended and its last line has *)
(* left the queue, by the worker or, when it was parked, once nobody has   *)
(* it any more.                                                            *)
Tidy(s) ==
    /\ LastIsLast(s)
    /\ Leaving(s) \/ HasLast(s) \/ Finishing(s) \/ mem[s] = "freed" => Hung(s)
    /\ Finishing(s) \/ mem[s] = "freed" => Pending(s) = {}
    /\ on["worker"] = s /\ pc["worker"] \in {"free", "park"} => mem[s] # "freed" /\ s \notin zombies
    /\ mem[s] = "freed" => s \notin zombies /\ (on["worker"] = s => pc["worker"] = "dec")

TidyInv == \A s \in Regular : Tidy(s)

LEMMA TidyInit == Init => TidyInv
<1> SUFFICES ASSUME Init, NEW s \in Regular PROVE Tidy(s)
  BY DEF TidyInv
<1>1. Pending(s) = {} /\ LastIsLast(s) /\ ~HasLast(s) /\ s \in Sess
  BY DEF Init, Pending, LastIsLast, HasLast, Regular
<1> QED
  BY <1>1, SessionAssumption DEF Init, Tidy, Leaving, Finishing, Tasks

(* A step that adds nothing to what has to be tidied up keeps it.          *)
LEMMA TidyStays ==
    ASSUME NEW s, Tidy(s), LastIsLast(s)', Pending(s)' \subseteq Pending(s),
           HasLast(s)' => HasLast(s) \/ Leaving(s), Leaving(s)' => Leaving(s),
           Hung(s) => Hung(s)',
           mem'[s] = "freed" => mem[s] = "freed", s \in zombies' => s \in zombies,
           \A t \in Tasks : on'[t] = s => on[t] = s,
           on'["worker"] = s => pc'["worker"] = pc["worker"]
    PROVE  Tidy(s)'
<1>1. Finishing(s)' => Finishing(s)
  BY DEF Finishing, Tasks
<1>2. "worker" \in Tasks
  BY DEF Tasks
<1> QED
  BY <1>1, <1>2 DEF Tidy

(* Who may be freed or parked is finalized; who waits is neither.          *)
LEMMA OwnedFacts ==
    ASSUME TypeInv, NEW s \in Sess, Owned(s), Placed(s)
    PROVE  /\ mem[s] = "freed" \/ s \in zombies => s \in finalized /\ mem[s] # "none"
           /\ Waits(s) \/ s \in toFinalize => mem[s] # "freed" /\ s \notin zombies
           /\ mem[s] = "none" => ~Waits(s) /\ \A t \in Tasks : ~Rel(t, s)
           /\ HasLast(s) => Waits(s)
<1>1. HasLast(s) => Waits(s)
  BY DEF HasLast, Waits, Last, Final
<1> QED
  BY <1>1 DEF Owned, Untouched, Progress, Placed

LEMMA TidyCallbacks ==
    TypeInv /\ OwnedInv /\ PlaceInv /\ TidyInv /\ Callbacks /\ Regular' \subseteq Regular => TidyInv'
<1> SUFFICES ASSUME TypeInv, NEW c \in Sess, NEW s \in Sess, Owned(s), Placed(s), Tidy(s),
                    TakeSlot(c) \/ OnBytes(c) \/ OnUser(c) \/ OnPassword(c)
                      \/ OnShellLine(c) \/ OnDisconnect(c), s \notin inlined'
             PROVE  Tidy(s)'
  BY DEF Callbacks, OwnedInv, PlaceInv, TidyInv, Regular
<1> USE Shapes
<1>1. UNCHANGED <<mem, zombies>> /\ pc["async"] = "idle"
  BY DEF TakeSlot, OnBytes, OnUser, OnPassword, OnShellLine, OnDisconnect, Receives, objects, books
<1>2. on'["worker"] = on["worker"] /\ pc'["worker"] = pc["worker"] /\ on'["loop"] = on["loop"]
  BY DEF TakeSlot, OnBytes, OnUser, OnPassword, OnShellLine, OnDisconnect, tasks, Goto
<1>3. CASE TakeSlot(c)
  <2>1. UNCHANGED <<queue, conn>> /\ on'["async"] = c /\ pc'["async"] = "gauge" /\ mem[c] = "none"
    BY <1>3 DEF TakeSlot, asynctcp, Goto
  <2>2. ~Leaving(s)' /\ (Finishing(s)' <=> Finishing(s)) /\ (Hung(s)' <=> Hung(s))
    BY <1>2, <2>1 DEF Leaving, Finishing, Hung
  <2> QED
    BY <1>1, <1>2, <2>1, <2>2, LinesStay DEF Tidy
<1>4. CASE OnBytes(c) \/ OnUser(c) \/ OnPassword(c)
  <2>1. UNCHANGED <<queue, conn, on, pc>>
    BY <1>4 DEF OnBytes, OnUser, OnPassword, books, tasks, asynctcp
  <2> QED
    BY <1>1, <2>1, LinesStay, TidyStays DEF Tidy, Leaving, Hung
<1>5. CASE OnShellLine(c)
  <2>1. UNCHANGED conn /\ conn[c] = "up"
    BY <1>5 DEF OnShellLine, Receives, asynctcp
  <2>2. CASE UNCHANGED <<queue, pc, on>>
    BY <1>1, <2>1, <2>2, LinesStay, TidyStays DEF Tidy, Leaving, Hung
  <2>3. CASE Room /\ queue' = Append(queue, [kind |-> "line", sess |-> c, line |-> typed[c] + 1]) /\ UNCHANGED <<pc, on>>
    <3> DEFINE j == [kind |-> "line", sess |-> c, line |-> typed[c] + 1]
    <3>1. j \in Job /\ ~Last(j, s) /\ (Line(j, s) <=> s = c)
      BY Counts DEF Job, Last, Line
    <3> HIDE DEF j
    <3>2. s = c => ~HasLast(s) /\ ~Finishing(s) /\ mem[s] # "freed" /\ ~Leaving(s)
      BY <2>1 DEF Tidy, Hung
    <3>3. LastIsLast(s)' /\ (HasLast(s)' <=> HasLast(s)) /\ (s # c => Pending(s)' = Pending(s))
      BY <2>3, <3>1, <3>2, LinesGrow DEF j, Tidy
    <3>4. (Leaving(s)' <=> Leaving(s)) /\ (Finishing(s)' <=> Finishing(s)) /\ (Hung(s)' <=> Hung(s))
      BY <2>1, <2>3 DEF Leaving, Finishing, Hung
    <3> QED
      BY <1>1, <2>1, <2>3, <3>2, <3>3, <3>4 DEF Tidy
  <2>4. CASE inlined' = inlined \cup {c} /\ UNCHANGED queue /\ Goto("async", "exec") /\ on' = [on EXCEPT !["async"] = c]
    <3>1. s # c
      BY <2>4
    <3>2. (\A t \in Tasks : on'[t] = s => on[t] = s) /\ ~Leaving(s)'
      BY <2>4, <3>1 DEF Leaving
    <3> QED
      BY <1>1, <1>2, <2>1, <2>4, <3>2, LinesStay, TidyStays DEF Tidy, Hung
  <2> QED
    BY <1>5, <2>2, <2>3, <2>4 DEF OnShellLine
<1>6. CASE OnDisconnect(c)
  <2>1. /\ UNCHANGED queue /\ conn[c] = "down"
        /\ conn' = [conn EXCEPT ![c] = IF discs[c] + 1 = MaxDiscs THEN "gone" ELSE @]
        /\ UNCHANGED <<pc, on>> \/ (Goto("async", "mark") /\ on' = [on EXCEPT !["async"] = c])
    BY <1>6 DEF OnDisconnect, books
  <2>2. (Hung(s) => Hung(s)') /\ (s = c => Hung(s)')
    BY <2>1 DEF Hung, Tidy
  <2>3. (Leaving(s)' => Leaving(s) \/ s = c) /\ (Finishing(s)' <=> Finishing(s))
    BY <1>2, <2>1 DEF Leaving, Finishing, Goto
  <2> QED
    BY <1>1, <1>2, <2>1, <2>2, <2>3, LinesStay DEF Tidy
<1> QED
  BY <1>3, <1>4, <1>5, <1>6

LEMMA TidyExecute ==
    ASSUME TypeInv, TidyInv, NEW t \in Tasks, NEW exit \in BOOLEAN, Execute(t, exit)
    PROVE  TidyInv'
<1>1. UNCHANGED <<queue, mem, zombies, contended, inlined, hasty>>
  BY DEF Execute, books
<1> SUFFICES ASSUME NEW s \in Regular, Tidy(s) PROVE Tidy(s)'
  BY <1>1 DEF TidyInv, Regular
<1> USE Shapes
<1>2. s \in Sess /\ s # NoSess
  BY SessionAssumption DEF Regular
<1>3. (Hung(s) => Hung(s)')
  BY <1>2 DEF Execute, Hangup, Hung
<1>4. \A u \in Tasks : on'[u] = s => on[u] = s /\ pc'[u] = pc[u]
  BY <1>2 DEF Execute, Goto
<1>5. Leaving(s)' => Leaving(s)
  BY <1>4 DEF Leaving
<1> QED
  BY <1>1, <1>3, <1>4, <1>5, LinesStay, TidyStays DEF Tidy

LEMMA TidyRelease ==
    ASSUME TypeInv, OwnedInv, PlaceInv, SeatInv, TidyInv, NEW t \in Tasks, Release(t)
    PROVE  TidyInv'
<1>1. UNCHANGED <<queue, conn, contended, inlined, hasty>>
  BY DEF Release, Forensics, Free, Park, Dec, LoadActive, StoreGauge, books, asynctcp, history
<1> SUFFICES ASSUME NEW s \in Regular, Tidy(s), Seats(s), Owned(s), Placed(s) PROVE Tidy(s)'
  BY <1>1 DEF TidyInv, SeatInv, OwnedInv, PlaceInv, Regular
<1> USE Shapes
<1>2. s \in Sess /\ s # NoSess
  BY SessionAssumption DEF Regular
<1>3. /\ Pending(s)' = Pending(s) /\ LastIsLast(s)' /\ (HasLast(s)' <=> HasLast(s))
      /\ (Hung(s)' <=> Hung(s)) /\ conn'[s] = conn[s]
  BY <1>1, LinesStay DEF Tidy, Hung
<1>4. /\ \A u \in Tasks : on'[u] = s => on[u] = s
      /\ \A u \in Tasks : u # t => pc'[u] = pc[u] /\ on'[u] = on[u]
      /\ Leaving(s)' => Leaving(s)
  BY <1>2 DEF Release, Forensics, Free, Park, Dec, LoadActive, StoreGauge, Goto, Home, Leaving
<1>5. on[t] = s => t = "worker" \/ pc[t] \notin {"finalFree", "finalPark", "free", "park", "dec"}
  BY DEF Seats, Tasks
<1>6. CASE on[t] # s
  <2>1. on'["worker"] = s => pc'["worker"] = pc["worker"] /\ on["worker"] = s
    BY <1>4, <1>6
  <2>2. (mem'[s] = "freed" => mem[s] = "freed") /\ (s \in zombies' => s \in zombies)
    BY <1>2, <1>6 DEF Release, Forensics, Free, Park, Dec, LoadActive, StoreGauge, objects, books
  <2> QED
    BY <1>1, <1>3, <1>4, <2>1, <2>2, TidyStays
<1>7. CASE on[t] = s /\ Forensics(t)
  <2>1. /\ t = "worker" /\ pc[t] \in {"finalFree", "finalPark"} /\ UNCHANGED <<mem, zombies, on>>
        /\ pc'[t] = IF pc[t] = "finalFree" THEN "free" ELSE "park"
    BY <1>5, <1>7 DEF Forensics, Goto, objects, books
  <2>2. mem[s] # "freed" /\ s \notin zombies
    BY <1>7, <2>1 DEF Owned, Progress, Rel, Releasing
  <2>3. Finishing(s)' => Finishing(s)
    BY <1>7, <2>1 DEF Finishing
  <2> QED
    BY <1>1, <1>3, <1>4, <2>1, <2>2, <2>3 DEF Tidy
<1>8. CASE on[t] = s /\ Free(t)
  <2>1. /\ t = "worker" /\ pc[t] = "free" /\ UNCHANGED <<zombies, on>> /\ pc'[t] = "dec"
        /\ mem'[s] = "freed"
    BY <1>2, <1>5, <1>8 DEF Free, Goto, books
  <2>2. Hung(s) /\ Pending(s) = {} /\ s \notin zombies
    BY <1>8, <2>1 DEF Tidy, Finishing
  <2> QED
    BY <1>1, <1>3, <1>4, <2>1, <2>2 DEF Tidy
<1>9. CASE on[t] = s /\ Park(t)
  <2>1. t = "worker" /\ pc[t] = "park" /\ UNCHANGED <<mem, on>> /\ pc'[t] = "dec"
    BY <1>5, <1>9 DEF Park, Goto, objects
  <2>2. mem[s] # "freed" /\ ~Finishing(s)'
    BY <1>9, <2>1 DEF Tidy, Finishing
  <2> QED
    BY <1>1, <1>3, <1>4, <2>1, <2>2 DEF Tidy
<1>10. CASE on[t] = s /\ (Dec(t) \/ LoadActive(t) \/ StoreGauge(t))
  <2>1. UNCHANGED <<mem, zombies>>
    BY <1>10 DEF Dec, LoadActive, StoreGauge, objects, books
  <2>2. t = "worker" => on'["worker"] # s
    BY <1>2, <1>10 DEF Dec, LoadActive, StoreGauge, Goto, Seats
  <2>3. on'["worker"] = s => pc'["worker"] = pc["worker"]
    BY <1>4, <2>2
  <2> QED
    BY <1>1, <1>3, <1>4, <2>1, <2>3, TidyStays
<1> QED
  BY <1>6, <1>7, <1>8, <1>9, <1>10 DEF Release

LEMMA TidyAsync ==
    TypeInv /\ OwnedInv /\ PlaceInv /\ SeatInv /\ TidyInv /\ Async /\ Regular' \subseteq Regular => TidyInv'
<1> SUFFICES ASSUME TypeInv, NEW s \in Sess, Owned(s), Placed(s), Tidy(s), s \notin inlined',
                    PublishSlot \/ OpenSession \/ Mark \/ SendFinal
             PROVE  Tidy(s)'
  BY TidyRelease, TidyExecute DEF Async, Tasks, OwnedInv, PlaceInv, TidyInv, Regular
<1> USE Shapes
<1>0. s # NoSess
  BY SessionAssumption
<1>1. /\ UNCHANGED zombies /\ on'["worker"] = on["worker"] /\ pc'["worker"] = pc["worker"]
      /\ \A t \in Tasks : on'[t] = s => on[t] = s
  BY <1>0 DEF PublishSlot, OpenSession, Mark, SendFinal, Goto
<1>2. CASE PublishSlot
  <2>1. UNCHANGED <<queue, mem, conn>> /\ ~Leaving(s)'
    BY <1>2 DEF PublishSlot, objects, asynctcp, Goto, Leaving
  <2> QED
    BY <1>1, <2>1, LinesStay, TidyStays DEF Tidy, Hung
<1>3. CASE OpenSession
  <2>1. /\ UNCHANGED queue /\ pc["async"] = "open" /\ ~Leaving(s)'
        /\ mem' = [mem EXCEPT ![on["async"]] = "live"]
        /\ conn' = [conn EXCEPT ![on["async"]] = "up"]
    BY <1>3 DEF OpenSession, Goto, Leaving
  <2>2. CASE s = on["async"]
    <3>1. mem[s] = "none" /\ mem'[s] = "live" /\ s \notin zombies
      BY <2>1, <2>2, OwnedFacts DEF Placed, Opening
    <3>2. ~HasLast(s) /\ ~Finishing(s) /\ ~(on["worker"] = s /\ pc["worker"] \in {"free", "park"})
      BY <3>1, OwnedFacts DEF Finishing, Rel, Releasing
    <3>3. ~HasLast(s)' /\ ~Finishing(s)' /\ LastIsLast(s)'
      BY <1>1, <2>1, <3>2, LinesStay DEF Finishing, Tidy
    <3> QED
      BY <1>1, <2>1, <3>1, <3>2, <3>3 DEF Tidy
  <2>3. CASE s # on["async"]
    <3>1. mem'[s] = mem[s] /\ conn'[s] = conn[s] /\ (Hung(s)' <=> Hung(s))
      BY <2>1, <2>3 DEF Hung
    <3> QED
      BY <1>1, <2>1, <3>1, LinesStay, TidyStays DEF Tidy
  <2> QED
    BY <2>2, <2>3
<1>4. CASE Mark
  <2>1. UNCHANGED <<queue, mem, conn, on>> /\ (Leaving(s)' => Leaving(s))
    BY <1>4 DEF Mark, asynctcp, Goto, Leaving
  <2> QED
    BY <1>1, <2>1, LinesStay, TidyStays DEF Tidy, Hung
<1>5. CASE SendFinal
  <2>1. /\ UNCHANGED <<mem, conn>> /\ pc["async"] = "send" /\ on["async"] \in Sess
        /\ pc'["async"] \in {"idle", "finalFree"}
    BY <1>5 DEF SendFinal, objects, asynctcp, Goto
  <2>2. ~Leaving(s)'
    BY <2>1 DEF Leaving
  <2> DEFINE j == [kind |-> "final", sess |-> on["async"], line |-> 0]
  <2>3. j \in Job /\ ~Line(j, s) /\ (Last(j, s) => Leaving(s))
    BY <2>1 DEF Job, Line, Last, Leaving
  <2>4. queue' = Append(queue, j) \/ queue' = queue
    BY <1>5 DEF SendFinal
  <2> HIDE DEF j
  <2>5. /\ Pending(s)' = Pending(s) /\ LastIsLast(s)' /\ (HasLast(s)' => HasLast(s) \/ Leaving(s))
    BY <2>3, <2>4, LinesGrow, LinesStay DEF Tidy
  <2> QED
    BY <1>1, <2>1, <2>2, <2>5, TidyStays DEF Hung
<1> QED
  BY <1>2, <1>3, <1>4, <1>5

LEMMA TidyWorker ==
    TypeInv /\ OwnedInv /\ PlaceInv /\ SeatInv /\ TidyInv /\ Worker /\ Regular' \subseteq Regular => TidyInv'
<1> SUFFICES ASSUME TypeInv, NEW s \in Sess, Owned(s), Placed(s), Seats(s), Tidy(s),
                    TakeLine \/ TakeFinal \/ TakeClose
             PROVE  Tidy(s)'
  BY TidyRelease, TidyExecute DEF Worker, Tasks, OwnedInv, PlaceInv, SeatInv, TidyInv, Regular
<1> USE Shapes
<1>1. /\ UNCHANGED <<mem, zombies>> /\ queue # <<>> /\ queue' = Tail(queue) /\ pc["worker"] = "idle"
      /\ \A t \in Tasks : t # "worker" => pc'[t] = pc[t] /\ on'[t] = on[t]
  BY DEF TakeLine, TakeFinal, TakeClose, objects, tasks, Goto
<1>2. /\ Pending(s)' \subseteq Pending(s) /\ LastIsLast(s)' /\ (HasLast(s)' => HasLast(s))
      /\ Last(Head(queue), s) => Pending(s)' = {} /\ HasLast(s)
      /\ Line(Head(queue), s) => Pending(s) # {}
  BY <1>1, LinesShrink DEF Tidy
<1>3. Final(Head(queue), s) => Waits(s)
  BY <1>1, QueueShrinks
<1>4. (Leaving(s)' <=> Leaving(s)) /\ on["worker"] # s
  BY <1>1 DEF Leaving, Seats
<1>5. (Hung(s) => Hung(s)')
  BY DEF TakeLine, TakeFinal, TakeClose, Hangup, Hung, asynctcp
<1>6. CASE on'["worker"] # s
  BY <1>1, <1>2, <1>4, <1>5, <1>6, TidyStays
<1>7. CASE on'["worker"] = s /\ TakeLine
  <2>1. Line(Head(queue), s) /\ s \notin finalized /\ pc'["worker"] = "exec"
    BY <1>1, <1>4, <1>7 DEF TakeLine, Line, Goto
  <2>2. mem[s] # "freed" /\ ~Finishing(s)'
    BY <2>1, OwnedFacts DEF Finishing
  <2> QED
    BY <1>1, <1>2, <1>4, <1>5, <2>1, <2>2 DEF Tidy
<1>8. CASE on'["worker"] = s /\ TakeFinal
  <2>1. Final(Head(queue), s) /\ pc'["worker"] \in {"finalFree", "finalPark"}
        /\ (pc'["worker"] = "finalFree" => Last(Head(queue), s))
    BY <1>8 DEF TakeFinal, Final, Last, Goto
  <2>2. mem[s] # "freed"
    BY <1>3, <2>1, OwnedFacts
  <2>3. Finishing(s)' => Pending(s)' = {} /\ HasLast(s)
    BY <1>2, <2>1 DEF Finishing
  <2> QED
    BY <1>1, <1>2, <1>4, <1>5, <2>1, <2>2, <2>3 DEF Tidy
<1>9. CASE TakeClose
  BY <1>4, <1>6, <1>9 DEF TakeClose, tasks
<1> QED
  BY <1>6, <1>7, <1>8, <1>9

LEMMA TidyReaper ==
    TypeInv /\ OwnedInv /\ PlaceInv /\ SeatInv /\ TidyInv /\ Reaper /\ Regular' \subseteq Regular => TidyInv'
<1> SUFFICES ASSUME TypeInv, NEW s \in Sess, Owned(s), Placed(s), Seats(s), Tidy(s), s \in Regular',
                    Claim \/ Sweep \/ \E c \in Sess : ReapFinalize(c) \/ ReapClose(c)
             PROVE  Tidy(s)'
  BY TidyRelease DEF Reaper, Tasks, OwnedInv, PlaceInv, SeatInv, TidyInv, Regular
<1> USE Shapes
<1>1. CASE Claim
  <2>1. UNCHANGED <<queue, mem, zombies, conn, on>> /\ \A t \in Tasks : t # "loop" => pc'[t] = pc[t]
    BY <1>1 DEF Claim, asynctcp, Goto
  <2> QED
    BY <2>1, LinesStay, TidyStays DEF Tidy, Hung, Leaving
<1>2. CASE Sweep
  <2>1. /\ UNCHANGED <<queue, conn, on>> /\ zombies' = zombies \ aged /\ aged' = {}
        /\ mem'[s] = IF s \in aged THEN "freed" ELSE mem[s]
        /\ \A t \in Tasks : t # "loop" => pc'[t] = pc[t]
    BY <1>2 DEF Sweep, asynctcp, Goto
  <2>2. /\ Pending(s)' = Pending(s) /\ LastIsLast(s)' /\ (HasLast(s)' <=> HasLast(s))
        /\ (Hung(s)' <=> Hung(s)) /\ (Leaving(s)' <=> Leaving(s)) /\ (Finishing(s)' <=> Finishing(s))
    BY <2>1, LinesStay DEF Tidy, Hung, Leaving, Finishing
  <2>3. s \in aged => Forgotten(s)
    BY <1>2 DEF Sweep, Regular
  <2>4. Queued(s) \subseteq {"close"} => Pending(s) = {}
    BY DEF Queued, Pending, Line
  <2>5. s \in aged => Hung(s) /\ Pending(s) = {} /\ (on["worker"] = s => pc["worker"] = "dec")
    BY <2>3, <2>4 DEF Forgotten, Hung, Tasks
  <2> QED
    BY <2>1, <2>2, <2>5 DEF Tidy, Finishing, Tasks
<1>3. ASSUME NEW c \in Sess, ReapFinalize(c) \/ ReapClose(c) PROVE Tidy(s)'
  <2>1. UNCHANGED <<mem, zombies>>
    BY <1>3 DEF ReapFinalize, ReapClose, objects
  <2>2. UNCHANGED <<pc, on>> \/ (c \in inlined' /\ Goto("loop", "finalPark") /\ on' = [on EXCEPT !["loop"] = c])
    BY <1>3 DEF ReapFinalize, ReapClose
  <2>3. /\ \A t \in Tasks : t # "loop" => pc'[t] = pc[t] /\ on'[t] = on[t]
        /\ \A t \in Tasks : on'[t] = s => on[t] = s
    BY <2>2 DEF Goto, Regular
  <2>4. UNCHANGED conn \/ Hangup(c)
    BY <1>3 DEF ReapFinalize, ReapClose, asynctcp
  <2>5. (Hung(s) => Hung(s)')
    BY <2>4 DEF Hangup, Hung
  <2>6. Pending(s)' = Pending(s) /\ LastIsLast(s)' /\ (HasLast(s)' <=> HasLast(s))
    <3>1. CASE UNCHANGED queue
      BY <3>1, LinesStay DEF Tidy
    <3>2. ASSUME NEW k \in {"stuck", "close"}, queue' = Append(queue, [kind |-> k, sess |-> c, line |-> 0])
          PROVE  Pending(s)' = Pending(s) /\ LastIsLast(s)' /\ (HasLast(s)' <=> HasLast(s))
      <4> DEFINE j == [kind |-> k, sess |-> c, line |-> 0]
      <4>1. j \in Job /\ ~Line(j, s) /\ ~Last(j, s)
        BY DEF Job, Line, Last
      <4> HIDE DEF j
      <4> QED
        BY <3>2, <4>1, LinesGrow DEF j, Tidy
    <3> QED
      BY <1>3, <3>1, <3>2 DEF ReapFinalize, ReapClose
  <2>7. Leaving(s)' <=> Leaving(s)
    BY <2>3 DEF Leaving
  <2> QED
    BY <2>1, <2>3, <2>5, <2>6, <2>7, TidyStays
<1> QED
  BY <1>1, <1>2, <1>3

LEMMA TidyEnvironment == TypeInv /\ TidyInv /\ Environment /\ Regular' \subseteq Regular => TidyInv'
<1> SUFFICES ASSUME TypeInv, NEW s \in Sess, Tidy(s), NEW c \in Sess,
                    GoQuiet(c) \/ Age(c) \/ PeerCloses(c) \/ Vanish(c)
             PROVE  Tidy(s)'
  BY DEF Environment, TidyInv, Regular
<1> USE Shapes
<1>1. UNCHANGED <<queue, mem, zombies, on, pc>>
  BY DEF GoQuiet, Age, PeerCloses, Vanish, objects, books, tasks
<1>2. (Hung(s) => Hung(s)')
  BY DEF GoQuiet, Age, PeerCloses, Vanish, asynctcp, Hangup, Hung
<1>3. /\ Pending(s)' = Pending(s) /\ LastIsLast(s)' /\ (HasLast(s)' <=> HasLast(s))
      /\ (Leaving(s)' <=> Leaving(s))
  BY <1>1, LinesStay DEF Tidy, Leaving
<1> QED
  BY <1>1, <1>2, <1>3, TidyStays

LEMMA TidyStep ==
    TypeInv /\ OwnedInv /\ PlaceInv /\ SeatInv /\ TidyInv /\ [Next]_vars => TidyInv'
<1>1. TidyInv /\ UNCHANGED vars => TidyInv'
  <2> SUFFICES ASSUME NEW s \in Regular, Tidy(s), UNCHANGED vars PROVE Tidy(s)'
    BY DEF TidyInv, Regular, vars, books, history
  <2>1. UNCHANGED <<queue, mem, zombies, conn, on, pc>>
    BY DEF vars, objects, books, tasks, asynctcp
  <2> QED
    BY <2>1, LinesStay, TidyStays DEF Tidy, Leaving, Hung
<1> QED
  BY <1>1, RegularShrinks, TidyCallbacks, TidyAsync, TidyWorker, TidyReaper, TidyEnvironment DEF Next

(* No queue, list or task has a freed session to work on, unless that      *)
(* session was claimed inside tn_finalize, worked on past a full queue or  *)
(* deleted by a sweep while something still held it.                       *)
THEOREM NothingDangles == Spec => []NoDangling
<1> DEFINE I == TypeInv /\ OwnedInv /\ PlaceInv /\ SeatInv /\ TidyInv
<1>1. I => NoDangling
  <2> SUFFICES ASSUME I, NEW s \in Regular, mem[s] = "freed"
               PROVE  /\ Queued(s) \subseteq {"close"} /\ s \notin zombies \cup registry
                      /\ \A t \in Tasks : on[t] = s => pc[t] = "dec"
    BY DEF NoDangling, Regular
  <2>1. s \in Sess /\ Owned(s) /\ Placed(s) /\ Seats(s) /\ Tidy(s)
    BY DEF OwnedInv, PlaceInv, SeatInv, TidyInv, Regular
  <2>2. ~Waits(s) /\ s \in finalized /\ logged[s] = 1
    BY <2>1, OwnedFacts DEF Owned, Progress
  <2>3. Pending(s) = {} /\ s \notin zombies /\ (on["worker"] = s => pc["worker"] = "dec")
    BY <2>1 DEF Tidy
  <2>4. on["async"] # s
    <3>1. ~Opening(s) /\ ~Marking(s)
      BY <2>1, <2>2 DEF Placed, Owned, Untouched, Marking
    <3>2. ~(on["async"] = s /\ pc["async"] = "send")
      BY <2>1, <2>2, Shapes DEF Owned, Progress, Rel, Releasing
    <3> QED
      BY <2>1, <3>1, <3>2 DEF Seats, Opening, Marking
  <2>5. Queued(s) \subseteq {"close"}
    <3> SUFFICES ASSUME NEW i \in DOMAIN queue, queue[i].sess = s PROVE queue[i].kind = "close"
      BY DEF Queued
    <3>1. queue[i].kind \in {"line", "final", "stuck", "close"}
      <4>1. queue[i] \in Job
        BY Shapes
      <4> QED
        BY <4>1 DEF Job
    <3>2. queue[i].kind \notin {"final", "stuck"}
      BY <2>2 DEF Waits, Final
    <3>3. queue[i].kind # "line"
      BY <2>3 DEF Pending, Line
    <3> QED
      BY <3>1, <3>2, <3>3
  <2> QED
    BY <2>1, <2>2, <2>3, <2>4, <2>5 DEF Placed, Seats, Tasks
<1>2. Init => I
  BY TypeInit, OwnedInit, PlaceInit, SeatInit, TidyInit
<1>3. I /\ [Next]_vars => I'
  BY TypeStep, OwnedStep, PlaceStep, SeatStep, TidyStep
<1> HIDE DEF I
<1> QED
  BY <1>1, <1>2, <1>3, PTL DEF Spec

(***************************************************************************)
(* The outbound ring (TelnetOutBuf).                                       *)
(***************************************************************************)


(***************************************************************************)
(* Prefixes and rests.                                                     *)
(***************************************************************************)

(* A prefix is as long as asked and the rest is what is left.              *)
LEMMA Split ==
    ASSUME NEW S, NEW s \in Seq(S), NEW n \in 0 .. Len(s)
    PROVE  /\ Prefix(s, n) \in Seq(S) /\ Len(Prefix(s, n)) = n
           /\ \A i \in 1 .. n : Prefix(s, n)[i] = s[i]
           /\ Rest(s, n) \in Seq(S) /\ Len(Rest(s, n)) = Len(s) - n
           /\ \A i \in 1 .. Len(s) - n : Rest(s, n)[i] = s[n + i]
<1>1. Len(s) \in Nat /\ \A i \in 1 .. Len(s) : s[i] \in S
  OBVIOUS
<1>2. /\ Prefix(s, n) \in Seq(S) /\ Len(Prefix(s, n)) = n
      /\ \A i \in 1 .. n : Prefix(s, n)[i] = s[i]
  <2>1. /\ SubSeq(s, 1, n) \in Seq(S)
        /\ Len(SubSeq(s, 1, n)) = IF 1 <= n THEN n - 1 + 1 ELSE 0
        /\ \A i \in 1 .. n - 1 + 1 : SubSeq(s, 1, n)[i] = s[1 + i - 1]
    BY <1>1, SubSeqProperties
  <2> QED BY <2>1 DEF Prefix
<1>3. /\ Rest(s, n) \in Seq(S) /\ Len(Rest(s, n)) = Len(s) - n
      /\ \A i \in 1 .. Len(s) - n : Rest(s, n)[i] = s[n + i]
  <2>1. /\ SubSeq(s, n + 1, Len(s)) \in Seq(S)
        /\ Len(SubSeq(s, n + 1, Len(s))) =
             IF n + 1 <= Len(s) THEN Len(s) - (n + 1) + 1 ELSE 0
        /\ \A i \in 1 .. Len(s) - (n + 1) + 1 :
             SubSeq(s, n + 1, Len(s))[i] = s[n + 1 + i - 1]
    BY <1>1, SubSeqProperties
  <2> QED BY <1>1, <2>1 DEF Rest
<1> QED BY <1>2, <1>3

(* The two make up the whole.                                              *)
LEMMA Rejoin ==
    ASSUME NEW S, NEW s \in Seq(S), NEW n \in 0 .. Len(s)
    PROVE  Prefix(s, n) \o Rest(s, n) = s
<1> DEFINE p == Prefix(s, n)  r == Rest(s, n)
<1>1. /\ p \in Seq(S) /\ Len(p) = n /\ \A i \in 1 .. n : p[i] = s[i]
      /\ r \in Seq(S) /\ Len(r) = Len(s) - n
      /\ \A i \in 1 .. Len(s) - n : r[i] = s[n + i]
  BY Split
<1> HIDE DEF p, r
<1>2. /\ p \o r \in Seq(S) /\ Len(p \o r) = Len(s)
      /\ \A i \in 1 .. Len(s) : (p \o r)[i] = IF i <= n THEN p[i] ELSE r[i - n]
  BY <1>1, ConcatProperties
<1>3. \A i \in 1 .. Len(s) : (p \o r)[i] = s[i]
  BY <1>1, <1>2
<1>4. p \o r = s
  BY <1>2, <1>3, SeqEqual
<1> QED BY <1>4 DEF p, r

(* Nothing and everything.                                                 *)
LEMMA SplitAtZero ==
    ASSUME NEW S, NEW s \in Seq(S)
    PROVE  Prefix(s, 0) = <<>> /\ Rest(s, 0) = s
BY SubSeqEmpty, SubSeqFull DEF Prefix, Rest

(* Concatenation of byte sequences is associative.                         *)
LEMMA Regroup ==
    ASSUME NEW a \in Seq(Nat), NEW b \in Seq(Nat), NEW c \in Seq(Nat)
    PROVE  (a \o b) \o c = a \o (b \o c)
BY ConcatAssociative

(* What is appended goes to the rest.                                      *)
LEMMA SplitGrown ==
    ASSUME NEW S, NEW s \in Seq(S), NEW t \in Seq(S), NEW n \in 0 .. Len(s)
    PROVE  /\ Prefix(s \o t, n) = Prefix(s, n)
           /\ Rest(s \o t, n) = Rest(s, n) \o t
<1> DEFINE p == Prefix(s, n)  r == Rest(s, n)  u == s \o t
<1>1. Len(s) \in Nat /\ Len(t) \in Nat
  OBVIOUS
<1>2. /\ u \in Seq(S) /\ Len(u) = Len(s) + Len(t)
      /\ \A i \in 1 .. Len(s) + Len(t) :
           u[i] = IF i <= Len(s) THEN s[i] ELSE t[i - Len(s)]
  BY ConcatProperties
<1> HIDE DEF u
<1>3. n \in 0 .. Len(u)
  BY <1>1, <1>2
<1>4. /\ p \in Seq(S) /\ Len(p) = n /\ \A i \in 1 .. n : p[i] = s[i]
      /\ r \in Seq(S) /\ Len(r) = Len(s) - n
      /\ \A i \in 1 .. Len(s) - n : r[i] = s[n + i]
  BY Split
<1> HIDE DEF p, r
<1>5. Prefix(u, n) = p
  <2>1. /\ Prefix(u, n) \in Seq(S) /\ Len(Prefix(u, n)) = n
        /\ \A i \in 1 .. n : Prefix(u, n)[i] = u[i]
    BY <1>2, <1>3, Split
  <2>2. \A i \in 1 .. n : Prefix(u, n)[i] = p[i]
    BY <1>1, <1>2, <1>4, <2>1
  <2> QED BY <1>4, <2>1, <2>2, SeqEqual
<1>6. Rest(u, n) = r \o t
  <2>1. /\ Rest(u, n) \in Seq(S) /\ Len(Rest(u, n)) = Len(s) + Len(t) - n
        /\ \A i \in 1 .. Len(s) + Len(t) - n : Rest(u, n)[i] = u[n + i]
    <3>1. u \in Seq(S) /\ Len(u) = Len(s) + Len(t)
      BY <1>2
    <3>2. /\ Rest(u, n) \in Seq(S) /\ Len(Rest(u, n)) = Len(u) - n
          /\ \A i \in 1 .. Len(u) - n : Rest(u, n)[i] = u[n + i]
      BY <1>3, <3>1, Split
    <3> QED BY <3>1, <3>2
  <2>2. /\ r \o t \in Seq(S) /\ Len(r \o t) = Len(s) + Len(t) - n
        /\ \A i \in 1 .. Len(s) + Len(t) - n :
             (r \o t)[i] = IF i <= Len(s) - n THEN r[i] ELSE t[i - (Len(s) - n)]
    <3>1. Len(r) + Len(t) = Len(s) + Len(t) - n /\ Len(r) = Len(s) - n
      BY <1>1, <1>4
    <3>2. /\ r \o t \in Seq(S) /\ Len(r \o t) = Len(r) + Len(t)
          /\ \A i \in 1 .. Len(r) + Len(t) :
               (r \o t)[i] = IF i <= Len(r) THEN r[i] ELSE t[i - Len(r)]
      BY <1>4, ConcatProperties
    <3> QED BY <3>1, <3>2
  <2>3. ASSUME NEW i \in 1 .. Len(s) + Len(t) - n
        PROVE  Rest(u, n)[i] = (r \o t)[i]
    <3>1. n + i \in 1 .. Len(s) + Len(t) /\ Rest(u, n)[i] = u[n + i]
      BY <1>1, <2>1
    <3>2. CASE i <= Len(s) - n
      BY <1>1, <1>2, <1>4, <2>2, <3>1, <3>2
    <3>3. CASE ~ (i <= Len(s) - n)
      <4>1. i - (Len(s) - n) = n + i - Len(s) /\ ~ (n + i <= Len(s))
        BY <1>1, <3>3
      <4> QED BY <1>2, <2>2, <3>1, <3>3, <4>1
    <3> QED BY <3>2, <3>3
  <2> QED BY <2>1, <2>2, <2>3, SeqEqual
<1> QED BY <1>5, <1>6 DEF p, r, u

(* A prefix of a prefix is a prefix.                                       *)
LEMMA PrefixOfPrefix ==
    ASSUME NEW S, NEW s \in Seq(S), NEW m \in 0 .. Len(s), NEW n \in 0 .. m
    PROVE  Prefix(Prefix(s, m), n) = Prefix(s, n)
<1> DEFINE p == Prefix(s, m)  r == Rest(s, m)
<1>1. p \in Seq(S) /\ r \in Seq(S) /\ p \o r = s /\ Len(p) = m
  BY Split, Rejoin
<1>2. Prefix(p \o r, n) = Prefix(p, n)
  <2> HIDE DEF p, r
  <2> QED BY <1>1, SplitGrown
<1> QED BY <1>1, <1>2

(* The bytes of one tn_send.                                               *)
LEMMA FreshType ==
    ASSUME offered \in Nat, NEW n \in Nat
    PROVE  Fresh(n) \in Seq(Nat) /\ Len(Fresh(n)) = n
BY DEF Fresh

(***************************************************************************)
(* Type correctness and the cap.                                           *)
(***************************************************************************)

(* What a tn_send of n bytes can take fits in the ring.                    *)
LEMMA SendFits ==
    ASSUME RingOK, NEW n \in 1 .. MaxSend,
           NEW take, take = IF n < Cap - Len(outBuf) THEN n ELSE Cap - Len(outBuf)
    PROVE  /\ take \in 0 .. n /\ Len(outBuf) + take <= Cap
           /\ Fresh(take) \in Seq(Nat) /\ Len(Fresh(take)) = take
<1>1. Len(outBuf) \in Nat /\ Len(outBuf) <= Cap /\ offered \in Nat
  BY DEF RingOK
<1>2. take \in 0 .. n /\ Len(outBuf) + take <= Cap /\ take \in Nat
  BY <1>1, RingAssumption
<1> QED BY <1>1, <1>2, FreshType

(* The initial state is well typed.                                        *)
LEMMA RingInitOK == ASSUME RingInit PROVE RingOK
<1>1. <<>> \in Seq(Nat) /\ Len(<<>>) = 0
  BY EmptySeq
<1>2. connected \in BOOLEAN /\ overlapped \in BOOLEAN
  BY DEF RingInit
<1>3. /\ drain \in [Drainers -> {"idle", "add", "remove"}]
      /\ tmp \in [Drainers -> Seq(Nat)] /\ \A t \in Drainers : Len(tmp[t]) = 0
  BY <1>1 DEF RingInit
<1> QED BY <1>1, <1>2, <1>3, RingAssumption DEF RingInit, RingOK

(* Every step keeps the types.                                             *)
LEMMA RingNextOK == RingOK /\ [RingNext]_ring => RingOK'
<1> SUFFICES ASSUME RingOK, [RingNext]_ring PROVE RingOK'
  OBVIOUS
<1> USE RingAssumption
<1>0. /\ outBuf \in Seq(Nat) /\ Len(outBuf) \in Nat /\ Len(outBuf) <= Cap
      /\ wire \in Seq(Nat) /\ accepted \in Seq(Nat) /\ offered \in Nat
      /\ outDropped \in Nat
      /\ \A t \in Drainers : /\ tmp[t] \in Seq(Nat) /\ Len(tmp[t]) <= Chunk
                          /\ Len(tmp[t]) \in Nat
  BY DEF RingOK
<1>1. ASSUME NEW t \in Drainers, NEW n \in 1 .. MaxSend, Send(t, n) PROVE RingOK'
  <2> DEFINE take == IF n < Cap - Len(outBuf) THEN n ELSE Cap - Len(outBuf)
  <2>1. /\ outBuf' = outBuf \o Fresh(take) /\ accepted' = accepted \o Fresh(take)
        /\ outDropped' = outDropped + (n - take) /\ offered' = offered + n
        /\ UNCHANGED <<connected, drain, tmp, wire, overlapped>>
    BY <1>1 DEF Send
  <2>2. /\ take \in 0 .. n /\ Len(outBuf) + take <= Cap
        /\ Fresh(take) \in Seq(Nat) /\ Len(Fresh(take)) = take
    BY SendFits
  <2> HIDE DEF take
  <2>3. outBuf' \in Seq(Nat) /\ Len(outBuf') <= Cap /\ accepted' \in Seq(Nat)
    BY <1>0, <2>1, <2>2, ConcatProperties
  <2>4. outDropped' \in Nat /\ offered' \in Nat
    BY <1>0, <2>1, <2>2
  <2> QED BY <2>1, <2>3, <2>4 DEF RingOK
<1>2. ASSUME NEW t \in Drainers, NEW n \in 1 .. Chunk, Snapshot(t, n) PROVE RingOK'
  <2>1. Prefix(outBuf, n) \in Seq(Nat) /\ Len(Prefix(outBuf, n)) = n
    BY <1>0, <1>2, Split DEF Snapshot
  <2>2. overlapped' \in BOOLEAN
    BY <1>2 DEF Snapshot
  <2> QED BY <1>2, <2>1, <2>2 DEF Snapshot, RingOK
<1>3. ASSUME NEW t \in Drainers, NEW n \in 0 .. Chunk, Add(t, n) PROVE RingOK'
  <2>1. Prefix(tmp[t], n) \in Seq(Nat) /\ Len(Prefix(tmp[t], n)) = n
    BY <1>0, <1>3, Split DEF Add
  <2>2. wire' \in Seq(Nat)
    BY <1>0, <1>3, <2>1, ConcatProperties DEF Add
  <2> QED BY <1>3, <2>1, <2>2 DEF Add, RingOK
<1>4. ASSUME NEW t \in Drainers, Remove(t) PROVE RingOK'
  <2>1. outBuf' \in Seq(Nat) /\ Len(outBuf') <= Cap
    <3>1. CASE Len(outBuf) >= Len(tmp[t])
      BY <1>0, <1>4, <3>1, Split DEF Remove
    <3>2. CASE ~ (Len(outBuf) >= Len(tmp[t]))
      BY <1>4, <3>2 DEF Remove
    <3> QED BY <3>1, <3>2
  <2> QED BY <1>4, <2>1 DEF Remove, RingOK
<1>5. ASSUME NEW t \in Drainers, Clear(t) PROVE RingOK'
  BY <1>5 DEF Clear, RingOK
<1>6. CASE Disconnect
  BY <1>6 DEF Disconnect, RingOK
<1>7. CASE UNCHANGED ring
  BY <1>7 DEF ring, RingOK
<1> QED BY <1>1, <1>2, <1>3, <1>4, <1>5, <1>6, <1>7 DEF RingNext, Drain

(* Whatever the two tasks do, the ring stays within kTnOutboundCap.        *)
THEOREM RingBounded == RingSpec => []RingOK
BY RingInitOK, RingNextOK, PTL DEF RingSpec

(***************************************************************************)
(* The stream.                                                             *)
(***************************************************************************)

(* Until drains overlap, at most one is under way.                         *)
OneDrain ==
    ~overlapped => \A t, u \in Drainers : drain[t] # "idle" /\ drain[u] # "idle" => t = u

StreamInv == RingOK /\ OneDrain /\ HeadInHand /\ StreamIntact

(* What is on the wire but still in the ring is the copy of the drain that *)
(* is about to remove it.                                                  *)
LEMMA UnremovedIs ==
    ASSUME OneDrain, ~overlapped
    PROVE  /\ \A t \in Drainers : drain[t] = "remove" => Unremoved = Len(tmp[t])
           /\ (\A t \in Drainers : drain[t] # "remove") => Unremoved = 0
BY DEF OneDrain, Unremoved, Drainers

(* At most one drain, at every step.                                       *)
LEMMA NextOneDrain ==
    ASSUME RingOK, OneDrain, [RingNext]_ring
    PROVE  OneDrain'
<1> USE DEF OneDrain
<1>1. ASSUME NEW t \in Drainers, NEW n \in 1 .. Chunk, Snapshot(t, n) PROVE OneDrain'
  <2>1. ~overlapped' => \A u \in Drainers : drain[u] = "idle"
    BY <1>1 DEF Snapshot
  <2> QED BY <1>1, <2>1 DEF Snapshot, RingOK
<1>2. ASSUME NEW t \in Drainers, NEW n \in 0 .. Chunk, Add(t, n) PROVE OneDrain'
  BY <1>2 DEF Add, RingOK
<1>3. ASSUME NEW t \in Drainers, Remove(t) PROVE OneDrain'
  BY <1>3 DEF Remove, RingOK
<1>4. CASE \/ UNCHANGED ring \/ Disconnect \/ \E t \in Drainers : Clear(t)
           \/ \E t \in Drainers, n \in 1 .. MaxSend : Send(t, n)
  BY <1>4 DEF ring, Disconnect, Clear, Send
<1> QED BY <1>1, <1>2, <1>3, <1>4 DEF RingNext, Drain

(* A send leaves the head alone and lengthens the stream at its end.       *)
LEMMA SendStream ==
    ASSUME StreamInv, NEW t \in Drainers, NEW n \in 1 .. MaxSend, Send(t, n)
    PROVE  HeadInHand' /\ StreamIntact'
<1> SUFFICES ASSUME connected', ~overlapped'
             PROVE  /\ \A u \in Drainers :
                          drain'[u] # "idle" =>
                              /\ Len(outBuf') >= Len(tmp'[u])
                              /\ Prefix(outBuf', Len(tmp'[u])) = tmp'[u]
                    /\ wire' \o Rest(outBuf', Unremoved') = accepted'
                    /\ Len(accepted') + outDropped' = offered'
  BY DEF HeadInHand, StreamIntact
<1> DEFINE take == IF n < Cap - Len(outBuf) THEN n ELSE Cap - Len(outBuf)
<1>1. /\ outBuf' = outBuf \o Fresh(take) /\ accepted' = accepted \o Fresh(take)
      /\ outDropped' = outDropped + (n - take) /\ offered' = offered + n
      /\ UNCHANGED <<connected, drain, tmp, wire, overlapped>>
  BY DEF Send
<1>2. /\ take \in 0 .. n /\ Fresh(take) \in Seq(Nat) /\ Len(Fresh(take)) = take
  BY SendFits DEF StreamInv
<1> HIDE DEF take
<1>3. connected /\ ~overlapped
  BY <1>1
<1>4. /\ outBuf \in Seq(Nat) /\ wire \in Seq(Nat) /\ accepted \in Seq(Nat)
      /\ offered \in Nat /\ outDropped \in Nat
      /\ Len(outBuf) \in Nat /\ Len(accepted) \in Nat
      /\ \A u \in Drainers : Len(tmp[u]) \in Nat
  BY DEF StreamInv, RingOK
<1>5. /\ wire \o Rest(outBuf, Unremoved) = accepted
      /\ Len(accepted) + outDropped = offered
      /\ \A u \in Drainers :
           drain[u] # "idle" =>
               Len(outBuf) >= Len(tmp[u]) /\ Prefix(outBuf, Len(tmp[u])) = tmp[u]
  BY <1>3 DEF StreamInv, StreamIntact, HeadInHand
<1>6. Unremoved \in 0 .. Len(outBuf)
  <2>1. \/ \E u \in Drainers : drain[u] = "remove" /\ Unremoved = Len(tmp[u])
        \/ Unremoved = 0
    BY DEF Unremoved, Drainers
  <2> QED BY <1>4, <1>5, <2>1
<1>7. Unremoved' = Unremoved
  BY <1>1 DEF Unremoved
<1>8. Len(outBuf') = Len(outBuf) + take
  BY <1>1, <1>2, <1>4, ConcatProperties
<1>9. ASSUME NEW u \in Drainers, drain[u] # "idle"
      PROVE  Len(outBuf') >= Len(tmp[u]) /\ Prefix(outBuf', Len(tmp[u])) = tmp[u]
  <2>1. Len(tmp[u]) \in 0 .. Len(outBuf)
    BY <1>4, <1>5, <1>9
  <2>2. Prefix(outBuf', Len(tmp[u])) = Prefix(outBuf, Len(tmp[u]))
    BY <1>1, <1>2, <1>4, <2>1, SplitGrown
  <2> QED BY <1>2, <1>4, <1>5, <1>8, <1>9, <2>1, <2>2
<1>10. wire \o Rest(outBuf', Unremoved) = accepted'
  <2>1. Rest(outBuf', Unremoved) = Rest(outBuf, Unremoved) \o Fresh(take)
    BY <1>1, <1>2, <1>4, <1>6, SplitGrown
  <2>2. Rest(outBuf, Unremoved) \in Seq(Nat)
    BY <1>4, <1>6, Split
  <2>3. (wire \o Rest(outBuf, Unremoved)) \o Fresh(take)
          = wire \o (Rest(outBuf, Unremoved) \o Fresh(take))
    <3> DEFINE r == Rest(outBuf, Unremoved)  f == Fresh(take)
    <3>1. wire \in Seq(Nat) /\ r \in Seq(Nat) /\ f \in Seq(Nat)
      BY <1>2, <1>4, <2>2
    <3> HIDE DEF r, f
    <3>2. (wire \o r) \o f = wire \o (r \o f)
      BY <3>1, Regroup
    <3> QED BY <3>2 DEF r, f
  <2> QED BY <1>1, <1>5, <2>1, <2>3
<1>11. Len(accepted') + outDropped' = offered'
  <2>1. Len(accepted') = Len(accepted) + take
    BY <1>1, <1>2, <1>4, ConcatProperties
  <2>2. n \in Nat /\ take \in Nat
    BY <1>2, RingAssumption
  <2>3. outDropped' = outDropped + (n - take) /\ offered' = offered + n
    BY <1>1
  <2>4. Len(accepted) + outDropped = offered
    BY <1>5
  <2>5. Len(accepted) \in Nat /\ outDropped \in Nat
    BY <1>4
  <2> QED BY <2>1, <2>2, <2>3, <2>4, <2>5
<1> QED BY <1>1, <1>7, <1>9, <1>10, <1>11

(* A drain that begins alone has the head in hand.                         *)
LEMMA SnapshotStream ==
    ASSUME StreamInv, NEW t \in Drainers, NEW n \in 1 .. Chunk, Snapshot(t, n)
    PROVE  HeadInHand' /\ StreamIntact'
<1> SUFFICES ASSUME connected', ~overlapped'
             PROVE  HeadInHand' /\ StreamIntact'
  BY DEF HeadInHand, StreamIntact
<1>1. /\ connected /\ ~overlapped /\ \A u \in Drainers : drain[u] = "idle"
      /\ UNCHANGED <<outBuf, outDropped, wire, offered, accepted>>
      /\ n <= Len(outBuf)
  BY DEF Snapshot
<1>2. outBuf \in Seq(Nat) /\ Len(outBuf) \in Nat
  BY DEF StreamInv, RingOK
<1>3. Len(Prefix(outBuf, n)) = n
  BY <1>1, <1>2, Split
<1>4. /\ tmp'[t] = Prefix(outBuf, n) /\ drain'[t] = "add"
      /\ \A u \in Drainers \ {t} : drain'[u] = "idle"
  BY <1>1 DEF Snapshot, StreamInv, RingOK
<1>5. HeadInHand'
  BY <1>1, <1>2, <1>3, <1>4 DEF HeadInHand
<1>6. Unremoved = 0 /\ Unremoved' = 0
  BY <1>1, <1>4 DEF Unremoved, Drainers
<1>7. StreamIntact
  BY DEF StreamInv
<1> QED BY <1>1, <1>5, <1>6, <1>7 DEF StreamIntact

(* What AsyncTCP accepts moves from the head of the ring to the wire.      *)
LEMMA AddStream ==
    ASSUME StreamInv, NEW t \in Drainers, NEW n \in 0 .. Chunk, Add(t, n)
    PROVE  HeadInHand' /\ StreamIntact'
<1> SUFFICES ASSUME connected', ~overlapped'
             PROVE  HeadInHand' /\ StreamIntact'
  BY DEF HeadInHand, StreamIntact
<1>1. /\ connected /\ ~overlapped /\ drain[t] = "add" /\ n <= Len(tmp[t])
      /\ UNCHANGED <<outBuf, outDropped, offered, accepted>>
      /\ wire' = wire \o Prefix(tmp[t], n)
  BY DEF Add
<1>2. /\ outBuf \in Seq(Nat) /\ Len(outBuf) \in Nat /\ wire \in Seq(Nat)
      /\ tmp[t] \in Seq(Nat) /\ Len(tmp[t]) \in Nat
  BY DEF StreamInv, RingOK
<1>3. \A u \in Drainers \ {t} : drain[u] = "idle"
  BY <1>1 DEF StreamInv, OneDrain
<1>4. Len(outBuf) >= Len(tmp[t]) /\ Prefix(outBuf, Len(tmp[t])) = tmp[t]
  BY <1>1 DEF StreamInv, HeadInHand
<1>5. n \in 0 .. Len(outBuf) /\ n \in 0 .. Len(tmp[t])
  BY <1>1, <1>2, <1>4
<1>6. Prefix(tmp[t], n) = Prefix(outBuf, n)
  <2>1. Len(tmp[t]) \in 0 .. Len(outBuf)
    BY <1>2, <1>4
  <2>2. Prefix(Prefix(outBuf, Len(tmp[t])), n) = Prefix(outBuf, n)
    BY <1>2, <1>5, <2>1, PrefixOfPrefix
  <2> QED BY <1>4, <2>2
<1>7. /\ tmp'[t] = Prefix(tmp[t], n) /\ Len(tmp'[t]) = n
      /\ drain'[t] = IF n = 0 THEN "idle" ELSE "remove"
      /\ \A u \in Drainers \ {t} : drain'[u] = "idle"
  <2>1. Len(Prefix(tmp[t], n)) = n
    BY <1>2, <1>5, Split
  <2> QED BY <1>3, <2>1 DEF Add, StreamInv, RingOK
<1>8. HeadInHand'
  BY <1>1, <1>2, <1>5, <1>6, <1>7 DEF HeadInHand
<1>9. Unremoved = 0 /\ Unremoved' = n
  BY <1>1, <1>3, <1>7 DEF Unremoved, Drainers
<1>10. wire \o outBuf = accepted /\ Len(accepted) + outDropped = offered
  <2>1. Rest(outBuf, 0) = outBuf
    BY <1>2, SplitAtZero
  <2> QED BY <1>1, <1>9, <2>1 DEF StreamInv, StreamIntact
<1>11. wire' \o Rest(outBuf, n) = accepted
  <2> DEFINE p == Prefix(outBuf, n)  r == Rest(outBuf, n)
  <2>1. p \in Seq(Nat) /\ r \in Seq(Nat) /\ p \o r = outBuf
    BY <1>2, <1>5, Split, Rejoin
  <2>2. wire' = wire \o p
    BY <1>1, <1>6
  <2> HIDE DEF p, r
  <2>3. (wire \o p) \o r = wire \o (p \o r)
    <3>1. wire \in Seq(Nat) /\ p \in Seq(Nat) /\ r \in Seq(Nat)
      BY <1>2, <2>1
    <3> QED BY <3>1, Regroup
  <2>4. wire' \o r = accepted
    BY <1>10, <2>1, <2>2, <2>3
  <2> QED BY <2>4 DEF r
<1> QED BY <1>1, <1>8, <1>9, <1>10, <1>11 DEF StreamIntact

(* The end of a drain takes exactly what it sent off the head.             *)
LEMMA RemoveStream ==
    ASSUME StreamInv, NEW t \in Drainers, Remove(t)
    PROVE  HeadInHand' /\ StreamIntact'
<1> SUFFICES ASSUME connected', ~overlapped'
             PROVE  HeadInHand' /\ StreamIntact'
  BY DEF HeadInHand, StreamIntact
<1>1. /\ connected /\ ~overlapped /\ drain[t] = "remove"
      /\ UNCHANGED <<outDropped, wire, offered, accepted>>
  BY DEF Remove
<1>2. /\ outBuf \in Seq(Nat) /\ Len(outBuf) \in Nat /\ Len(tmp[t]) \in Nat
  BY DEF StreamInv, RingOK
<1>3. \A u \in Drainers : drain'[u] = "idle"
  BY <1>1 DEF Remove, StreamInv, OneDrain, RingOK
<1>4. Len(tmp[t]) \in 0 .. Len(outBuf)
  BY <1>1, <1>2 DEF StreamInv, HeadInHand
<1>5. outBuf' = Rest(outBuf, Len(tmp[t]))
  BY <1>2, <1>4 DEF Remove
<1>6. Unremoved = Len(tmp[t]) /\ Unremoved' = 0
  <2>1. Unremoved' = 0
    BY <1>3 DEF Unremoved, Drainers
  <2> QED BY <1>1, <2>1, UnremovedIs DEF StreamInv
<1>7. Rest(outBuf', 0) = Rest(outBuf, Len(tmp[t]))
  BY <1>2, <1>4, <1>5, Split, SplitAtZero
<1>8. HeadInHand'
  BY <1>3 DEF HeadInHand
<1> QED BY <1>1, <1>6, <1>7, <1>8 DEF StreamIntact, StreamInv

(* Every step keeps the stream.                                            *)
LEMMA NextStream == StreamInv /\ [RingNext]_ring => StreamInv'
<1> SUFFICES ASSUME StreamInv, [RingNext]_ring PROVE StreamInv'
  OBVIOUS
<1>1. RingOK' /\ OneDrain'
  BY RingNextOK, NextOneDrain DEF StreamInv
<1>2. HeadInHand' /\ StreamIntact'
  <2>1. CASE UNCHANGED ring
    BY <2>1 DEF ring, StreamInv, HeadInHand, StreamIntact, Unremoved
  <2>2. CASE Disconnect \/ \E t \in Drainers : Clear(t)
    BY <2>2 DEF Disconnect, Clear, HeadInHand, StreamIntact
  <2> QED BY <2>1, <2>2, SendStream, SnapshotStream, AddStream, RemoveStream
          DEF RingNext, Drain
<1> QED BY <1>1, <1>2 DEF StreamInv

(* As long as drains do not overlap and the peer stays, the wire and the   *)
(* ring together are exactly the bytes the ring took, and the others were  *)
(* counted, although add() is called without the mutex.                    *)
THEOREM StreamStaysIntact == RingSpec => [](StreamIntact /\ HeadInHand)
<1>1. ASSUME RingInit PROVE StreamInv
  <2>1. <<>> \in Seq(Nat) /\ Len(<<>>) = 0
    BY EmptySeq
  <2>2. Rest(<<>>, 0) = <<>> /\ <<>> \o <<>> = <<>>
    BY <2>1, SplitAtZero, ConcatEmptySeq
  <2>3. Unremoved = 0 /\ \A t \in Drainers : drain[t] = "idle"
    BY <1>1 DEF RingInit, Unremoved, Drainers
  <2>4. OneDrain /\ HeadInHand
    BY <2>3 DEF OneDrain, HeadInHand
  <2>5. StreamIntact
    BY <1>1, <2>1, <2>2, <2>3 DEF RingInit, StreamIntact
  <2> QED BY <1>1, <2>4, <2>5, RingInitOK DEF StreamInv
<1>2. StreamInv => StreamIntact /\ HeadInHand
  BY DEF StreamInv
<1> QED BY <1>1, <1>2, NextStream, PTL DEF RingSpec

=============================================================================
