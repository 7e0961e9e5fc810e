-------------------------- MODULE WifiManagerProofs --------------------------
(***************************************************************************)
(* What holds of WifiManager for any waits, backoffs, budgets and limits,  *)
(* and for any number of operator commands.                                *)
(***************************************************************************)
EXTENDS WifiManager, TLAPS

(***************************************************************************)
(* Types.                                                                  *)
(***************************************************************************)

Words ==
    /\ mode \in {"sta", "online", "ap"}
    /\ pc \in {"top", "act", "probe", "outage", "reboot"}
    /\ link \in {"idle", "trying", "up", "leaving"}
    /\ saved \in {"no", "retry", "restart"}

Switches ==
    /\ hasSsid \in BOOLEAN /\ dns \in BOOLEAN
    /\ eventDisc \in BOOLEAN /\ permanent \in BOOLEAN
    /\ status \in BOOLEAN /\ due \in BOOLEAN
    /\ good \in BOOLEAN /\ clients \in BOOLEAN /\ lost \in BOOLEAN

Numbers ==
    /\ attempts \in Nat /\ probeFails \in 0 .. 255 /\ ops \in Nat
    /\ sinceAttempt \in 0 .. AttemptWait + 1
    /\ sinceHealthy \in 0 .. OutageReboot + 2
    /\ sinceProbe \in 0 .. ProbeInterval + 1
    /\ sinceApRetry \in 0 .. ApRetry
    /\ retryIn \in Nat \cup {-1}
    /\ lag \in 0 .. 1

(* The clock is at most one tick ahead of the outage check, and then no    *)
(* further tick comes before the next pass.                                *)
OneBehind == lag # 0 => pc = "outage" /\ due

TypeInv == Words /\ Switches /\ Numbers /\ OneBehind

LEMMA Timers ==
    /\ AttemptWait \in Nat /\ OutageReboot \in Nat /\ ProbeInterval \in Nat
    /\ ApRetry \in Nat
    /\ \A n \in Nat \ {0} : BackoffFor(n) \in Nat
<1>1. BackoffMs \in Seq(Nat) /\ Len(BackoffMs) \in Nat \ {0}
  BY WifiAssumption
<1>2. \A n \in Nat \ {0} : BackoffFor(n) \in Nat
  BY <1>1 DEF BackoffFor
<1> QED BY <1>2, WifiAssumption

LEMMA UptoType == ASSUME NEW m \in Nat, NEW n \in 0 .. m PROVE Upto(n, m) \in 0 .. m
  BY DEF Upto

LEMMA TypeInit == Init => TypeInv
<1> SUFFICES ASSUME Init PROVE TypeInv
  OBVIOUS
<1>1. Words
  BY DEF Init, BootMode, BootLink, Words
<1>2. Switches
  BY DEF Init, Switches
<1>3. Numbers
  BY Timers DEF Init, BootAttempts, Numbers
<1>4. OneBehind
  BY DEF Init, OneBehind
<1> QED BY <1>1, <1>2, <1>3, <1>4 DEF TypeInv

LEMMA WordsStay == Words /\ [Next]_vars => Words'
<1> SUFFICES ASSUME Words, [Next]_vars PROVE Words'
  OBVIOUS
<1> USE DEF Words, stamps, flags, pass, world
<1>1. CASE LoopTop
  BY <1>1 DEF LoopTop, Connected
<1>2. CASE SeeEvent
  BY <1>2 DEF SeeEvent, Retire, Goto
<1>3. CASE GoOnline
  BY <1>3 DEF GoOnline, Acting, Goto
<1>4. CASE Retry
  BY <1>4 DEF Retry, Acting, TryStaAfter, StartAp, Goto
<1>5. CASE GiveUp
  BY <1>5 DEF GiveUp, TimedOut, Acting, StartAp, Goto
<1>6. CASE BackOff
  BY <1>6 DEF BackOff, TimedOut, Acting, Goto
<1>7. CASE WaitSta
  BY <1>7 DEF WaitSta, Acting, Goto
<1>8. CASE SeeStatus
  BY <1>8 DEF SeeStatus, Acting, Retire, Goto
<1>9. CASE StayOnline
  BY <1>9 DEF StayOnline, Acting, Goto
<1>10. CASE ProbeAnswers
  BY <1>10 DEF ProbeAnswers, Goto
<1>11. CASE ProbeFails
  BY <1>11 DEF ProbeFails, Retire, Goto
<1>12. CASE StayAp
  BY <1>12 DEF StayAp, Acting, Goto
<1>13. CASE LeaveAp
  BY <1>13 DEF LeaveAp, Acting, Goto
<1>14. CASE OutageCheck
  BY <1>14 DEF OutageCheck
<1>15. CASE Reboot
  BY <1>15 DEF Reboot, Boot, BootMode, BootAttempts, BootLink
<1>16. CASE GotIp
  BY <1>16 DEF GotIp
<1>17. CASE \E perm \in BOOLEAN : LinkDown(perm)
  BY <1>17 DEF LinkDown
<1>18. CASE LinkDownMissed
  BY <1>18 DEF LinkDownMissed
<1>19. CASE MenuReconnect
  BY <1>19 DEF MenuReconnect, Operates, TryStaAfter, StartAp
<1>20. CASE MenuForceAp
  BY <1>20 DEF MenuForceAp, Operates, StartAp
<1>21. CASE MenuWipe
  BY <1>21 DEF MenuWipe, Operates
<1>22. CASE ConfigPost
  BY <1>22 DEF ConfigPost, Operates
<1>23. CASE PortalSave
  BY <1>23 DEF PortalSave, Operates
<1>24. CASE ReplyIsOut
  BY <1>24 DEF ReplyIsOut, TryStaAfter, StartAp, Boot, BootMode, BootAttempts, BootLink
<1>25. CASE Tick
  BY <1>25 DEF Tick
<1>26. CASE NetChanges
  BY <1>26 DEF NetChanges
<1>27. CASE ClientsChange
  BY <1>27 DEF ClientsChange
<1>28. CASE UNCHANGED vars
  BY <1>28 DEF vars
<1> QED
  BY <1>1, <1>2, <1>3, <1>4, <1>5, <1>6, <1>7, <1>8, <1>9, <1>10, <1>11,
     <1>12, <1>13, <1>14, <1>15, <1>16, <1>17, <1>18, <1>19, <1>20, <1>21,
     <1>22, <1>23, <1>24, <1>25, <1>26, <1>27, <1>28 DEF Next, Loop, Driver,
     Operator

LEMMA SwitchesStay == Switches /\ [Next]_vars => Switches'
<1> SUFFICES ASSUME Switches, [Next]_vars PROVE Switches'
  OBVIOUS
<1> USE DEF Switches, stamps, flags, pass, world
<1>1. CASE LoopTop
  <2>1. Connected \in BOOLEAN
    BY DEF Connected
  <2> QED BY <1>1, <2>1 DEF LoopTop
<1>2. CASE SeeEvent
  BY <1>2 DEF SeeEvent, Retire, Goto
<1>3. CASE GoOnline
  BY <1>3 DEF GoOnline, Acting, Goto
<1>4. CASE Retry
  BY <1>4 DEF Retry, Acting, TryStaAfter, StartAp, Goto
<1>5. CASE GiveUp
  BY <1>5 DEF GiveUp, TimedOut, Acting, StartAp, Goto
<1>6. CASE BackOff
  BY <1>6 DEF BackOff, TimedOut, Acting, Goto
<1>7. CASE WaitSta
  BY <1>7 DEF WaitSta, Acting, Goto
<1>8. CASE SeeStatus
  BY <1>8 DEF SeeStatus, Acting, Retire, Goto
<1>9. CASE StayOnline
  BY <1>9 DEF StayOnline, Acting, Goto
<1>10. CASE ProbeAnswers
  BY <1>10 DEF ProbeAnswers, Goto
<1>11. CASE ProbeFails
  BY <1>11 DEF ProbeFails, Retire, Goto
<1>12. CASE StayAp
  BY <1>12 DEF StayAp, Acting, Goto
<1>13. CASE LeaveAp
  BY <1>13 DEF LeaveAp, Acting, Goto
<1>14. CASE OutageCheck
  BY <1>14 DEF OutageCheck
<1>15. CASE Reboot
  BY <1>15 DEF Reboot, Boot, BootMode, BootAttempts, BootLink
<1>16. CASE GotIp
  BY <1>16 DEF GotIp
<1>17. CASE \E perm \in BOOLEAN : LinkDown(perm)
  BY <1>17 DEF LinkDown
<1>18. CASE LinkDownMissed
  BY <1>18 DEF LinkDownMissed
<1>19. CASE MenuReconnect
  BY <1>19 DEF MenuReconnect, Operates, TryStaAfter, StartAp
<1>20. CASE MenuForceAp
  BY <1>20 DEF MenuForceAp, Operates, StartAp
<1>21. CASE MenuWipe
  BY <1>21 DEF MenuWipe, Operates
<1>22. CASE ConfigPost
  BY <1>22 DEF ConfigPost, Operates
<1>23. CASE PortalSave
  BY <1>23 DEF PortalSave, Operates
<1>24. CASE ReplyIsOut
  BY <1>24 DEF ReplyIsOut, TryStaAfter, StartAp, Boot, BootMode, BootAttempts, BootLink
<1>25. CASE Tick
  BY <1>25 DEF Tick
<1>26. CASE NetChanges
  BY <1>26 DEF NetChanges
<1>27. CASE ClientsChange
  BY <1>27 DEF ClientsChange
<1>28. CASE UNCHANGED vars
  BY <1>28 DEF vars
<1> QED
  BY <1>1, <1>2, <1>3, <1>4, <1>5, <1>6, <1>7, <1>8, <1>9, <1>10, <1>11,
     <1>12, <1>13, <1>14, <1>15, <1>16, <1>17, <1>18, <1>19, <1>20, <1>21,
     <1>22, <1>23, <1>24, <1>25, <1>26, <1>27, <1>28 DEF Next, Loop, Driver,
     Operator

LEMMA NumbersStay == Numbers /\ OneBehind /\ [Next]_vars => Numbers'
<1> SUFFICES ASSUME Numbers, OneBehind, [Next]_vars PROVE Numbers'
  OBVIOUS
<1> USE Timers DEF Numbers, stamps, flags, pass, world
<1>1. CASE LoopTop
  BY <1>1 DEF LoopTop, Connected
<1>2. CASE SeeEvent
  BY <1>2 DEF SeeEvent, Retire, Goto
<1>3. CASE GoOnline
  BY <1>3 DEF GoOnline, Acting, Goto
<1>4. CASE Retry
  BY <1>4 DEF Retry, Acting, TryStaAfter, StartAp, Goto
<1>5. CASE GiveUp
  BY <1>5 DEF GiveUp, TimedOut, Acting, StartAp, Goto
<1>6. CASE BackOff
  <2>1. retryIn' \in Nat
    BY <1>6 DEF BackOff, TimedOut
  <2> QED BY <1>6, <2>1 DEF BackOff, TimedOut, Acting, Goto
<1>7. CASE WaitSta
  BY <1>7 DEF WaitSta, Acting, Goto
<1>8. CASE SeeStatus
  BY <1>8 DEF SeeStatus, Acting, Retire, Goto
<1>9. CASE StayOnline
  <2>1. /\ sinceAttempt' = 0 /\ sinceProbe' \in {0, sinceProbe} /\ lag' = lag
        /\ UNCHANGED <<attempts, probeFails, ops, sinceHealthy, sinceApRetry, retryIn>>
    BY <1>9 DEF StayOnline, Goto
  <2> QED BY <2>1
<1>10. CASE ProbeAnswers
  BY <1>10 DEF ProbeAnswers, Goto
<1>11. CASE ProbeFails
  <2>1. /\ \/ probeFails' = 0 /\ attempts' = 0 /\ retryIn' = 0
           \/ probeFails' = (probeFails + 1) % 256 /\ UNCHANGED <<attempts, retryIn>>
        /\ UNCHANGED <<sinceAttempt, sinceHealthy, sinceProbe, sinceApRetry, lag, ops>>
    BY <1>11 DEF ProbeFails, Retire, Goto
  <2>2. (probeFails + 1) % 256 \in 0 .. 255
    BY probeFails \in Nat
  <2>3. probeFails' \in 0 .. 255
    BY <2>1, <2>2
  <2> QED BY <2>1, <2>3
<1>12. CASE StayAp
  BY <1>12 DEF StayAp, Acting, Goto
<1>13. CASE LeaveAp
  BY <1>13 DEF LeaveAp, Acting, Goto
<1>14. CASE OutageCheck
  BY <1>14 DEF OutageCheck
<1>15. CASE Reboot
  BY <1>15 DEF Reboot, Boot, BootMode, BootAttempts, BootLink
<1>16. CASE GotIp
  BY <1>16 DEF GotIp
<1>17. CASE \E perm \in BOOLEAN : LinkDown(perm)
  BY <1>17 DEF LinkDown
<1>18. CASE LinkDownMissed
  BY <1>18 DEF LinkDownMissed
<1>19. CASE MenuReconnect
  BY <1>19 DEF MenuReconnect, Operates, TryStaAfter, StartAp
<1>20. CASE MenuForceAp
  BY <1>20 DEF MenuForceAp, Operates, StartAp
<1>21. CASE MenuWipe
  BY <1>21 DEF MenuWipe, Operates
<1>22. CASE ConfigPost
  BY <1>22 DEF ConfigPost, Operates
<1>23. CASE PortalSave
  BY <1>23 DEF PortalSave, Operates
<1>24. CASE ReplyIsOut
  BY <1>24 DEF ReplyIsOut, TryStaAfter, StartAp, Boot, BootMode, BootAttempts, BootLink
<1>25. CASE Tick
  <2>1. /\ Upto(sinceAttempt, AttemptWait + 1) \in 0 .. AttemptWait + 1
        /\ Upto(sinceHealthy, OutageReboot + 2) \in 0 .. OutageReboot + 2
        /\ Upto(sinceProbe, ProbeInterval + 1) \in 0 .. ProbeInterval + 1
        /\ Upto(sinceApRetry, ApRetry) \in 0 .. ApRetry
    BY UptoType
  <2>2. lag = 0
    BY <1>25 DEF Tick, OneBehind
  <2>3. /\ sinceAttempt' \in 0 .. AttemptWait + 1
        /\ sinceHealthy' \in 0 .. OutageReboot + 2
        /\ sinceProbe' \in 0 .. ProbeInterval + 1
        /\ sinceApRetry' \in 0 .. ApRetry
    BY <1>25, <2>1 DEF Tick
  <2>4. lag' \in 0 .. 1 /\ retryIn' \in Nat \cup {-1}
    BY <1>25, <2>2 DEF Tick
  <2> QED BY <1>25, <2>3, <2>4 DEF Tick
<1>26. CASE NetChanges
  BY <1>26 DEF NetChanges
<1>27. CASE ClientsChange
  BY <1>27 DEF ClientsChange
<1>28. CASE UNCHANGED vars
  BY <1>28 DEF vars
<1> QED
  BY <1>1, <1>2, <1>3, <1>4, <1>5, <1>6, <1>7, <1>8, <1>9, <1>10, <1>11,
     <1>12, <1>13, <1>14, <1>15, <1>16, <1>17, <1>18, <1>19, <1>20, <1>21,
     <1>22, <1>23, <1>24, <1>25, <1>26, <1>27, <1>28 DEF Next, Loop, Driver,
     Operator

LEMMA OneBehindStays == OneBehind /\ [Next]_vars => OneBehind'
<1> SUFFICES ASSUME OneBehind, [Next]_vars PROVE OneBehind'
  OBVIOUS
<1> USE DEF OneBehind, stamps, flags, pass, world
<1>1. CASE LoopTop
  BY <1>1 DEF LoopTop, Connected
<1>2. CASE SeeEvent
  BY <1>2 DEF SeeEvent, Retire, Goto
<1>3. CASE GoOnline
  BY <1>3 DEF GoOnline, Acting, Goto
<1>4. CASE Retry
  BY <1>4 DEF Retry, Acting, TryStaAfter, StartAp, Goto
<1>5. CASE GiveUp
  BY <1>5 DEF GiveUp, TimedOut, Acting, StartAp, Goto
<1>6. CASE BackOff
  BY <1>6 DEF BackOff, TimedOut, Acting, Goto
<1>7. CASE WaitSta
  BY <1>7 DEF WaitSta, Acting, Goto
<1>8. CASE SeeStatus
  BY <1>8 DEF SeeStatus, Acting, Retire, Goto
<1>9. CASE StayOnline
  BY <1>9 DEF StayOnline, Acting, Goto
<1>10. CASE ProbeAnswers
  BY <1>10 DEF ProbeAnswers, Goto
<1>11. CASE ProbeFails
  BY <1>11 DEF ProbeFails, Retire, Goto
<1>12. CASE StayAp
  BY <1>12 DEF StayAp, Acting, Goto
<1>13. CASE LeaveAp
  BY <1>13 DEF LeaveAp, Acting, Goto
<1>14. CASE OutageCheck
  BY <1>14 DEF OutageCheck
<1>15. CASE Reboot
  BY <1>15 DEF Reboot, Boot, BootMode, BootAttempts, BootLink
<1>16. CASE GotIp
  BY <1>16 DEF GotIp
<1>17. CASE \E perm \in BOOLEAN : LinkDown(perm)
  BY <1>17 DEF LinkDown
<1>18. CASE LinkDownMissed
  BY <1>18 DEF LinkDownMissed
<1>19. CASE MenuReconnect
  BY <1>19 DEF MenuReconnect, Operates, TryStaAfter, StartAp
<1>20. CASE MenuForceAp
  BY <1>20 DEF MenuForceAp, Operates, StartAp
<1>21. CASE MenuWipe
  BY <1>21 DEF MenuWipe, Operates
<1>22. CASE ConfigPost
  BY <1>22 DEF ConfigPost, Operates
<1>23. CASE PortalSave
  BY <1>23 DEF PortalSave, Operates
<1>24. CASE ReplyIsOut
  BY <1>24 DEF ReplyIsOut, TryStaAfter, StartAp, Boot, BootMode, BootAttempts, BootLink
<1>25. CASE Tick
  BY <1>25 DEF Tick
<1>26. CASE NetChanges
  BY <1>26 DEF NetChanges
<1>27. CASE ClientsChange
  BY <1>27 DEF ClientsChange
<1>28. CASE UNCHANGED vars
  BY <1>28 DEF vars
<1> QED
  BY <1>1, <1>2, <1>3, <1>4, <1>5, <1>6, <1>7, <1>8, <1>9, <1>10, <1>11,
     <1>12, <1>13, <1>14, <1>15, <1>16, <1>17, <1>18, <1>19, <1>20, <1>21,
     <1>22, <1>23, <1>24, <1>25, <1>26, <1>27, <1>28 DEF Next, Loop, Driver,
     Operator

LEMMA TypeStep == TypeInv /\ [Next]_vars => TypeInv'
  BY WordsStay, SwitchesStay, NumbersStay, OneBehindStays DEF TypeInv

(* Every variable keeps its type, and the outage check is never more than  *)
(* one tick behind the clock.                                              *)
THEOREM WifiTypeCorrect == Spec => []TypeOK
<1>1. TypeInv => TypeOK
  BY DEF TypeInv, Words, Switches, Numbers, TypeOK
<1> QED
  BY <1>1, TypeInit, TypeStep, PTL DEF Spec

(***************************************************************************)
(* A connection that nobody lost.                                          *)
(***************************************************************************)

(* A link that is up has had its GOT_IP, which cleared the flag of every   *)
(* disconnect before it; a connection that was not lost has its link, and  *)
(* the pass that looks at it read the status after it came up.             *)
Fresh ==
    /\ link = "up" => ~eventDisc
    /\ mode = "online" /\ ~lost => link = "up" /\ (pc = "act" => status)

LEMMA FreshInit == Init => Fresh
  BY DEF Init, BootLink, BootMode, Fresh

LEMMA BootFresh == Boot => Fresh'
  BY DEF Boot, BootMode, BootLink, Fresh

LEMMA LoopFresh == TypeInv /\ Fresh /\ Loop => Fresh'
<1> SUFFICES ASSUME TypeInv, Fresh, Loop PROVE Fresh'
  OBVIOUS
<1>0. pc \in {"top", "act", "probe", "outage", "reboot"}
  BY DEF TypeInv, Words
<1>1. CASE LoopTop
  BY <1>1 DEF LoopTop, Connected, flags, Fresh
<1>2. CASE SeeEvent
  BY <1>2 DEF SeeEvent, Retire, Fresh
<1>3. CASE GoOnline
  BY <1>3 DEF GoOnline, Goto, flags, Fresh
<1>4. CASE Retry
  BY <1>4 DEF Retry, TryStaAfter, StartAp, Connected, flags, Fresh
<1>5. CASE GiveUp
  BY <1>5 DEF GiveUp, StartAp, flags, Fresh
<1>6. CASE BackOff
  BY <1>6 DEF BackOff, TimedOut, Acting, Goto, flags, Fresh
<1>7. CASE WaitSta
  BY <1>7 DEF WaitSta, Acting, Goto, flags, Fresh
<1>8. CASE SeeStatus
  BY <1>8 DEF SeeStatus, Acting, Retire, Goto, flags, Fresh
<1>9. CASE StayOnline
  BY <1>9 DEF StayOnline, Goto, flags, Fresh
<1>10. CASE ProbeAnswers
  BY <1>10 DEF ProbeAnswers, Goto, flags, Fresh
<1>11. CASE ProbeFails
  BY <1>11 DEF ProbeFails, Retire, Goto, flags, Fresh
<1>12. CASE StayAp
  BY <1>12 DEF StayAp, Acting, Goto, flags, Fresh
<1>13. CASE LeaveAp
  BY <1>13 DEF LeaveAp, Fresh
<1>14. CASE OutageCheck
  BY <1>14 DEF OutageCheck, flags, Fresh
<1>15. CASE Reboot
  BY <1>15, BootFresh DEF Reboot
<1> QED
  BY <1>1, <1>2, <1>3, <1>4, <1>5, <1>6, <1>7, <1>8, <1>9, <1>10, <1>11, <1>12, <1>13,
     <1>14, <1>15 DEF Loop

LEMMA DriverFresh == Fresh /\ Driver => Fresh'
<1> SUFFICES ASSUME Fresh, Driver PROVE Fresh'
  OBVIOUS
<1>1. CASE GotIp
  BY <1>1 DEF GotIp, pass, Fresh
<1>2. ASSUME NEW perm \in BOOLEAN, LinkDown(perm) PROVE Fresh'
  BY <1>2 DEF LinkDown, Fresh
<1>3. CASE LinkDownMissed
  BY <1>3 DEF LinkDownMissed, Fresh
<1> QED BY <1>1, <1>2, <1>3 DEF Driver

LEMMA OperatorFresh == Fresh /\ Operator => Fresh'
<1> SUFFICES ASSUME Fresh, Operator PROVE Fresh'
  OBVIOUS
<1> USE DEF Fresh, flags, pass
<1>1. CASE MenuReconnect
  BY <1>1 DEF MenuReconnect, TryStaAfter, StartAp, Connected
<1>2. CASE MenuForceAp
  BY <1>2 DEF MenuForceAp, StartAp
<1>3. CASE MenuWipe
  BY <1>3 DEF MenuWipe
<1>4. CASE ConfigPost
  BY <1>4 DEF ConfigPost
<1>5. CASE PortalSave
  BY <1>5 DEF PortalSave
<1>6. CASE ReplyIsOut
  BY <1>6, BootFresh DEF ReplyIsOut, TryStaAfter, StartAp, Connected
<1> QED BY <1>1, <1>2, <1>3, <1>4, <1>5, <1>6 DEF Operator

LEMMA FreshStep == TypeInv /\ Fresh /\ [Next]_vars => Fresh'
<1>1. Fresh /\ Tick => Fresh'
  BY DEF Tick, flags, Fresh
<1>2. Fresh /\ (NetChanges \/ ClientsChange) => Fresh'
  BY DEF NetChanges, ClientsChange, flags, pass, Fresh
<1>3. Fresh /\ UNCHANGED vars => Fresh'
  BY DEF vars, flags, pass, Fresh
<1> QED
  BY <1>1, <1>2, <1>3, LoopFresh, DriverFresh, OperatorFresh DEF Next

(* Who takes a connection back to connecting.                              *)
LEMMA OnlyLostLinksDrop ==
    ASSUME TypeInv, Fresh, [Next]_vars, mode = "online", mode' = "sta"
    PROVE  lost \/ pc \in {"probe", "reboot"} \/ ops' > ops \/ saved # saved'
<1>0. ops \in Nat
  BY DEF TypeInv, Numbers
<1>1. CASE Loop
  <2>1. CASE LoopTop \/ OutageCheck
    BY <2>1 DEF LoopTop, OutageCheck
  <2>2. CASE SeeEvent \/ SeeStatus
    BY <2>2 DEF SeeEvent, SeeStatus, Acting, Fresh
  <2>3. CASE GoOnline \/ StayOnline
    BY <2>3 DEF GoOnline, StayOnline
  <2>4. CASE Retry \/ GiveUp \/ BackOff \/ WaitSta \/ StayAp \/ LeaveAp
    BY <2>4 DEF Retry, GiveUp, BackOff, WaitSta, StayAp, LeaveAp, TimedOut, Acting
  <2>5. CASE ProbeAnswers \/ ProbeFails \/ Reboot
    BY <2>5 DEF ProbeAnswers, ProbeFails, Reboot
  <2> QED BY <1>1, <2>1, <2>2, <2>3, <2>4, <2>5 DEF Loop
<1>2. CASE Driver
  BY <1>2 DEF Driver, GotIp, LinkDown, LinkDownMissed
<1>3. CASE Operator
  <2>1. CASE MenuReconnect \/ MenuForceAp \/ MenuWipe \/ ConfigPost \/ PortalSave
    <3>1. ops' = ops + 1
      BY <2>1 DEF MenuReconnect, MenuForceAp, MenuWipe, ConfigPost, PortalSave, Operates
    <3> QED BY <1>0, <3>1
  <2>2. CASE ReplyIsOut
    BY <2>2 DEF ReplyIsOut, Boot
  <2> QED BY <1>3, <2>1, <2>2 DEF Operator
<1>4. CASE Tick \/ NetChanges \/ ClientsChange
  BY <1>4 DEF Tick, NetChanges, ClientsChange
<1>5. CASE UNCHANGED vars
  BY <1>5 DEF vars
<1> QED BY <1>1, <1>2, <1>3, <1>4, <1>5 DEF Next

(* A connection is given up only when its link went down, a probe kicked   *)
(* it, the operator reconnects or the device restarts: neither a flag left *)
(* by an earlier attempt nor a status read before GOT_IP takes a fresh     *)
(* connection down, however the event task and loopTask interleave.        *)
THEOREM LinksDropOnlyWhenLost == Spec => DropsOnlyLostLinks
<1>1. TypeInv /\ Fresh /\ [Next]_vars
        => [mode = "online" /\ mode' = "sta" =>
               lost \/ pc \in {"probe", "reboot"} \/ ops' > ops \/ saved # saved']_vars
  BY OnlyLostLinksDrop
<1> QED
  BY <1>1, TypeInit, TypeStep, FreshInit, FreshStep, PTL DEF Spec, DropsOnlyLostLinks

=============================================================================
