---------------------------- MODULE SessionStore ----------------------------
(***************************************************************************)
(* The recordings under /sessions (storage.cpp, asciinema.cpp,             *)
(* transcript.cpp, recorder.h): the sessions write them, the quota removes *)
(* the oldest, the dashboard's clear removes them all, the dashboard and   *)
(* the hub upload read them, and a power cut falls anywhere in between.    *)
(* LittleFS is external: removing a file that somebody has open fails, and *)
(* bytes that were not flushed are lost in a power cut.                    *)
(***************************************************************************)
EXTENDS Naturals, Sequences, FiniteSets, FiniteSetsExt, SequencesExt

CONSTANTS Sess,      \* sessions that record
          MaxKeep,   \* max_sessions: how many files are kept
          MaxBytes,  \* max_session_dir_kb, in units of one event; 0: no limit
          MaxRecs,   \* bound: events of all sessions
          MaxEvents  \* bound: recordings opened for reading, and power cuts

ASSUME StoreAssumption == /\ IsFiniteSet(Sess)
                          /\ {MaxKeep, MaxBytes, MaxRecs, MaxEvents} \subseteq Nat

VARIABLES files,   \* the directory: name -> bytes flushed
          key,     \* session -> place of its file name in the sort order
          rec,     \* session -> its recorder
          reading, \* names open for reading
          pass,    \* the quota pass in progress
          clr,     \* the names a clear has still to remove
          up,      \* setup() is past its own quota pass
          left,    \* what is left of the bounds
          note     \* history: what happened since the pass, or the clear, began

vars == <<files, key, rec, reading, pass, clr, up, left, note>>

Cast(s) == [ses |-> s, kind |-> "cast"]
Side(s) == [ses |-> s, kind |-> "side"]    \* X.cast.events.jsonl
Names == [ses : Sess, kind : {"cast", "side"}]

\* A name is compared as a string: a clock-stamped one after every name made
\* before the clock was set, and a sidecar right after its recording.
Rank(n) == 2 * key[n.ses] + (IF n.kind = "side" THEN 1 ELSE 0)
Keys == 1..(2 * Cardinality(Sess))
Taken == {key[s] : s \in Sess}
FreshKeys(synced) == IF synced THEN {Max(Taken \cup {Cardinality(Sess)}) + 1}
                     ELSE 1..Cardinality(Sess) \ Taken

Open(s) == rec[s].phase = "open"
Busy(n) == n \in reading \/ (n.kind = "cast" /\ Open(n.ses))
Removable(n) == n \in DOMAIN files /\ ~Busy(n)
Without(n) == IF Removable(n) THEN Restrict(files, DOMAIN files \ {n}) ELSE files
Bytes(S) == MapThenSumSet(LAMBDA n : files[n], S)

\* storage_list_dir: newest name first, so that the place of a file is how many
\* are at least as new.
Newer(n) == {m \in DOMAIN files : Rank(m) >= Rank(n)}
Older(n) == {m \in DOMAIN files : Rank(m) <= Rank(n)}
\* Slip: sorted the other way round.
ListOldestFirst == [i \in 1..Cardinality(DOMAIN files) |->
                       CHOOSE n \in DOMAIN files : Cardinality(Older(n)) = i]
ListDir == [i \in 1..Cardinality(DOMAIN files) |->
               CHOOSE n \in DOMAIN files : Cardinality(Newer(n)) = i]

NoRec  == [phase |-> "none", buf |-> 0]
NoPass == [who |-> "none", pc |-> "off", all |-> <<>>, total |-> 0]
NoNote == [fresh |-> {}, kept |-> {}, cleared |-> FALSE, excused |-> {}]

Init == /\ files = <<>>
        /\ key = [s \in Sess |-> 0]
        /\ rec = [s \in Sess |-> NoRec]
        /\ reading = {}
        /\ pass = NoPass /\ clr = <<>>
        /\ up = FALSE
        /\ left = [recs |-> MaxRecs, events |-> MaxEvents]
        /\ note = NoNote

(***************************************************************************)
(* Recorders.                                                              *)
(***************************************************************************)
Touched(n) == IF pass.pc = "off" THEN note ELSE [note EXCEPT !.fresh = @ \cup {n}]
Grow(n, k) == [m \in DOMAIN files \cup {n} |->
                  IF m # n THEN files[m]
                  ELSE k + (IF n \in DOMAIN files THEN files[n] ELSE 0)]

\* begin: the file is created and its header is in the handle's buffer.
Begin(s, k) == /\ files' = Grow(Cast(s), 0)
               /\ note' = Touched(Cast(s))
               /\ rec' = [rec EXCEPT ![s] = [phase |-> "open", buf |-> 1]]
               /\ key' = [key EXCEPT ![s] = k]

\* make_session_path, then recorder_begin; what is said before the shell starts
\* is not recorded. The open may fail: the session runs on without a recording,
\* and the path of its sidecar is then no path.
RecorderBegin(s) ==
    /\ up /\ rec[s].phase = "none"
    /\ \/ /\ rec' = [rec EXCEPT ![s].phase = "done"]
          /\ UNCHANGED <<files, key, note>>
       \/ \E synced \in BOOLEAN : \E k \in FreshKeys(synced) : Begin(s, k)
    /\ UNCHANGED <<reading, pass, clr, up, left>>

\* writeEvent_ / writeRecord_: every 500 ms the handle is flushed.
Flush(s, k) == /\ files' = Grow(Cast(s), rec[s].buf + k)
               /\ note' = Touched(Cast(s))
Record(s) ==
    /\ Open(s) /\ left.recs > 0
    /\ left' = [left EXCEPT !.recs = @ - 1]
    /\ \/ /\ rec' = [rec EXCEPT ![s].buf = @ + 1]
          /\ UNCHANGED <<files, note>>
       \/ Flush(s, 1) /\ rec' = [rec EXCEPT ![s].buf = 0]
    /\ UNCHANGED <<key, reading, pass, clr, up>>

\* FakeShell::logEvent_: the sidecar is opened, appended to and closed.
LogEvent(s) ==
    /\ Open(s) /\ left.recs > 0
    /\ left' = [left EXCEPT !.recs = @ - 1]
    /\ files' = Grow(Side(s), 1)
    /\ note' = Touched(Side(s))
    /\ UNCHANGED <<key, rec, reading, pass, clr, up>>

Close(s) ==
    /\ Open(s)
    /\ Flush(s, 0)
    /\ rec' = [rec EXCEPT ![s] = [phase |-> "done", buf |-> 0]]
    /\ UNCHANGED <<key, reading, pass, clr, up, left>>

\* send_cast, send_raw (of any file, the ones being written included) and
\* hub_build_events_ keep the file open while they read.
ReaderOpen(n) ==
    /\ up /\ left.events > 0 /\ n \in DOMAIN files \ reading
    /\ reading' = reading \cup {n}
    /\ left' = [left EXCEPT !.events = @ - 1]
    /\ UNCHANGED <<files, key, rec, pass, clr, up, note>>

ReaderClose(n) ==
    /\ n \in reading
    /\ reading' = reading \ {n}
    /\ UNCHANGED <<files, key, rec, pass, clr, up, left, note>>

(***************************************************************************)
(* storage_enforce_session_quota: by setup() once, by the persister over   *)
(* and over; the mutex lets one pass run at a time.                        *)
(***************************************************************************)
\* The listing, then the sizes; a file gone in between is skipped, so that the
\* two are as good as one.
PassBegin(who) ==
    /\ pass.pc = "off" /\ (who = "main" => ~up)
    /\ pass' = [who |-> who, pc |-> "drop", total |-> Bytes(DOMAIN files),
                all |-> [i \in DOMAIN ListDir |->
                            [name |-> ListDir[i], sz |-> files[ListDir[i]]]]]
    /\ UNCHANGED <<files, key, rec, reading, clr, up, left, note>>

\* Slip: bytes are forgotten.
OverByCount == Len(pass.all) > MaxKeep
Over == Len(pass.all) > MaxKeep \/ (MaxBytes > 0 /\ pass.total > MaxBytes)

Victim == Last(pass.all)
Popped == [pass EXCEPT !.pc = "drop", !.all = Front(@),
                       !.total = IF @ > Victim.sz THEN @ - Victim.sz ELSE 0]

\* The oldest listed file; what it held is taken off the total whether or not
\* the file system let it go.
RemoveVictim ==
    /\ pass.pc = "drop" /\ pass.all # <<>> /\ Over
    /\ files' = Without(Victim.name)
    /\ note' = IF Busy(Victim.name)
               THEN [note EXCEPT !.kept = @ \cup {Victim.name}] ELSE note
    /\ pass' = IF Victim.name.kind = "cast" THEN [pass EXCEPT !.pc = "side"] ELSE Popped
    /\ UNCHANGED <<key, rec, reading, clr, up, left>>

\* Slip: the sidecar is left to the next pass.
KeepSide == /\ pass.pc = "side"
            /\ pass' = Popped
            /\ UNCHANGED <<files, key, rec, reading, clr, up, left, note>>
RemoveSide ==
    /\ pass.pc = "side"
    /\ LET side == Side(Victim.name.ses) IN
       /\ files' = Without(side)
       /\ note' = IF Busy(side)
                  THEN [note EXCEPT !.kept = @ \cup {side}, !.excused = @ \cup {side.ses}]
                  ELSE note
    /\ pass' = Popped
    /\ UNCHANGED <<key, rec, reading, clr, up, left>>

PassEnd ==
    /\ pass.pc = "drop" /\ (pass.all = <<>> \/ ~Over)
    /\ pass' = NoPass
    /\ up' = (up \/ pass.who = "main")
    /\ note' = [note EXCEPT !.fresh = {}, !.kept = {}, !.cleared = FALSE]
    /\ UNCHANGED <<files, key, rec, reading, clr, left>>

(***************************************************************************)
(* storage_clear_history, in AsyncTCP and outside the quota's mutex.       *)
(***************************************************************************)
ClearList ==
    /\ up /\ clr = <<>>
    /\ clr' = ListDir
    /\ UNCHANGED <<files, key, rec, reading, pass, up, left, note>>

ClearRemove ==
    /\ clr # <<>>
    /\ LET n == Head(clr) IN
       /\ files' = Without(n)
       /\ note' = [note EXCEPT
             !.cleared = @ \/ (Removable(n) /\ pass.pc # "off"),
             !.excused = IF Removable(n) /\ n.kind = "cast" /\ Side(n.ses) \in DOMAIN files
                         THEN @ \cup {n.ses} ELSE @]
    /\ clr' = Tail(clr)
    /\ UNCHANGED <<key, rec, reading, pass, up, left>>

\* A power cut, then storage_begin: the directory is what was flushed.
Reboot ==
    /\ left.events > 0
    /\ left' = [left EXCEPT !.events = @ - 1]
    /\ rec' = [s \in Sess |-> IF rec[s].phase = "none" THEN NoRec
                              ELSE [rec[s] EXCEPT !.phase = "done", !.buf = 0]]
    /\ reading' = {} /\ pass' = NoPass /\ clr' = <<>> /\ up' = FALSE
    /\ note' = [NoNote EXCEPT !.excused = note.excused \cup
                   (IF pass.pc = "side" THEN {Victim.name.ses} ELSE {})]
    /\ UNCHANGED <<files, key>>

PassStep == RemoveVictim \/ RemoveSide \/ PassEnd

Next == \/ \E s \in Sess : RecorderBegin(s) \/ Record(s)
                           \/ LogEvent(s) \/ Close(s)
        \/ \E n \in Names : ReaderOpen(n) \/ ReaderClose(n)
        \/ \E who \in {"main", "persister"} : PassBegin(who)
        \/ PassStep \/ ClearList \/ ClearRemove \/ Reboot

Spec == Init /\ [][Next]_vars

\* The persister and setup() are tasks that never stop; sessions end (the
\* reaper and libssh's timeouts see to it); a read ends with its connection.
FairSpec == /\ Spec
            /\ WF_vars(PassStep) /\ WF_vars(PassBegin("persister"))
            /\ SF_vars(PassBegin("main"))
            /\ WF_vars(ClearRemove)
            /\ \A s \in Sess : WF_vars(Close(s))
            /\ \A n \in Names : WF_vars(ReaderClose(n))

(***************************************************************************)
(* Properties.                                                             *)
(***************************************************************************)
\* Every variable has its type, and only files with a name are ordered.
TypeOK ==
    /\ DOMAIN files \subseteq Names /\ \A n \in DOMAIN files : files[n] \in Nat
    /\ key \in [Sess -> Keys \cup {0}]
    /\ \A n \in DOMAIN files : key[n.ses] # 0
    /\ rec \in [Sess -> [phase : {"none", "open", "done"},
                         buf : 0..(MaxRecs + 1)]]
    /\ reading \subseteq Names /\ up \in BOOLEAN
    /\ pass.pc \in {"off", "drop", "side"}
    /\ pass.pc = "side" => pass.all # <<>>

\* A file somebody has open is there: neither the quota nor a clear takes a
\* recording from under the session that writes it or the request that reads it.
OpenFilesStay ==
    /\ \A s \in Sess : Open(s) => Cast(s) \in DOMAIN files
    /\ reading \subseteq DOMAIN files

WithinQuota(S) == /\ Cardinality(S) <= MaxKeep
                  /\ MaxBytes > 0 => Bytes(S) <= MaxBytes

\* When a pass ends, the files that could be removed and did not change under
\* it are within both limits (storage.cpp:114): sizes read before another
\* session wrote, and removals that failed, are all that may exceed them.
QuotaMet == [][PassEnd => WithinQuota(DOMAIN files \ (note.fresh \cup note.kept))]_vars

QuotaRemoves(n) == /\ pass.pc \in {"drop", "side"}
                   /\ pass' # pass /\ pass'.pc # "off"
                   /\ n \in DOMAIN files /\ n \notin DOMAIN files'

\* The quota takes the oldest names first (storage.cpp:112): what it leaves
\* below one it took was busy, or appeared after the listing.
OldestFirst ==
    [][\A n \in Names : QuotaRemoves(n) =>
         \A m \in DOMAIN files' : Rank(m) < Rank(n) => m \in note'.kept \cup note.fresh]_vars

\* Nothing is removed that did not have to be: while the quota takes a file the
\* directory is over a limit, or was until a clear took some of it. Only the
\* sidecar of a recording just taken goes regardless, and the sidecar of one it
\* could not take goes twice, if the session logs between that removal and the
\* sidecar's own turn on the list: the total still counts what it held before.
Regardless(n) == n.kind = "side" /\ \/ Cast(n.ses) \notin DOMAIN files
                                    \/ pass.pc = "drop" /\ n \in note.fresh
NothingNeedless ==
    [][\A n \in Names : (QuotaRemoves(n) /\ ~Regardless(n))
         => note.cleared \/ ~WithinQuota(DOMAIN files)]_vars

\* A sidecar outlives its recording only if a power cut fell between the two
\* removals, a download held the sidecar, or a clear took the recording of a
\* session that had logged anew.
NoOrphans ==
    \A s \in Sess : (Side(s) \in DOMAIN files /\ Cast(s) \notin DOMAIN files)
        => \/ s \in note.excused
           \/ pass.pc = "side" /\ Victim.name = Cast(s)

\* Over a limit, the directory is brought back within both, however the
\* sessions, the readers, a clear and the restarts fall.
QuotaRecovers == []<>WithinQuota(DOMAIN files)

\* A pass of the quota is fair: enough goes, the oldest first, and no more than
\* enough.
QuotaFair == QuotaMet /\ OldestFirst /\ NothingNeedless

\* What the quota and a clear leave fits together, for sessions that record and
\* requests that read.
FilesFit == TypeOK /\ OpenFilesStay /\ NoOrphans

=============================================================================
