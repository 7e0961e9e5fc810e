------------------------------ MODULE FakeShell ------------------------------
(***************************************************************************)
(* The emulated shell of one session (fake_shell.cpp): a line is a chain   *)
(* of segments, each a command with its redirection, over a small virtual  *)
(* file system. execute() parses the whole line before it runs it; here    *)
(* the segments of a line are chosen as they are reached, which comes to   *)
(* the same. What commands print is left out, except whether they fail.    *)
(* A shell beside it is given the same lines and the statuses that the     *)
(* emulated commands report.                                               *)
(***************************************************************************)
EXTENDS Naturals, SequencesExt, AttackClassifier

CONSTANTS Parts,       \* the names that paths are made of
          Args,        \* the paths that lines name
          Redirects,   \* redirections: <<>> for none, or <<path>>
          Scripts,     \* the names that end in .sh
          Urls,        \* download addresses, without "none"
          MaxCommands, \* MAX_COMMANDS_PER_SESSION
          MaxFiles,    \* MAX_VFS_FILES
          MaxProcs,    \* MAX_VPROCS less the processes begin() makes
          HistMax,     \* lines history_ keeps
          SummaryMax,  \* what commandSummary has room for, in lines
          MaxDepth,    \* bound: sh -c in sh -c
          MaxSegments  \* bound: segments of all lines, with the lines after the first

Argument == [abs : BOOLEAN, p : Seq(Parts \cup {".."})]

ASSUME ShellAssumption ==
    /\ {"tmp", "root"} \subseteq Parts /\ ".." \notin Parts /\ Scripts \subseteq Parts
    /\ Args \subseteq Argument /\ Redirects \subseteq {<<>>} \cup [1..1 -> Argument]
    /\ MaxCommands \in Nat /\ MaxFiles \in Nat /\ MaxProcs \in Nat
    /\ HistMax \in Nat \ {0} /\ SummaryMax \in Nat /\ MaxDepth \in Nat \ {0} /\ MaxSegments \in Nat
    /\ "none" \notin Urls

VARIABLES files,    \* files_
          cwd,      \* cwd_
          procs,    \* payload processes in procs_
          commands, hist, \* commands_; history_, each line as the marks in it
          exited, cap, ok, \* exit_, cap_hit_, last_status_ok_
          frames,   \* runChain_'s activations, the innermost last
          told,     \* the kinds of events handed to logEvent_, of those that tell
                    \* of a payload
          segs,     \* segments so far
          differs,  \* history: a segment was run or skipped, but not by the shell
          ghost     \* history: what DiskIsAMap and the properties exempt

core == <<files, cwd, procs, exited, cap, told>>
vars == <<core, commands, hist, ok, frames, segs, differs, ghost>>

Tmp  == <<"tmp">>
Home == <<"root">>
Dirs == {<<>>, Tmp, Home}   \* of the directories isDir_ lists

\* first: no segment so far; ok: prev_ok; carry: the separator a dropped
\* segment left; to: where the running one is redirected. Of the shell beside:
\* real: its status, unless it is astray, when that may be any; pipe: it runs the
\* pipeline of the last segment; doubt: the running one may leave it another
\* status; gone: it reads another chain.
Frame == [first |-> TRUE, ok |-> TRUE, carry |-> "none", to |-> <<>>, busy |-> FALSE,
          pipe |-> TRUE, real |-> TRUE, doubt |-> FALSE, astray |-> FALSE, gone |-> FALSE]

Init == /\ files = <<>> /\ cwd = Home /\ procs = 0
        /\ commands = 0 /\ hist = <<>> /\ exited = FALSE /\ cap = FALSE /\ ok = TRUE
        /\ frames = <<>> /\ told = {} /\ segs = 0
        /\ differs = FALSE
        /\ ghost = [clobbered |-> FALSE, named |-> {}, payload |-> {}, exotic |-> FALSE]

(***************************************************************************)
(* Paths and files.                                                        *)
(***************************************************************************)
\* Home and the current directory are put in front, then .. is taken away.
Up(path) == IF path = <<>> THEN path ELSE Front(path)
Resolve(arg) ==
    LET whole == IF arg.abs THEN arg.p ELSE cwd \o arg.p
        walk[n \in 0 .. Len(whole)] ==
          IF n = 0 THEN <<>>
          ELSE IF whole[n] = ".." THEN Up(walk[n - 1]) ELSE Append(walk[n - 1], whole[n])
    IN  walk[Len(whole)]

Temporary == {Tmp, <<"var", "tmp">>, <<"dev", "shm">>}
In(dirs, path) == \E dir \in dirs : IsStrictPrefix(dir, path)
InWritable(path) == In(Temporary \cup {Home, <<"home">>, <<"var", "run">>}, path)

\* Downloads and dd that may not write where they were told land in /tmp.
Landing(path) == IF InWritable(path) \/ path = <<>> THEN path ELSE Append(Tmp, Last(path))

Has(path)  == \E i \in DOMAIN files : files[i].path = path
\* findFile_: the first of that name.
Find(path) == CHOOSE i \in DOMAIN files :
                 files[i].path = path /\ \A j \in 1..(i - 1) : files[j].path # path

\* isDir_: a file of the session hides a directory of the image.
IsDir(path) == IF Has(path) THEN files[Find(path)].dir ELSE path \in Dirs

\* rm takes a name with all that is below it; nothing is found below /.
Below(path, name) == name = path \/ (path # <<>> /\ IsPrefix(path, name))

Blank(path) == [path |-> path, url |-> "none", exec |-> FALSE, dir |-> FALSE]

\* The file of that name, or the new one createFile_ would make.
At(path) == IF Has(path) THEN files[Find(path)] ELSE Blank(path)

\* createFile_ and what the caller makes of the file it returns; one more than
\* the limit ends the session.
Store(path, file) ==
    /\ files' = CASE Has(path) -> [files EXCEPT ![Find(path)] = file]
                  [] ~Has(path) /\ Len(files) < MaxFiles -> Append(files, file)
                  [] OTHER -> files
    /\ cap' = (cap \/ (~Has(path) /\ Len(files) >= MaxFiles))

\* The event is handed to logEvent_. Whether it gets into the log is not known
\* to anyone: without a path or a file that opens it is dropped in silence.
Logs(kind) == told' = told \cup {kind}
\* The marks that the line has in the history.
Marked(marks) == hist' = [hist EXCEPT ![Len(hist)] = @ \cup marks]
Names(path) == ghost' = [ghost EXCEPT !.named = @ \cup {path}]

(***************************************************************************)
(* The commands that change something. Each leaves the exit status to ok'. *)
(***************************************************************************)
\* A download is believed, and logged even when there is no room for the file.
\* Only a command name with one blank behind it leaves a mark: the tokenizer
\* also takes more of them, tabs and quotes.
Fetched(path) == \E u \in Urls, plain \in BOOLEAN :
    /\ Store(path, [At(path) EXCEPT !.url = u])
    /\ ghost' = [ghost EXCEPT !.named = @ \cup {path}, !.exotic = @ \/ ~plain]
    /\ Logs("download_url") /\ Marked(IF plain THEN {"fetch"} ELSE {}) /\ ok' = TRUE
    /\ UNCHANGED <<cwd, procs, exited>>

Wget   == \E arg \in Args : Fetched(Landing(Resolve(arg)))
Tftp   == \E arg \in Args : Fetched(Landing(Resolve(arg)))
Ftpget == \E arg \in Args : Fetched(Landing(Resolve(arg)))

\* Without -o it only prints.
Curl == \/ \E arg \in Args : Fetched(Landing(Resolve(arg)))
        \/ /\ Logs("download_url") /\ ok' = TRUE
           /\ \E marks \in {{}, {"fetch"}} : Marked(marks)
           /\ UNCHANGED <<files, cwd, procs, exited, cap, ghost>>

Dd == \E arg \in Args :
    /\ Store(Landing(Resolve(arg)), At(Landing(Resolve(arg))))
    /\ Names(Landing(Resolve(arg)))
    /\ ok' = TRUE
    /\ UNCHANGED <<cwd, procs, exited, told>>

\* A mode that makes no file executable takes that from none either. Odd is
\* one that does, spelled so that the classifier does not find it: 700, 0777,
\* or 777 after two blanks.
Chmod == \E arg \in Args, mode \in {"777", "odd", "644"} :
    /\ Store(Resolve(arg), [At(Resolve(arg)) EXCEPT !.exec = @ \/ mode # "644"])
    /\ ghost' = [ghost EXCEPT !.named = @ \cup {Resolve(arg)}, !.exotic = @ \/ mode = "odd"]
    /\ Logs("chmod") /\ Marked(IF mode = "777" THEN {"chmod"} ELSE {}) /\ ok' = TRUE
    /\ UNCHANGED <<cwd, procs, exited>>

Touch == \E arg \in Args :
    /\ Store(Resolve(arg), At(Resolve(arg))) /\ Names(Resolve(arg)) /\ ok' = TRUE
    /\ UNCHANGED <<cwd, procs, exited, told>>

Mkdir == \E arg \in Args :
    /\ Store(Resolve(arg), [At(Resolve(arg)) EXCEPT !.dir = TRUE]) /\ ok' = TRUE
    /\ UNCHANGED <<cwd, procs, exited, told, ghost>>

\* Slip: what is below the name is left behind.
RmOne == \E arg \in Args :
    /\ files' = SelectSeq(files, LAMBDA f : f.path # Resolve(arg))
    /\ ok' = TRUE /\ UNCHANGED <<cwd, procs, exited, cap, told, ghost>>
\* The files that are not removed, in their order.
Without(path) ==
    LET kept[n \in 0 .. Len(files)] ==
          IF n = 0 THEN <<>>
          ELSE IF Below(path, files[n].path) THEN kept[n - 1] ELSE Append(kept[n - 1], files[n])
    IN  kept[Len(files)]
Rm == \E arg \in Args :
    /\ files' = Without(Resolve(arg))
    /\ ok' = TRUE
    /\ UNCHANGED <<cwd, procs, exited, cap, told, ghost>>

Lands(path) == ghost' = [ghost EXCEPT !.clobbered = @ \/ Has(path), !.named = @ \cup {path}]

\* Neither looks for a file that has the new name, or whether it may be there.
Mv == \E from \in Args, to \in Args :
    /\ Has(Resolve(from))
    /\ files' = [files EXCEPT ![Find(Resolve(from))].path = Resolve(to)]
    /\ Lands(Resolve(to)) /\ ok' = TRUE
    /\ UNCHANGED <<cwd, procs, exited, cap, told>>

\* Slip: the copy is made although the table is full.
CpAlways == \E from \in Args, to \in Args :
    /\ Has(Resolve(from))
    /\ files' = Append(files, [files[Find(Resolve(from))] EXCEPT !.path = Resolve(to)])
    /\ Lands(Resolve(to)) /\ ok' = TRUE
    /\ UNCHANGED <<cwd, procs, exited, cap, told>>
\* A full table makes no copy, and the session goes on.
Cp == \E from \in Args, to \in Args :
    /\ Has(Resolve(from))
    /\ files' = IF Len(files) < MaxFiles
                   THEN Append(files, [files[Find(Resolve(from))] EXCEPT !.path = Resolve(to)])
                   ELSE files
    /\ Lands(Resolve(to)) /\ ok' = TRUE
    /\ UNCHANGED <<cwd, procs, exited, cap, told>>

Cd == \E arg \in Args :
    /\ ok' = IsDir(Resolve(arg))
    /\ cwd' = IF IsDir(Resolve(arg)) THEN Resolve(arg) ELSE cwd
    /\ UNCHANGED <<files, procs, exited, cap, told, ghost>>

\* What is looked for as a file: ./x, and of the absolute names the scripts and
\* those in the directories for temporary files.
PathCommand == {arg \in Args : \/ ~arg.abs \/ In(Temporary, arg.p)
                               \/ arg.p # <<>> /\ Last(arg.p) \in Scripts}

Execute == \E arg \in PathCommand :
    LET path == Resolve(arg)
        runs == Has(path) /\ files[Find(path)].exec
    IN  /\ ok' = runs
        /\ procs' = IF runs /\ procs < MaxProcs THEN procs + 1 ELSE procs
        /\ IF runs THEN Logs("payload_execution") ELSE UNCHANGED told
        /\ ghost' = IF runs THEN [ghost EXCEPT !.payload = @ \cup {files[Find(path)].url}] ELSE ghost
        /\ UNCHANGED <<files, cwd, exited, cap>>

(***************************************************************************)
(* The commands that change nothing but the status of the chain. (crontab  *)
(* and export change texts that only their own listings read.)             *)
(***************************************************************************)
Echo == ok' = TRUE /\ UNCHANGED <<core, ghost>>

\* The branches for directories of the image come before the look at the files.
Ls == \E arg \in Args : /\ ok' = (Resolve(arg) \in Dirs \/ IsDir(Resolve(arg)))
                        /\ UNCHANGED <<core, ghost>>

\* cat, and head and tail of what it prints.
Cat == \E arg \in Args : ok' = Has(Resolve(arg)) /\ UNCHANGED <<core, ghost>>

\* Nothing found is a failure.
Grep == ok' \in BOOLEAN /\ UNCHANGED <<core, ghost>>

\* Sleep, package managers, services, nc, ping, iptables: an event, no effect.
LogOnly == ok' = TRUE /\ UNCHANGED <<core, ghost>>

Interpret == ok' = TRUE /\ UNCHANGED <<core, ghost>>

\* Silently accepted or unknown.
Answer == ok' \in BOOLEAN /\ UNCHANGED <<core, ghost>>

Exit == /\ exited' = TRUE /\ ok' = TRUE
        /\ UNCHANGED <<files, cwd, procs, cap, told, ghost>>

RunOne == \/ Wget \/ Curl \/ Tftp \/ Ftpget \/ Chmod
          \/ /\ UNCHANGED hist
             /\ \/ Dd \/ Touch \/ Mkdir \/ Rm \/ Mv \/ Cp \/ Cd \/ Execute \/ Exit
                \/ Echo \/ Ls \/ Cat \/ Grep \/ LogOnly \/ Interpret \/ Answer

(***************************************************************************)
(* Lines.                                                                  *)
(***************************************************************************)
Top == frames[Len(frames)]
WithTop(f) == [frames EXCEPT ![Len(frames)] = f]

Ready == frames = <<>> /\ ~exited /\ ~cap /\ segs < MaxSegments

\* execute(): one line too many ends the session.
Line ==
    /\ Ready
    /\ commands' = commands + 1
    /\ cap' = (commands + 1 > MaxCommands)
    /\ frames' = IF cap' THEN <<>> ELSE <<Frame>>
    /\ hist' = IF cap' THEN hist
               ELSE Append(IF Len(hist) = HistMax THEN Tail(hist) ELSE hist, {})
    /\ UNCHANGED <<files, cwd, procs, exited, told, ok, segs, differs, ghost>>

\* So does one that is too long.
LongLine == /\ Ready
            /\ cap' = TRUE
            /\ UNCHANGED <<files, cwd, procs, exited, told, commands, hist, ok, frames, segs,
                           differs, ghost>>

Separators == {";", "&&", "||", "|"}

\* The next segment of the innermost chain, and the separator before it.
Reach(sep) ==
    /\ frames # <<>> /\ ~Top.busy /\ ~exited /\ ~cap
    /\ segs < MaxSegments /\ segs + commands <= MaxSegments
    /\ segs' = segs + 1
    /\ sep \in IF Top.first THEN {"none"}
               ELSE IF Top.carry # "none" THEN {Top.carry} ELSE Separators

\* A segment that is empty, or only assigns or redirects, goes, and with it
\* the separator behind it.
Drop == \E sep \in Separators \cup {"none"} :
          /\ Reach(sep)
          /\ frames' = WithTop([Top EXCEPT !.gone = TRUE, !.carry = sep])
          /\ UNCHANGED <<core, commands, hist, ok, differs, ghost>>

Runs(sep) == CASE sep = "&&" -> Top.ok
               [] sep = "||" -> ~Top.ok
               [] OTHER -> TRUE

\* What the shell does: it goes by its own status, and skips a pipeline as one.
Status == IF frames # <<>> /\ ~Top.astray THEN {Top.real} ELSE BOOLEAN
BashRuns(sep, status) == CASE sep = "&&" -> status
                           [] sep = "||" -> ~status
                           [] sep = "|"  -> Top.pipe
                           [] OTHER -> TRUE

\* The shell cannot open what the segment is redirected to, and does not run it.
Fails(to) == /\ to # <<>>
             /\ LET path == Resolve(to[1])
                IN  ~InWritable(path) \/ IsDir(path) \/ ~IsDir(Front(path))

Exempt(sep, fails) == Top.gone \/ Top.astray \/ (sep = "|" /\ ~Top.pipe) \/ fails
Reached(sep, run, bash, fails) == differs' = (differs \/ (run # bash /\ ~Exempt(sep, fails)))

\* Slip: a segment that is skipped counts as failed.
SkipFails == \E sep \in Separators, status \in Status :
          /\ Reach(sep) /\ ~Runs(sep)
          /\ frames' = WithTop([Top EXCEPT !.carry = "none", !.ok = FALSE,
                                           !.pipe = BashRuns(sep, status)])
          /\ Reached(sep, FALSE, BashRuns(sep, status), FALSE)
          /\ UNCHANGED <<core, commands, hist, ok, ghost>>
Skip == \E sep \in Separators, status \in Status :
          /\ Reach(sep) /\ ~Runs(sep)
          /\ frames' = WithTop([Top EXCEPT !.carry = "none", !.pipe = BashRuns(sep, status)])
          /\ Reached(sep, FALSE, BashRuns(sep, status), FALSE)
          /\ UNCHANGED <<core, commands, hist, ok, ghost>>

\* The segment runs; its redirection and its status are dealt with after it.
Started(sep, status, to) ==
    /\ Reach(sep) /\ Runs(sep) /\ Reached(sep, TRUE, BashRuns(sep, status), Fails(to))
    /\ UNCHANGED commands
Running(pipe, to, doubt) ==
    [Top EXCEPT !.first = FALSE, !.carry = "none", !.to = to, !.busy = TRUE,
                !.pipe = pipe, !.doubt = doubt]

Segment == \E sep \in Separators \cup {"none"}, status \in Status, to \in Redirects :
    /\ Started(sep, status, to) /\ RunOne
    /\ frames' = WithTop(Running(BashRuns(sep, status), to, Fails(to)))

\* sh -c: a chain of its own, except on the last line of a session. When the
\* shell may not run the segment, it need not read that chain.
Script == \E sep \in Separators \cup {"none"}, status \in Status, to \in Redirects :
    /\ Started(sep, status, to) /\ Len(frames) <= MaxDepth
    /\ ok' = TRUE
    /\ frames' = IF commands < MaxCommands
                 THEN Append(WithTop(Running(BashRuns(sep, status), to, Fails(to))),
                             [Frame EXCEPT !.gone = Exempt(sep, Fails(to))])
                 ELSE WithTop(Running(BashRuns(sep, status), to, TRUE))
    /\ UNCHANGED <<core, hist, ghost>>

\* runWithRedirects_: output goes to a file only where one may write; then the
\* chain takes the status. So does the shell, when it ran the segment.
Redirect ==
    /\ frames # <<>> /\ Top.busy
    /\ IF Top.to # <<>> /\ InWritable(Resolve(Top.to[1]))
          THEN /\ Store(Resolve(Top.to[1]), At(Resolve(Top.to[1]))) /\ Names(Resolve(Top.to[1]))
               /\ IF Last(Resolve(Top.to[1])) = "authorized_keys"
                     /\ (Has(Resolve(Top.to[1])) \/ Len(files) < MaxFiles)
                     THEN Logs("authorized_key_added") ELSE UNCHANGED told
          ELSE UNCHANGED <<files, cap, told, ghost>>
    /\ frames' = WithTop([Top EXCEPT !.busy = FALSE, !.to = <<>>, !.ok = ok, !.real = ok,
                                     !.astray = ~Top.pipe \/ Top.doubt, !.doubt = FALSE])
    /\ UNCHANGED <<cwd, procs, exited, commands, hist, ok, segs, differs>>

\* The chain is through, or the session is over. The status of a script is the
\* shell's too when both went through its chain alike.
Return == /\ frames # <<>> /\ ~Top.busy
          /\ frames' = IF Len(frames) = 1 THEN <<>>
                       ELSE [Front(frames) EXCEPT ![Len(frames) - 1].doubt =
                                                     @ \/ Top.astray \/ Top.gone]
          /\ UNCHANGED <<core, commands, hist, ok, segs, differs, ghost>>

Next == Line \/ LongLine \/ Drop \/ Skip \/ Segment \/ Script \/ Redirect \/ Return

Spec == Init /\ [][Next]_vars

\* commandSummary: from the oldest line on, as many as there is room for.
Summary == UNION {hist[i] : i \in {j \in DOMAIN hist : j <= SummaryMax}}

(***************************************************************************)
(* Properties.                                                             *)
(***************************************************************************)
TypeOK ==
    /\ \A i \in DOMAIN files : /\ files[i].path \in Seq(Parts)
                              /\ files[i].url \in Urls \cup {"none"}
                              /\ files[i].exec \in BOOLEAN /\ files[i].dir \in BOOLEAN
    /\ exited \in BOOLEAN /\ cap \in BOOLEAN /\ ok \in BOOLEAN
    /\ Len(hist) <= HistMax /\ \A i \in DOMAIN hist : hist[i] \subseteq Marks
    /\ \A i \in DOMAIN frames : frames[i].carry \in Separators \cup {"none"}
    /\ segs \in 0..MaxSegments

\* The memory one session takes is bounded, whichever commands make files and
\* processes, and a session over a limit is one the runner is told to end.
LimitsHold == /\ Len(files) <= MaxFiles /\ procs <= MaxProcs
              /\ commands <= MaxCommands + 1 /\ (commands > MaxCommands => cap)

\* A chain runs a segment exactly when a shell would that has got the same
\* statuses from the emulated commands. The exceptions, where the code does
\* otherwise: what a skipped segment is piped into runs; so does a command whose
\* redirection fails; a dropped segment, or a script that is not run any more,
\* leaves no status of its own; and what follows one of these is not judged until
\* both have run a segment again (for a dropped segment: until the chain ends).
RunsLikeBash == ~differs

\* When a payload ran, its execution, the chmod that allowed it and, when it was
\* downloaded, the download were handed to logEvent_. (They are in the log as far
\* as that could write it.)
PayloadTrail == /\ ghost.payload # {} => {"chmod", "payload_execution"} \subseteq told
                /\ ghost.payload \ {"none"} # {} => "download_url" \in told

\* A directory of the image stays one, unless a command named it as a file
\* (touch and chmod do: after chmod 777 /tmp there is no cd /tmp).
ImageStays == \A dir \in Dirs : IsDir(dir) \/ dir \in ghost.named

\* A session that ran a downloaded payload is a loader, whatever else it did;
\* unless a download or a chmod was spelled so that the classifier's needles
\* miss it, or the summary or the history has lost lines.
LoaderRecognised ==
    (ghost.payload \ {"none"} # {} /\ ~ghost.exotic /\ commands <= SummaryMax /\ commands <= HistMax)
        => \A last \in {0, 600, 9000}, dict \in BOOLEAN, private \in BOOLEAN :
              Classify(Summary, commands, 1, dict, 0, last, private) \in {"mirai", "iot-loader"}

\* The files are a map from names, until a copy or a rename lands on a name
\* that is taken: then both are there, and the older one is found.
Content(file) == [url |-> file.url, exec |-> file.exec, dir |-> file.dir]
Contents == [path \in {files[i].path : i \in DOMAIN files} |-> Content(files[Find(path)])]
Disk == INSTANCE ShellDisk WITH
          Urls <- Urls \cup {"none"}, disk <- Contents, void <- ghost.clobbered
DiskIsAMap == Disk!Spec

\* A payload that ran is told: to the log and by the label.
PayloadTold == PayloadTrail /\ LoaderRecognised

\* Whatever is made, copied, moved and removed, the session's memory is bounded
\* and the image's directories stay.
FilesHold == TypeOK /\ LimitsHold /\ ImageStays

=============================================================================
