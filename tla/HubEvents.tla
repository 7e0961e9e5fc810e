------------------------------ MODULE HubEvents ------------------------------
(***************************************************************************)
(* hub_build_events_ (intel.cpp): the transcript of a session as the hub   *)
(* gets it. A line of the file is its direction and the length of its      *)
(* payload; what the payload says is its place in the file.                *)
(***************************************************************************)
EXTENDS Integers, SequencesExt

CONSTANTS MaxEvents,     \* kHubMaxEvents
          MaxEventBytes, \* kHubMaxEventBytes
          LineMax        \* what buf holds

ASSUME EventsAssumption ==
    /\ MaxEvents \in Nat \ {0} /\ MaxEventBytes \in Nat /\ LineMax \in 1..MaxEventBytes

\* A recording is a sequence of these; a bad line has no direction.
Recorded == [k : {"i", "o", "bad"}, len : Nat]

\* A line the buffer cuts in two parses in neither part.
Parses(line) == line.k \in {"i", "o"} /\ line.len > 0 /\ line.len < LineMax

Start == [events |-> <<>>, pending |-> <<>>, k |-> "none", len |-> 0, total |-> 0,
          truncated |-> FALSE, stop |-> FALSE]

\* Slip: the event past the last is lost without a word.
FlushSilently(b) ==
    IF b.len = 0 THEN b
    ELSE [b EXCEPT !.pending = <<>>, !.k = "none", !.len = 0,
                   !.events = IF Len(@) >= MaxEvents THEN @
                              ELSE Append(@, [k |-> b.k, d |-> b.pending])]
Flush(b) ==
    IF b.len = 0 THEN b
    ELSE [b EXCEPT !.pending = <<>>, !.k = "none", !.len = 0,
                   !.truncated = @ \/ Len(b.events) >= MaxEvents,
                   !.events = IF Len(@) >= MaxEvents THEN @
                              ELSE Append(@, [k |-> b.k, d |-> b.pending])]

Extend(b, cast, n) ==
    LET turned == IF b.k \notin {"none", cast[n].k} THEN Flush(b) ELSE b
        room   == IF turned.len + cast[n].len > MaxEventBytes THEN Flush(turned) ELSE turned
    IN  [room EXCEPT !.pending = Append(@, n), !.k = cast[n].k,
                     !.len = @ + cast[n].len, !.total = @ + cast[n].len]

\* A pass of the loop over the lines; over the budget it breaks.
Read(b, cast, n, budget) ==
    IF b.stop \/ ~Parses(cast[n]) THEN b
    ELSE IF b.total + cast[n].len > budget
         THEN [b EXCEPT !.truncated = TRUE, !.stop = TRUE]
         ELSE Extend(b, cast, n)

Build(cast, budget) ==
    LET after[n \in 0 .. Len(cast)] ==
          IF n = 0 THEN Start ELSE Read(after[n - 1], cast, n, budget)
    IN  Flush(after[Len(cast)])

(***************************************************************************)
(* What the hub may rely on.                                               *)
(***************************************************************************)
\* The lines in the events, their bytes, and the lines there were to tell.
Sent(events) ==
    LET upto[n \in 0 .. Len(events)] == IF n = 0 THEN <<>> ELSE upto[n - 1] \o events[n].d
    IN  upto[Len(events)]
Bytes(cast, lines) ==
    LET upto[n \in 0 .. Len(lines)] == IF n = 0 THEN 0 ELSE upto[n - 1] + cast[lines[n]].len
    IN  upto[Len(lines)]
ToTell(cast) ==
    LET upto[n \in 0 .. Len(cast)] ==
          IF n = 0 THEN <<>>
          ELSE IF Parses(cast[n]) THEN Append(upto[n - 1], n) ELSE upto[n - 1]
    IN  upto[Len(cast)]

Faithful(cast, budget, events, truncated) ==
    /\ IsPrefix(Sent(events), ToTell(cast))
    /\ truncated <=> Sent(events) # ToTell(cast)
    /\ Len(events) <= MaxEvents /\ Bytes(cast, Sent(events)) <= budget
    /\ \A n \in DOMAIN events : /\ events[n].d # <<>>
                                /\ \A l \in ToSet(events[n].d) : cast[l].k = events[n].k
                                /\ Bytes(cast, events[n].d) <= MaxEventBytes
    /\ \A n \in 1..(Len(events) - 1) :
          events[n].k = events[n + 1].k =>
              Bytes(cast, events[n].d) + cast[Head(events[n + 1].d)].len > MaxEventBytes

===============================================================================
