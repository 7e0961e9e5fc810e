------------------------------ MODULE ShellDisk ------------------------------
(***************************************************************************)
(* What the file system of the emulated shell promises: a map from names   *)
(* to where the file was last downloaded from, whether it may be executed  *)
(* and whether it is a directory. One operation touches one name, or       *)
(* removes a subtree, or renames or copies one file to a free name. The    *)
(* promise ends when a copy or a rename lands on a name that is taken.     *)
(***************************************************************************)
EXTENDS SequencesExt

CONSTANT Urls   \* where files come from, with "none"

VARIABLES disk, void

diskvars == <<disk, void>>

Entry == [url : Urls, exec : BOOLEAN, dir : BOOLEAN]

\* The partial maps from names to entries.
Init == disk = [n \in {} |-> CHOOSE e \in Entry : TRUE] /\ void = FALSE

With(n, e) == [m \in DOMAIN disk \cup {n} |-> IF m = n THEN e ELSE disk[m]]
Fresh == [url |-> "none", exec |-> FALSE, dir |-> FALSE]
Now(n) == IF n \in DOMAIN disk THEN disk[n] ELSE Fresh

\* Commands that only read, or find nothing to change.
Look == UNCHANGED disk

\* Downloading, changing the mode, making a directory, touching: one entry.
Download == \E n \in DOMAIN disk', u \in Urls \ {"none"} :
               disk' = With(n, [Now(n) EXCEPT !.url = u])
Allow    == \E n \in DOMAIN disk' : disk' = With(n, [Now(n) EXCEPT !.exec = TRUE])
MakeDir  == \E n \in DOMAIN disk' : disk' = With(n, [Now(n) EXCEPT !.dir = TRUE])
Touch    == \E n \in DOMAIN disk' : disk' = With(n, Now(n))

\* A name goes with everything below it; the root takes nothing with it.
Under(n) == {m \in DOMAIN disk : m = n \/ (n # <<>> /\ IsPrefix(n, m))}
Delete == \E n \in UNION {Prefixes(m) : m \in DOMAIN disk} :
             disk' = Restrict(disk, DOMAIN disk \ Under(n))

Rename == \E n \in DOMAIN disk, m \in DOMAIN disk' \ DOMAIN disk :
             disk' = [k \in (DOMAIN disk \ {n}) \cup {m} |-> disk[IF k = m THEN n ELSE k]]
Copy   == \E n \in DOMAIN disk, m \in DOMAIN disk' \ DOMAIN disk : disk' = With(m, disk[n])

\* The promise is void from then on.
Collide == void' = TRUE

Next == \/ Collide
        \/ /\ UNCHANGED void
           /\ \/ void
              \/ Look \/ Download \/ Allow \/ MakeDir \/ Touch \/ Delete \/ Rename \/ Copy

Spec == Init /\ [][Next]_diskvars
=============================================================================
