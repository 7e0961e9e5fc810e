-------------------------- MODULE AttackClassifier --------------------------
(***************************************************************************)
(* classify_attack (attack_classifier.cpp): the label of a session from    *)
(* what its commands contain, its cadence and its credentials. A text is   *)
(* the set of the marks that are found in it.                              *)
(***************************************************************************)
EXTENDS Naturals

\* Of the marks, "chmod" is one of the three spellings that are looked for,
\* "tmp" a path that payloads are run from.
Marks == {"mirai", "fetch", "chmod", "tmp", "human", "recon"}

\* Slip: only what is run from /tmp counts.
LoaderTmp(text) == "fetch" \in text /\ "tmp" \in text
Loader(text) == "fetch" \in text /\ ("chmod" \in text \/ "tmp" \in text)

\* Milliseconds between two commands; a clock that wrapped counts as no time.
AvgGap(commands, first, last) ==
    LET span == IF last > first THEN last - first ELSE 0
    IN  IF commands > 1 THEN span \div (commands - 1) ELSE span

Quiet(attempts, dict) ==
    IF dict THEN "scanner" ELSE IF attempts > 0 THEN "creds-only" ELSE "creds-probe"

Cadence(text, commands, gap, dict, private) ==
    IF "human" \in text /\ gap > 800 THEN "manual"
    ELSE IF dict /\ "recon" \in text THEN "scanner"
    ELSE IF "recon" \in text /\ gap < 500 THEN "recon-script"
    ELSE IF gap < 150 /\ commands >= 3 THEN "scripted"
    ELSE IF dict THEN "scanner"
    ELSE IF gap > 1500 THEN "manual"
    ELSE IF private THEN "lan" ELSE "scanner"

Classify(text, commands, attempts, dict, first, last, private) ==
    IF "mirai" \in text THEN "mirai"
    ELSE IF Loader(text) THEN "iot-loader"
    ELSE IF commands = 0 THEN Quiet(attempts, dict)
    ELSE Cadence(text, commands, AvgGap(commands, first, last), dict, private)
=============================================================================
