--------------------------- MODULE EvidenceScripts ---------------------------
(***************************************************************************)
(* How the evidence of a dossier (audit/<dossier>/) comes about.  The      *)
(* scripts of a dossier compare artefacts of the working tree with what    *)
(* was accepted, query the compiled modules, and leave files: the hashes   *)
(* of the sources they saw, the axioms they found, a receipt that hashes   *)
(* all of it.  A script is a sequence of steps that stops at the first     *)
(* step that fails (an assertion, an exit code); nothing it wrote before   *)
(* is taken back, and nothing keeps the tree still while it runs.          *)
(*                                                                         *)
(* This module runs the scripts; EvidenceDossiers says what they are.      *)
(*                                                                         *)
(* An artefact has a version; version 0 of an artefact other than "new"    *)
(* and "build" is the one that was accepted or pinned. The version of      *)
(* "build" is the version of "new" that was compiled, and the version of   *)
(* "compiled" is the version of "tests" that Foundry compiled, if its      *)
(* output is there: it is not part of a checkout.                          *)
(***************************************************************************)
EXTENDS Naturals, Sequences

CONSTANTS
    Artefacts,   \* what a script looks at in the tree
    Files,       \* what the scripts of a dossier write
    Versions,    \* of each artefact the versions it may have
    Escaping,    \* the versions of "new" with a sorry, an axiom or the like in their text
    Unsound,     \* the versions whose theorems rest on more than the three ordinary axioms
    Dropping,    \* the versions that no longer have the conclusion of the theorem they extend
    Missing,     \* the version of "compiled" when it is not there
    Dossiers,    \* of each dossier its scripts by role and its committed files
    MaxEdits,    \* bound on the edits of the tree
    MaxRuns      \* bound on the runs of scripts

VARIABLES
    dossier,     \* the dossier at work, which does not change
    tree,        \* the version of each artefact
    files,       \* the content of each file
    role, mode,  \* the script that runs or ran last, and whether it writes or compares
    pc,          \* its next step
    seen,        \* the version of each artefact that it read last
    steady,      \* nobody else has touched the tree since it started
    status,      \* "idle", "running", "passed", "failed" or "crashed"
    edits, runs  \* how many there were

vars == <<dossier, tree, files, role, mode, pc, seen, steady, status, edits, runs>>

\* A file is the set of its rows, each the name of an artefact or a file and what
\* it was. One that is not there has none; of one that was cut off none is read.
Absent == {}
Torn   == {<<"torn", 0>>}
There(f)    == files[f] # Absent
Readable(f) == There(f) /\ files[f] # Torn

\* Steps
Looks   == {"match", "words", "foundations", "carried", "read", "adopt"}
Reviews == {"same", "held", "sound", "load"}
Writes  == {"record", "keep"}
Leaves  == Writes \cup {"forge"}       \* the steps that leave a file
Ops     == Looks \cup Reviews \cup Leaves \cup {"compile"}

Scripts == Dossiers[dossier].scripts
Script  == Scripts[role]
Step    == Script.steps[pc]
Running == status = "running"

----------------------------------------------------------------------------
\* The order of the steps in a script

\* What the rows of a file can be about.
Rows(d, f) ==
    {x \in Artefacts \cup Files :
        \/ \E row \in Dossiers[d].committed[f] : row[1] = x
        \/ \E r \in DOMAIN Dossiers[d].scripts :
              LET steps == Dossiers[d].scripts[r].steps
              IN  \E i \in DOMAIN steps : /\ steps[i].op \in Leaves /\ steps[i].file = f
                                         /\ x \in steps[i].on}

\* What a step is about: nothing of it may change after it, but for the file that
\* is adopted, which the script writes again.
ReliesOn(d, st) == st.on \cup (IF st.op = "adopt" THEN {} ELSE {st.file})
                         \cup (IF st.op = "held" THEN Rows(d, st.file) ELSE {})

\* The names in a step are of the right kind.
StepIsTyped(st) ==
    /\ st.op \in Ops
    /\ st.op \in Leaves \cup Reviews \cup {"adopt"} => st.file \in Files
    /\ st.op \in Looks \cup {"forge"} => st.on \subseteq Artefacts
    /\ st.op = "adopt" => {"compiled", "tests"} \subseteq st.on
    /\ st.op \in (Looks \ {"adopt"}) \cup {"forge"} => "compiled" \notin st.on
    /\ st.op = "foundations" => "build" \in st.on
    /\ st.op \in {"record", "keep", "same"} =>
           st.on \subseteq Artefacts \cup Files /\ st.file \notin st.on

\* What a script writes about it has looked at, and what it has looked at, written
\* or demanded it does not change again.
WellOrderedScript(d, steps) ==
    \A i \in DOMAIN steps :
        /\ StepIsTyped(steps[i])
        /\ steps[i].op \in Leaves \cup {"same"} =>
               \A a \in steps[i].on \cap Artefacts : \E k \in 1..(i - 1) :
                   steps[k].op \in Looks /\ a \in steps[k].on
        /\ \A j \in (i + 1)..Len(steps) :
               /\ steps[j].op \in Leaves => steps[j].file \notin ReliesOn(d, steps[i])
               /\ steps[j].op = "compile" => "build" \notin ReliesOn(d, steps[i])

\* A script that needs no file that it does not write itself (but to adopt it).
NeedsNoFile(steps) ==
    \A i \in DOMAIN steps :
        steps[i].op \in Reviews \cup {"keep"} =>
            \E j \in 1..(i - 1) :
                steps[j].op \in {"record", "forge"} /\ steps[j].file = steps[i].file

\* If it can write, it demands no version of the new modules, leaves no file empty,
\* and compares a file with what it wrote there.
Demands(steps) ==
    \A i \in DOMAIN steps :
        /\ steps[i].op \in {"match", "forge"} => steps[i].on \cap {"new", "build"} = {}
        /\ steps[i].op = "carried" => "build" \notin steps[i].on
        /\ steps[i].op \in {"record", "forge"} => steps[i].on \cap Artefacts # {}
        /\ steps[i].op = "same" => \A j \in 1..(i - 1) :
               steps[j].op \in {"record", "forge"} /\ steps[j].file = steps[i].file =>
                   steps[j].on = steps[i].on

ASSUME NamesAssumption ==
    /\ Artefacts \cap Files = {} /\ "torn" \notin Artefacts \cup Files
    /\ {"new", "build", "tests", "compiled"} \subseteq Artefacts

\* Version 0 of the new modules is the one that was accepted, and is one.
ASSUME VersionsAssumption == 0 \notin Escaping \cup Unsound \cup Dropping \cup {Missing}

ASSUME DossiersAssumption ==
    \A d \in DOMAIN Dossiers :
        /\ Dossiers[d].committed = [f \in Files |-> Dossiers[d].committed[f]]
        /\ \A f \in Files : \A row \in Dossiers[d].committed[f] : row[1] \in Artefacts \cup Files
        /\ \A r \in DOMAIN Dossiers[d].scripts :
               LET steps == Dossiers[d].scripts[r].steps
               IN  Len(steps) \in Nat \ {0} /\ DOMAIN steps = 1..Len(steps)

ASSUME OrderAssumption ==
    \A d \in DOMAIN Dossiers : \A r \in DOMAIN Dossiers[d].scripts :
        WellOrderedScript(d, Dossiers[d].scripts[r].steps)

ASSUME DemandsAssumption ==
    \A d \in DOMAIN Dossiers : \A r \in DOMAIN Dossiers[d].scripts :
        LET script == Dossiers[d].scripts[r]
        IN  "write" \in script.modes /\ NeedsNoFile(script.steps) => Demands(script.steps)

----------------------------------------------------------------------------
\* What a step finds

\* What Foundry compiled or, if that is not there, what the dossier keeps of it.
\* Altered form: what the dossier keeps comes first.
AdoptedFirst(f) == IF There(f) THEN files[f] ELSE {<<"compiled", tree["compiled"]>>}
Adopted(f) == IF tree["compiled"] # Missing THEN {<<"compiled", tree["compiled"]>>} ELSE files[f]

\* The tree as it is at the step: artefacts at their pins, no forbidden word in
\* the new sources, only ordinary axioms under the compiled theorems, the text of
\* the old theorem in the new one, what was compiled made of the tests there are.
Accepts(st) ==
    CASE st.op = "match"       -> \A a \in st.on : tree[a] = 0
      [] st.op = "words"       -> tree["new"] \notin Escaping
      [] st.op = "foundations" -> tree["build"] \notin Unsound
      [] st.op = "carried"     -> /\ tree["new"] \notin Dropping
                                  /\ \A a \in st.on \ {"new"} : tree[a] = 0
      [] st.op = "adopt"       -> Adopted(st.file) = {<<"compiled", tree["tests"]>>}
      [] st.op = "read"        -> TRUE

\* What a script writes about: the artefacts as it saw them, and the files of
\* the dossier that are there.
Content(S) ==
    {<<x, IF x \in Files THEN files[x] ELSE seen[x]>> : x \in {y \in S : y \in Files => There(y)}}

\* What is there now; what Foundry would compile, where its output is not there.
Now(x) == IF x \in Files THEN files[x]
          ELSE tree[IF x = "compiled" /\ tree[x] = Missing THEN "tests" ELSE x]
Current(S) == {<<x, Now(x)>> : x \in {y \in S : y \in Files => There(y)}}

\* The rows of a file are what they say.
Holds(f) == Readable(f) /\ \A row \in files[f] : row[2] = Now(row[1])

\* What a log or a list of axioms has to say: ordinary axioms, tests that pass.
Ordinary(row) == /\ row[1] = "build" => row[2] \notin Unsound
                 /\ row[1] = "tests" => row[2] = 0

Agrees(st) ==
    CASE st.op = "same"  -> files[st.file] = Content(st.on)
      [] st.op = "held"  -> Holds(st.file)
      [] st.op = "sound" -> Readable(st.file) /\ \A row \in files[st.file] : Ordinary(row)
      [] st.op = "load"  -> Readable(st.file)

----------------------------------------------------------------------------
Advance == /\ pc' = pc + 1
           /\ status' = IF pc = Len(Script.steps) THEN "passed" ELSE "running"
Stop    == status' = "failed" /\ UNCHANGED pc

\* Look at the tree. Altered form: a look at what was seen before is spared.
SeeOnce == [a \in Artefacts |-> IF a \in Step.on /\ pc = 1 THEN Now(a) ELSE seen[a]]
See == [a \in Artefacts |-> IF a \in Step.on THEN Now(a) ELSE seen[a]]

Look ==
    /\ Running /\ Step.op \in Looks
    /\ seen' = See
    /\ IF Accepts(Step) THEN Advance ELSE Stop
    /\ UNCHANGED <<dossier, tree, files, role, mode, steady, edits, runs>>

\* Look at a file of the dossier.
Review ==
    /\ Running /\ Step.op \in Reviews
    /\ IF Agrees(Step) THEN Advance ELSE Stop
    /\ UNCHANGED <<dossier, tree, files, role, mode, seen, steady, edits, runs>>

\* A writing run writes the file; a comparing one, and one that keeps a file it
\* finds, demands that it is there with the same content. Altered form: a writing
\* run reads the old file first.
WrittenIfRead(st) == mode = "write" /\ (There(st.file) => Readable(st.file) /\ st.op = "record")
Written(st) == mode = "write" /\ (st.op = "keep" => ~There(st.file))
SameContent(st) == files[st.file] = Content(st.on)

RecordFile ==
    /\ Running /\ Step.op \in Writes
    /\ \/ /\ Written(Step)
          /\ files' = [files EXCEPT ![Step.file] = Content(Step.on)]
          /\ Advance
       \/ /\ ~Written(Step)
          /\ IF SameContent(Step) THEN Advance ELSE Stop
          /\ UNCHANGED files
    /\ UNCHANGED <<dossier, tree, role, mode, seen, steady, edits, runs>>

\* Compile the new modules.
CompileModules ==
    /\ Running /\ Step.op = "compile"
    /\ tree' = [tree EXCEPT !["build"] = tree["new"]]
    /\ Advance
    /\ UNCHANGED <<dossier, files, role, mode, seen, steady, edits, runs>>

\* Run the Solidity tests that were read: the log is written before their verdict
\* counts.
RunForge ==
    /\ Running /\ Step.op = "forge"
    /\ files' = [files EXCEPT ![Step.file] = Content(Step.on)]
    /\ IF \A a \in Step.on : seen[a] = 0 THEN Advance ELSE Stop
    /\ UNCHANGED <<dossier, tree, role, mode, seen, steady, edits, runs>>

RunStep == Look \/ Review \/ RecordFile \/ CompileModules \/ RunForge

\* The run is killed, between two steps or while it writes.
Crash ==
    /\ Running
    /\ \/ UNCHANGED files
       \/ /\ Step.op = "forge" \/ (Step.op \in Writes /\ Written(Step))
          /\ files' = [files EXCEPT ![Step.file] = Torn]
    /\ status' = "crashed"
    /\ UNCHANGED <<dossier, tree, role, mode, pc, seen, steady, edits, runs>>

----------------------------------------------------------------------------
\* The developer
Begin(r, m) ==
    /\ ~Running /\ runs < MaxRuns
    /\ role' = r /\ mode' = m /\ pc' = 1 /\ runs' = runs + 1
    /\ seen' = [a \in Artefacts |-> 0]
    /\ steady' = TRUE /\ status' = "running"
    /\ UNCHANGED <<dossier, tree, files, edits>>

\* The artefacts that the scripts of the dossier look at.
Touched == {a \in Artefacts : \E r \in DOMAIN Scripts :
                \E i \in DOMAIN Scripts[r].steps : a \in Scripts[r].steps[i].on}

Edit(a, v) ==
    /\ edits < MaxEdits /\ a \in Touched /\ a # "build" /\ v # tree[a]
    /\ tree' = [tree EXCEPT ![a] = v]
    /\ edits' = edits + 1 /\ steady' = FALSE
    /\ UNCHANGED <<dossier, files, role, mode, pc, seen, status, runs>>

\* lake build
Build ==
    /\ tree["build"] # tree["new"]
    /\ tree' = [tree EXCEPT !["build"] = tree["new"]]
    /\ steady' = FALSE
    /\ UNCHANGED <<dossier, files, role, mode, pc, seen, status, edits, runs>>

Init ==
    /\ dossier \in DOMAIN Dossiers
    /\ \E v \in {0, Missing} :
           /\ v = Missing => "compiled" \in Touched
           /\ tree = [a \in Artefacts |-> IF a = "compiled" THEN v ELSE 0]
    /\ files \in {[f \in Files |-> Absent], Dossiers[dossier].committed}
    /\ role = (CHOOSE r \in DOMAIN Scripts : TRUE) /\ mode = "write"
    /\ pc = 1 /\ seen = [a \in Artefacts |-> 0]
    /\ steady = TRUE /\ status = "idle" /\ edits = 0 /\ runs = 0

Next ==
    \/ RunStep
    \/ Crash
    \/ \E r \in DOMAIN Scripts : \E m \in Scripts[r].modes : Begin(r, m)
    \/ \E a \in Artefacts : \E v \in Versions[a] : Edit(a, v)
    \/ Build

\* A process that runs goes on to its next step; nobody has to start one, to
\* edit or to build, and no run has to be killed.
Spec == Init /\ [][Next]_vars /\ WF_vars(RunStep)

----------------------------------------------------------------------------
\* What a pass says

\* What a step found, left behind or demanded is so now.
StepHolds(st) ==
    CASE st.op \in Looks \ {"adopt"}          -> Accepts(st)
      [] st.op = "adopt"                      -> tree["compiled"] \in {tree["tests"], Missing}
      [] st.op \in {"record", "keep", "same"} -> files[st.file] = Current(st.on)
      [] st.op \in {"held", "sound", "load"}  -> Agrees(st)
      [] st.op = "compile"                    -> tree["build"] = tree["new"]
      [] st.op = "forge" -> /\ \A a \in st.on : tree[a] = 0
                            /\ files[st.file] = Current(st.on)

\* If nobody touched the tree while a script ran, and the script passed, then all
\* of its checks would pass at its end, and every file it wrote or compared says
\* what is there: no step of it undid an earlier one, and nothing that an earlier
\* run left, cut off or out of date, was taken for what it should be.
PassIsAccepted ==
    status = "passed" /\ steady => \A i \in DOMAIN Script.steps : StepHolds(Script.steps[i])

SelfContained == NeedsNoFile(Script.steps)

\* A tree that the scripts accept: all at its pins, new modules that are sound and
\* say what the old ones said.
AtItsPins(a) ==
    \/ tree[a] = 0
    \/ a = "compiled" /\ tree[a] = Missing
    \/ a \in {"new", "build"} /\ tree[a] \notin Escaping \cup Unsound \cup Dropping
\* Where Foundry's output is not there, the copy of it that is adopted is whole and
\* is the accepted one.
Provided(st) ==
    st.op = "adopt" /\ tree["compiled"] = Missing => files[st.file] = {<<"compiled", 0>>}
Acceptable == /\ \A a \in Artefacts : AtItsPins(a)
              /\ \A i \in DOMAIN Script.steps : Provided(Script.steps[i])

\* A writing run of a script that needs no file of others, in such a tree, fails at
\* no step, whatever is left of the runs before it: neither a file that is cut off
\* nor one that is about another tree is in its way.  The one exception is in
\* Provided: a dossier's own copy of what Foundry compiled is read before it is
\* written again, unless Foundry's output is there.
AcceptedRunNeverFails ==
    ~(status = "failed" /\ steady /\ mode = "write" /\ SelfContained /\ Acceptable)

\* A writing run of such a script in such a tree passes, whatever is left of the
\* runs before it, unless it is killed or the tree is touched.
AcceptedRunPasses ==
    (Running /\ pc = 1 /\ mode = "write" /\ SelfContained /\ Acceptable)
        ~> (status \in {"passed", "crashed"} \/ ~steady)
=============================================================================
