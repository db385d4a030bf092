---------------------------- MODULE EvidenceProofs ----------------------------
(***************************************************************************)
(* A pass says what it should, for any dossiers whose scripts are well     *)
(* ordered (OrderAssumption), whatever their number and length, the        *)
(* versions there are and the number of edits and runs; and a writing run  *)
(* that finds an accepted tree fails at no step (DemandsAssumption).       *)
(***************************************************************************)
EXTENDS EvidenceScripts, TLAPS

\* The steps that the script has taken.
Taken == {Script.steps[k] : k \in 1..(pc - 1)}

\* Kinds of values, and where the script stands.
Typing ==
    /\ dossier \in DOMAIN Dossiers
    /\ tree = [a \in Artefacts |-> tree[a]]
    /\ seen = [a \in Artefacts |-> seen[a]]
    /\ files = [f \in Files |-> files[f]]
    /\ status \in {"running", "passed"} => role \in DOMAIN Scripts
    /\ Running => pc \in 1..Len(Script.steps)
    /\ status = "passed" => pc = Len(Script.steps) + 1

\* The rows of a file are about what its writers name.
RowsKnown ==
    \A f \in Files : files[f] = Torn \/ \A row \in files[f] : row[1] \in Rows(dossier, f)

\* What the script has looked at is still as it saw it.
SeenNow ==
    Running /\ steady =>
        \A st \in Taken : st.op \in Looks => \A a \in st.on : seen[a] = Now(a)

\* The steps taken still hold.
TakenHold ==
    status \in {"running", "passed"} /\ steady => \A st \in Taken : StepHolds(st)

IInv == Typing /\ RowsKnown /\ SeenNow /\ TakenHold

----------------------------------------------------------------------------
\* What the assumptions say of the script that runs.
LEMMA ScriptFacts ==
    ASSUME dossier \in DOMAIN Dossiers, role \in DOMAIN Scripts
    PROVE  /\ Len(Script.steps) \in Nat \ {0}
           /\ DOMAIN Script.steps = 1..Len(Script.steps)
           /\ WellOrderedScript(dossier, Script.steps)
BY DossiersAssumption, OrderAssumption DEF Script, Scripts

\* The step to take is typed, and what it writes about has been looked at.
LEMMA StepIsReady ==
    ASSUME Typing, Running
    PROVE  /\ StepIsTyped(Step)
           /\ Step.op \in Leaves \cup {"same"} =>
                 \A a \in Step.on \cap Artefacts : \E st \in Taken :
                     st.op \in Looks /\ a \in st.on
<1>1. pc \in DOMAIN Script.steps
  BY ScriptFacts DEF Typing, Running
<1>2. WellOrderedScript(dossier, Script.steps)
  BY ScriptFacts DEF Typing, Running
<1> QED
  BY <1>1, <1>2 DEF WellOrderedScript, Step, Taken

\* A step taken is typed, and the step to take changes nothing it relies on.
LEMMA TakenAreSafe ==
    ASSUME Typing, Running, NEW st \in Taken
    PROVE  /\ StepIsTyped(st)
           /\ Step.op \in Leaves => Step.file \notin ReliesOn(dossier, st)
           /\ Step.op = "compile" => "build" \notin ReliesOn(dossier, st)
<1>1. PICK k \in 1..(pc - 1) : st = Script.steps[k]
  BY DEF Taken
<1>2. /\ pc \in 1..Len(Script.steps) /\ Len(Script.steps) \in Nat
      /\ DOMAIN Script.steps = 1..Len(Script.steps)
      /\ WellOrderedScript(dossier, Script.steps)
  BY ScriptFacts DEF Typing, Running
<1>3. k \in DOMAIN Script.steps /\ pc \in (k + 1)..Len(Script.steps)
  BY <1>1, <1>2
<1> QED
  BY <1>1, <1>2, <1>3 DEF WellOrderedScript, Step

\* What a step of a script leaves alone.
LEMMA StepFrame ==
    ASSUME Typing, RunStep
    PROVE  /\ Running
           /\ UNCHANGED <<dossier, role, steady>> /\ Script' = Script
           /\ \A a \in Artefacts : (Step.op = "compile" /\ a = "build") \/ tree'[a] = tree[a]
           /\ tree'["build"] \in {tree["build"], tree["new"]}
           /\ \A f \in Files : (Step.op \in Leaves /\ f = Step.file) \/ files'[f] = files[f]
<1>1. Running /\ UNCHANGED <<dossier, role, steady>>
  BY DEF RunStep, Look, Review, RecordFile, CompileModules, RunForge
<1>2. Script' = Script
  BY <1>1 DEF Script, Scripts
<1>3. {"new", "build"} \subseteq Artefacts
  BY NamesAssumption
<1>4. CASE Look \/ Review
  BY <1>1, <1>2, <1>4 DEF Look, Review
<1>5. CASE RecordFile
  BY <1>1, <1>2, <1>5 DEF RecordFile, Typing, Leaves
<1>6. CASE CompileModules
  BY <1>1, <1>2, <1>3, <1>6 DEF CompileModules, Typing
<1>7. CASE RunForge
  BY <1>1, <1>2, <1>7 DEF RunForge, Typing, Leaves
<1> QED
  BY <1>4, <1>5, <1>6, <1>7 DEF RunStep

\* A script that goes on has one more step behind it.
LEMMA StepAdvances ==
    ASSUME Typing, RunStep, status' \in {"running", "passed"}
    PROVE  /\ Taken' = Taken \cup {Step}
           /\ pc' = pc + 1
           /\ status' = IF pc = Len(Script.steps) THEN "passed" ELSE "running"
<1>1. Advance
  BY DEF RunStep, Look, Review, RecordFile, CompileModules, RunForge, Stop
<1>2. pc \in 1..Len(Script.steps) /\ Len(Script.steps) \in Nat /\ Script' = Script
  BY StepFrame, ScriptFacts DEF Typing, Running
<1>3. pc' = pc + 1
  BY <1>1 DEF Advance
<1>4. 1..(pc' - 1) = (1..(pc - 1)) \cup {pc}
  BY <1>2, <1>3
<1>5. Taken' = {Script.steps[k] : k \in 1..(pc' - 1)}
  BY <1>2 DEF Taken
<1> QED
  BY <1>1, <1>3, <1>4, <1>5 DEF Taken, Step, Advance
----------------------------------------------------------------------------
\* What is there of an artefact stays if it does, and the tests do.
LEMMA NowStays ==
    ASSUME NEW a \in Artefacts, tree'[a] = tree[a], tree'["tests"] = tree["tests"]
    PROVE  Now(a)' = Now(a)
BY NamesAssumption DEF Now

\* Nothing that a step relies on changes, so what it found or left still holds.
LEMMA StepStillHolds ==
    ASSUME NEW st, StepIsTyped(st), StepHolds(st), RowsKnown,
           dossier' = dossier,
           \A a \in ReliesOn(dossier, st) \cap Artefacts : tree'[a] = tree[a],
           tree'["new"] = tree["new"], tree'["build"] \in {tree["build"], tree["new"]},
           tree'["tests"] = tree["tests"],
           \A f \in ReliesOn(dossier, st) \cap Files : files'[f] = files[f]
    PROVE  StepHolds(st)'
<1>1. /\ st.op \in Ops /\ st.on \subseteq ReliesOn(dossier, st)
      /\ st.op # "adopt" => st.file \in ReliesOn(dossier, st)
  BY DEF StepIsTyped, ReliesOn
<1>2. CASE st.op \in Looks \ {"adopt"}
  <2>1. Accepts(st) /\ st.on \subseteq Artefacts
    BY <1>2 DEF StepHolds, StepIsTyped, Looks
  <2>2. Accepts(st)'
    BY <1>1, <1>2, <2>1 DEF Accepts, StepIsTyped, Looks
  <2> QED
    BY <1>2, <2>2 DEF StepHolds, Looks
<1>10. CASE st.op = "adopt"
  <2>1. {"compiled", "tests"} \subseteq ReliesOn(dossier, st) \cap Artefacts
    BY <1>1, <1>10, NamesAssumption DEF StepIsTyped
  <2> QED
    BY <1>10, <2>1 DEF StepHolds, Looks
<1>3. CASE st.op \in {"record", "keep", "same"}
  <2>1. st.file \in Files /\ st.on \subseteq Artefacts \cup Files
    BY <1>3 DEF StepIsTyped, Leaves, Writes, Reviews
  <2>2. files'[st.file] = files[st.file]
    BY <1>1, <1>3, <2>1
  <2>3. \A x \in st.on : (x \in Files => There(x))' = (x \in Files => There(x))
                       /\ (x \in Files /\ There(x) => Now(x)' = Now(x))
                       /\ (x \notin Files => Now(x)' = Now(x))
    BY <1>1, <1>3, <2>1, NowStays DEF There, Now
  <2>4. Current(st.on)' = Current(st.on)
    BY <2>3 DEF Current
  <2>5. files[st.file] = Current(st.on)
    BY <1>3 DEF StepHolds, Looks
  <2>6. files'[st.file] = Current(st.on)'
    BY <2>2, <2>4, <2>5
  <2> QED
    BY <1>3, <2>6 DEF StepHolds, Looks
<1>4. CASE st.op = "held"
  <2>1. st.file \in Files /\ files'[st.file] = files[st.file]
    BY <1>1, <1>4 DEF StepIsTyped, Leaves, Reviews
  <2>2. Holds(st.file)
    BY <1>4 DEF StepHolds, Agrees, Looks
  <2>3. \A row \in files[st.file] : row[1] \in Rows(dossier, st.file)
    BY <2>1, <2>2 DEF RowsKnown, Holds, Readable
  <2>4. Rows(dossier, st.file) \subseteq ReliesOn(dossier, st) \cap (Artefacts \cup Files)
    BY <1>4 DEF ReliesOn, Rows
  <2>5. \A row \in files[st.file] : Now(row[1])' = Now(row[1])
    <3>1. ASSUME NEW x \in Rows(dossier, st.file) PROVE Now(x)' = Now(x)
      <4>1. CASE x \in Files
        BY <2>4, <4>1 DEF Now
      <4>2. CASE x \in Artefacts
        BY <2>4, <4>2, NowStays
      <4> QED
        BY <2>4, <4>1, <4>2
    <3> QED
      BY <2>3, <3>1
  <2>6. Holds(st.file)'
    BY <2>1, <2>2, <2>5 DEF Holds, Readable, There
  <2> QED
    BY <1>4, <2>6 DEF StepHolds, Agrees, Looks
<1>5. CASE st.op \in {"sound", "load"}
  <2>1. st.file \in Files /\ files'[st.file] = files[st.file]
    BY <1>1, <1>5 DEF StepIsTyped, Leaves, Reviews
  <2> QED
    BY <1>5, <2>1 DEF StepHolds, Agrees, Looks, Readable, There, Ordinary
<1>6. CASE st.op = "compile"
  BY <1>6 DEF StepHolds, Looks
<1>7. CASE st.op = "forge"
  <2>1. st.file \in Files /\ files'[st.file] = files[st.file] /\ st.on \subseteq Artefacts
    BY <1>1, <1>7 DEF StepIsTyped, Leaves
  <2>2. \A x \in st.on : Now(x)' = Now(x) /\ x \notin Files /\ tree'[x] = tree[x]
    BY <1>1, <2>1, NamesAssumption, NowStays
  <2>3. Current(st.on)' = Current(st.on)
    BY <2>2 DEF Current
  <2>4. (\A a \in st.on : tree[a] = 0) /\ files[st.file] = Current(st.on)
    BY <1>7 DEF StepHolds, Looks
  <2>5. (\A a \in st.on : tree'[a] = 0) /\ files'[st.file] = Current(st.on)'
    BY <2>1, <2>2, <2>3, <2>4
  <2> QED
    BY <1>7, <2>5 DEF StepHolds, Looks
<1> QED
  BY <1>1, <1>2, <1>3, <1>4, <1>5, <1>6, <1>7, <1>10 DEF Ops, Leaves, Writes, Reviews

\* What the step just taken found or left holds, if the tree kept still.
LEMMA StepTakenHolds ==
    ASSUME NEW st, st = Step, Typing, SeenNow, steady,
           RunStep, status' \in {"running", "passed"}
    PROVE  StepHolds(st)'
<1>1. StepIsTyped(st) /\ Running
  BY StepIsReady, StepFrame
<1>2. st.op \in Leaves \cup {"same"} => \A a \in st.on \cap Artefacts : seen[a] = Now(a)
  BY <1>1, StepIsReady DEF SeenNow
<1>3. Advance
  BY DEF RunStep, Look, Review, RecordFile, CompileModules, RunForge, Stop
<1>4. st.op \in Leaves \cup {"same"} => Content(st.on) = Current(st.on)
  <2>1. st.op \in Leaves \cup {"same"} => st.on \subseteq Artefacts \cup Files
    BY <1>1 DEF StepIsTyped, Leaves, Writes
  <2>2. \A x \in Files : Now(x) = files[x]
    BY DEF Now
  <2> QED
    BY <1>2, <2>1, <2>2 DEF Content, Current
<1>5. CASE Look
  <2>1. Accepts(st) /\ st.op \in Looks /\ tree' = tree /\ files' = files
    BY <1>5 DEF Look, Stop
  <2>2. CASE st.op = "adopt"
    <3>1. Adopted(st.file) = {<<"compiled", tree["tests"]>>}
      BY <2>1, <2>2 DEF Accepts
    <3>2. ASSUME tree["compiled"] # Missing PROVE tree["compiled"] = tree["tests"]
      <4>1. <<"compiled", tree["compiled"]>> \in {<<"compiled", tree["tests"]>>}
        BY <3>1, <3>2 DEF Adopted
      <4>2. <<"compiled", tree["compiled"]>> = <<"compiled", tree["tests"]>>
        BY <4>1
      <4> QED
        BY <4>2
    <3> QED
      BY <2>1, <2>2, <3>2 DEF StepHolds
  <2>3. CASE st.op # "adopt"
    <3>1. Accepts(st)'
      BY <2>1, <2>3 DEF Accepts, Looks
    <3> QED
      BY <2>1, <2>3, <3>1 DEF StepHolds, Looks
  <2> QED
    BY <2>2, <2>3
<1>6. CASE Review
  <2>1. Agrees(st) /\ st.op \in Reviews /\ tree' = tree /\ files' = files
    BY <1>6 DEF Review, Stop
  <2>2. CASE st.op = "same"
    <3>1. files[st.file] = Current(st.on)
      BY <1>4, <2>1, <2>2 DEF Agrees
    <3>2. Current(st.on)' = Current(st.on)
      BY <2>1 DEF Current, Now, There
    <3> QED
      BY <2>1, <2>2, <3>1, <3>2 DEF StepHolds, Looks
  <2>3. CASE st.op \in {"held", "sound", "load"}
    <3>1. Agrees(st)'
      BY <2>1, <2>3 DEF Agrees, Holds, Readable, There, Now, Ordinary
    <3> QED
      BY <2>3, <3>1 DEF StepHolds, Looks
  <2> QED
    BY <2>1, <2>2, <2>3 DEF Reviews
<1>7. CASE RecordFile
  <2>1. /\ st.op \in {"record", "keep"} /\ st.file \in Files /\ tree' = tree
        /\ st.file \notin st.on /\ st.op \in Leaves
    BY <1>1, <1>7 DEF RecordFile, Writes, StepIsTyped, Leaves
  <2>2. files'[st.file] = Content(st.on) /\ \A f \in Files \ {st.file} : files'[f] = files[f]
    BY <1>7, <2>1 DEF RecordFile, Typing, SameContent, Stop
  <2>3. Current(st.on)' = Current(st.on)
    <3>1. \A x \in st.on : (x \in Files => There(x))' = (x \in Files => There(x))
                         /\ Now(x)' = Now(x)
      BY <2>1, <2>2 DEF There, Now
    <3> QED
      BY <3>1 DEF Current
  <2>4. files'[st.file] = Current(st.on)'
    BY <1>4, <2>1, <2>2, <2>3
  <2> QED
    BY <2>1, <2>4 DEF StepHolds, Looks
<1>8. CASE CompileModules
  <2>1. st.op = "compile" /\ tree' = [tree EXCEPT !["build"] = tree["new"]]
    BY <1>8 DEF CompileModules
  <2>2. tree'["build"] = tree'["new"]
    BY <2>1, NamesAssumption DEF Typing
  <2> QED
    BY <2>1, <2>2 DEF StepHolds, Looks
<1>9. CASE RunForge
  <2>1. /\ st.op = "forge" /\ st.op \in Leaves /\ st.file \in Files
        /\ st.on \subseteq Artefacts /\ "compiled" \notin st.on
        /\ \A a \in st.on : seen[a] = 0
        /\ tree' = tree
        /\ files'[st.file] = Content(st.on)
    BY <1>1, <1>9 DEF RunForge, StepIsTyped, Leaves, Typing, Stop
  <2>2. \A x \in st.on : x \notin Files /\ Now(x)' = Now(x) /\ Now(x) = tree[x]
    BY <2>1, NamesAssumption DEF Now
  <2>3. Current(st.on)' = Current(st.on)
    BY <2>2 DEF Current
  <2>4. \A a \in st.on : tree'[a] = 0
    BY <1>2, <2>1, <2>2
  <2> QED
    BY <1>4, <2>1, <2>3, <2>4 DEF StepHolds, Looks
<1> QED
  BY <1>5, <1>6, <1>7, <1>8, <1>9 DEF RunStep
----------------------------------------------------------------------------
\* The invariant is inductive.

\* A writer names what its rows are about, and a file cut off has none that is read.
LEMMA RowsStayKnown ==
    ASSUME Typing, RowsKnown, [Next]_vars
    PROVE  RowsKnown'
<1>1. CASE RunStep
  <2>1. StepIsTyped(Step) /\ Running /\ dossier' = dossier
    BY <1>1, StepFrame, StepIsReady
  <2>2. \A f \in Files : files'[f] = files[f] \/ (Step.op \in Leaves /\ f = Step.file)
    BY <1>1, StepFrame
  <2>3. Step.op \in Leaves /\ files'[Step.file] # files[Step.file] =>
           \A row \in files'[Step.file] : row[1] \in Step.on
    BY <1>1, <2>1 DEF RunStep, Look, Review, RecordFile, CompileModules, RunForge, Content,
       StepIsTyped, Typing, Leaves, Writes, Looks, Reviews
  <2>4. Step.op \in Leaves => Step.on \subseteq Rows(dossier, Step.file)
    <3>1. role \in DOMAIN Scripts /\ pc \in DOMAIN Script.steps
      BY <2>1, ScriptFacts DEF Typing, Running
    <3>2. Step.op \in Leaves => Step.on \subseteq Artefacts \cup Files
      BY <2>1 DEF StepIsTyped, Leaves, Writes
    <3> QED
      BY <3>1, <3>2 DEF Rows, Step, Script, Scripts
  <2>5. \A f \in Files : Rows(dossier, f)' = Rows(dossier, f)
    BY <2>1
  <2> QED
    BY <2>1, <2>2, <2>3, <2>4, <2>5 DEF RowsKnown
<1>2. CASE Crash
  <2>1. /\ dossier' = dossier
        /\ \A f \in Files : files'[f] = files[f] \/ files'[f] = Torn
    BY <1>2 DEF Crash, Typing
  <2> QED
    BY <2>1 DEF RowsKnown
<1>3. CASE UNCHANGED <<dossier, files>>
  BY <1>3 DEF RowsKnown
<1> QED
  BY <1>1, <1>2, <1>3 DEF Next, Begin, Edit, Build, vars

\* The kinds of values stay what they are.
LEMMA TypingStays ==
    ASSUME Typing, [Next]_vars
    PROVE  Typing'
<1>1. CASE RunStep
  <2>1. /\ Running /\ UNCHANGED <<dossier, role, steady>> /\ Script' = Script
        /\ pc \in 1..Len(Script.steps) /\ Len(Script.steps) \in Nat /\ Scripts' = Scripts
    BY <1>1, StepFrame, ScriptFacts DEF Typing, Running, Scripts
  <2>2. StepIsTyped(Step)
    BY <2>1, StepIsReady
  <2>3. tree' = [a \in Artefacts |-> tree'[a]]
    BY <1>1, NamesAssumption DEF RunStep, Look, Review, RecordFile, CompileModules, RunForge, Typing
  <2>4. seen' = [a \in Artefacts |-> seen'[a]]
    BY <1>1 DEF RunStep, Look, Review, RecordFile, CompileModules, RunForge, Typing, See
  <2>5. files' = [f \in Files |-> files'[f]]
    BY <1>1 DEF RunStep, Look, Review, RecordFile, CompileModules, RunForge, Typing
  <2>6. /\ status' \in {"running", "passed", "failed"}
        /\ status' = "running" => pc' \in 1..Len(Script.steps)
        /\ status' = "passed" => pc' = Len(Script.steps) + 1
    <3>1. Advance \/ Stop
      BY <1>1 DEF RunStep, Look, Review, RecordFile, CompileModules, RunForge
    <3> QED
      BY <2>1, <3>1 DEF Advance, Stop
  <2>7. role' \in DOMAIN Scripts'
    BY <2>1 DEF Typing, Running
  <2> QED
    BY <2>1, <2>3, <2>4, <2>5, <2>6, <2>7 DEF Typing, Running
<1>2. CASE Crash
  BY <1>2 DEF Crash, Typing, Running
<1>3. CASE \E r \in DOMAIN Scripts : \E m \in Scripts[r].modes : Begin(r, m)
  <2>1. PICK r \in DOMAIN Scripts : \E m \in Scripts[r].modes : Begin(r, m)
    BY <1>3
  <2>2. /\ UNCHANGED <<dossier, tree, files>> /\ role' = r /\ pc' = 1 /\ status' = "running"
        /\ seen' = [a \in Artefacts |-> 0] /\ Scripts' = Scripts
    BY <2>1 DEF Begin, Scripts
  <2>3. Len(Dossiers[dossier].scripts[r].steps) \in Nat \ {0}
    BY <2>1, DossiersAssumption DEF Typing, Scripts
  <2>4. Len(Script'.steps) \in Nat \ {0} /\ pc' \in 1..Len(Script'.steps)
    BY <2>2, <2>3 DEF Script, Scripts
  <2> QED
    BY <2>2, <2>4 DEF Typing, Running
<1>4. CASE (\E a \in Artefacts : \E v \in Versions[a] : Edit(a, v)) \/ Build
  <2>1. /\ UNCHANGED <<dossier, files, role, pc, seen, status>>
        /\ tree' = [a \in Artefacts |-> tree'[a]]
    BY <1>4 DEF Edit, Build, Typing
  <2>2. Script' = Script /\ Scripts' = Scripts
    BY <2>1 DEF Script, Scripts
  <2> QED
    BY <2>1, <2>2 DEF Typing, Running
<1>5. CASE UNCHANGED vars
  BY <1>5 DEF vars, Typing, Running, Script, Scripts
<1> QED
  BY <1>1, <1>2, <1>3, <1>4, <1>5 DEF Next

\* Only a compilation changes the tree, and nothing seen before it is the build.
LEMMA SeenStaysNow ==
    ASSUME Typing, SeenNow, RunStep
    PROVE  SeenNow'
<1> SUFFICES ASSUME status' = "running", steady', NEW st \in Taken',
                    st.op \in Looks, NEW a \in st.on
             PROVE  seen'[a] = Now(a)'
  BY DEF SeenNow, Running
<1>1. Running /\ steady /\ Taken' = Taken \cup {Step}
  BY StepFrame, StepAdvances
<1>2. CASE st = Step
  <2>1. Look /\ a \in Artefacts
    BY <1>1, <1>2, StepIsReady DEF RunStep, Review, RecordFile, CompileModules, RunForge,
       Looks, Reviews, Writes, StepIsTyped
  <2>2. seen'[a] = Now(a) /\ tree' = tree
    BY <1>2, <2>1 DEF Look, See
  <2> QED
    BY <2>1, <2>2, NowStays
<1>3. CASE st # Step
  <2>1. st \in Taken /\ StepIsTyped(st) /\ a \in Artefacts /\ a \in ReliesOn(dossier, st)
    BY <1>1, <1>3, TakenAreSafe DEF StepIsTyped, ReliesOn
  <2>2. seen[a] = Now(a)
    BY <1>1, <2>1 DEF SeenNow
  <2>3. tree'[a] = tree[a] /\ tree'["tests"] = tree["tests"]
    BY <1>1, <2>1, StepFrame, TakenAreSafe, NamesAssumption
  <2>4. seen'[a] \in {seen[a], Now(a)}
    BY <2>1 DEF RunStep, Look, Review, RecordFile, CompileModules, RunForge, See
  <2> QED
    BY <2>1, <2>2, <2>3, <2>4, NowStays
<1> QED
  BY <1>2, <1>3

\* The step taken holds, and undoes none of those before it.
LEMMA TakenStillHold ==
    ASSUME IInv, RunStep
    PROVE  TakenHold'
<1> USE DEF IInv
<1> SUFFICES ASSUME status' \in {"running", "passed"}, steady', NEW st \in Taken'
             PROVE  StepHolds(st)'
  BY DEF TakenHold
<1>1. Running /\ steady /\ Taken' = Taken \cup {Step} /\ dossier' = dossier
  BY StepFrame, StepAdvances
<1>2. CASE st = Step
  BY <1>1, <1>2, StepTakenHolds
<1>3. CASE st # Step
  <2>1. st \in Taken /\ StepIsTyped(st) /\ StepHolds(st)
    BY <1>1, <1>3, TakenAreSafe DEF TakenHold, Running
  <2>2. \A a \in ReliesOn(dossier, st) \cap Artefacts : tree'[a] = tree[a]
    BY <1>1, <2>1, TakenAreSafe, StepFrame
  <2>3. \A f \in ReliesOn(dossier, st) \cap Files : files'[f] = files[f]
    BY <1>1, <2>1, TakenAreSafe, StepFrame
  <2>4. /\ tree'["new"] = tree["new"] /\ tree'["build"] \in {tree["build"], tree["new"]}
        /\ tree'["tests"] = tree["tests"]
    BY StepFrame, NamesAssumption
  <2> QED
    BY <1>1, <2>1, <2>2, <2>3, <2>4, StepStillHolds
<1> QED
  BY <1>2, <1>3

\* Nothing runs at first, and the files are absent or those committed.
LEMMA InitIInv == Init => IInv
<1> SUFFICES ASSUME Init PROVE IInv
  OBVIOUS
<1>1. Typing
  BY DossiersAssumption DEF Init, Typing, Running
<1>2. RowsKnown
  <2>1. dossier \in DOMAIN Dossiers
    BY DEF Init
  <2>2. CASE files = [f \in Files |-> Absent]
    BY <2>2 DEF RowsKnown, Absent
  <2>3. CASE files = Dossiers[dossier].committed
    BY <2>1, <2>3, DossiersAssumption DEF RowsKnown, Rows
  <2> QED
    BY <2>2, <2>3 DEF Init
<1>3. SeenNow /\ TakenHold
  BY DEF Init, SeenNow, TakenHold, Running
<1> QED
  BY <1>1, <1>2, <1>3 DEF IInv

\* Who is not the script ends its run or touches the tree.
LEMMA NextIInv == IInv /\ [Next]_vars => IInv'
<1> SUFFICES ASSUME IInv, [Next]_vars PROVE IInv'
  OBVIOUS
<1>1. Typing' /\ RowsKnown'
  BY TypingStays, RowsStayKnown DEF IInv
<1>2. CASE RunStep
  BY <1>1, <1>2, SeenStaysNow, TakenStillHold DEF IInv
<1>3. CASE Crash
  BY <1>1, <1>3 DEF IInv, Crash, SeenNow, TakenHold, Running
<1>4. CASE \E r \in DOMAIN Scripts : \E m \in Scripts[r].modes : Begin(r, m)
  <2>1. Taken' = {}
    BY <1>4 DEF Begin, Taken
  <2> QED
    BY <1>1, <2>1 DEF IInv, SeenNow, TakenHold
<1>5. CASE (\E a \in Artefacts : \E v \in Versions[a] : Edit(a, v)) \/ Build
  BY <1>1, <1>5 DEF IInv, Edit, Build, SeenNow, TakenHold
<1>6. CASE UNCHANGED vars
  <2>1. \A st : StepHolds(st)' = StepHolds(st)
    BY <1>6 DEF vars, StepHolds, Accepts, Adopted, Agrees, Holds, Readable, There, Current, Now, Content
  <2>2. Taken' = Taken /\ \A a : Now(a)' = Now(a)
    BY <1>6 DEF vars, Taken, Script, Scripts, Now
  <2> QED
    BY <1>1, <1>6, <2>1, <2>2 DEF IInv, vars, SeenNow, TakenHold, Running
<1> QED
  BY <1>2, <1>3, <1>4, <1>5, <1>6 DEF Next

\* Whatever a run of a script took for granted on the way holds at its end: for any
\* well-ordered scripts, edits, crashes and runs before it, a script that passes
\* while the tree is left alone leaves files that say what is there and a tree that
\* all of its checks accept.
THEOREM PassIsAcceptedAlways == Spec => []PassIsAccepted
<1>1. IInv => PassIsAccepted
  <2> SUFFICES ASSUME IInv, status = "passed", steady, NEW i \in DOMAIN Script.steps
               PROVE  StepHolds(Script.steps[i])
    BY DEF PassIsAccepted
  <2>1. i \in 1..(pc - 1)
    BY ScriptFacts DEF IInv, Typing
  <2> QED
    BY <2>1 DEF IInv, TakenHold, Taken
<1> QED
  BY <1>1, InitIInv, NextIInv, PTL DEF Spec

----------------------------------------------------------------------------
\* A writing run that is accepted fails at no step.

\* Who writes is allowed to.
ModeAllowed == Running => mode \in Scripts[role].modes

\* A script runs in one of its modes.
LEMMA ModeStaysAllowed ==
    ASSUME Typing, ModeAllowed, [Next]_vars
    PROVE  ModeAllowed'
<1>1. CASE RunStep
  <2>1. Running /\ dossier' = dossier /\ role' = role /\ mode' = mode
    BY <1>1 DEF RunStep, Look, Review, RecordFile, CompileModules, RunForge
  <2> QED
    BY <2>1 DEF ModeAllowed, Scripts
<1>2. CASE Crash
  BY <1>2 DEF Crash, ModeAllowed, Running
<1>3. CASE \E r \in DOMAIN Scripts : \E m \in Scripts[r].modes : Begin(r, m)
  BY <1>3 DEF Begin, ModeAllowed, Scripts
<1>4. CASE (\E a \in Artefacts : \E v \in Versions[a] : Edit(a, v)) \/ Build
  BY <1>4 DEF Edit, Build, ModeAllowed, Scripts, Running
<1>5. CASE UNCHANGED vars
  BY <1>5 DEF vars, ModeAllowed, Scripts, Running
<1> QED
  BY <1>1, <1>2, <1>3, <1>4, <1>5 DEF Next

\* The file that a step of such a run demands was left by an earlier one, and says
\* what is there.
LEMMA FileIsOwn ==
    ASSUME IInv, Running, steady, SelfContained, Demands(Script.steps),
           Step.op \in Reviews \cup {"keep"}
    PROVE  /\ Step.op # "keep"
           /\ \E st \in Taken :
                 /\ st.op \in {"record", "forge"} /\ st.file = Step.file
                 /\ st.on \subseteq Artefacts \cup Files /\ st.on \cap Artefacts # {}
                 /\ Step.op = "same" => st.on = Step.on
                 /\ files[Step.file] = Current(st.on)
<1>1. /\ pc \in 1..Len(Script.steps) /\ Len(Script.steps) \in Nat
      /\ DOMAIN Script.steps = 1..Len(Script.steps)
  BY ScriptFacts DEF IInv, Typing, Running
<1>2. PICK j \in 1..(pc - 1) :
         Script.steps[j].op \in {"record", "forge"} /\ Script.steps[j].file = Step.file
  BY <1>1 DEF SelfContained, NeedsNoFile, Step
<1> DEFINE st == Script.steps[j]
<1>3. st \in Taken /\ j \in DOMAIN Script.steps /\ pc \in DOMAIN Script.steps
  BY <1>1 DEF Taken
<1>4. StepIsTyped(st) /\ (Step.op \in Leaves => Step.file \notin ReliesOn(dossier, st))
  BY <1>3, TakenAreSafe DEF IInv
<1>5. st.on \subseteq Artefacts \cup Files
  BY <1>2, <1>4 DEF StepIsTyped
<1>6. st.on \cap Artefacts # {} /\ (Step.op = "same" => st.on = Step.on)
  BY <1>2, <1>3 DEF Demands, Step
<1>7. StepHolds(st)
  BY <1>3 DEF IInv, TakenHold, Running
<1>8. files[Step.file] = Current(st.on)
  BY <1>2, <1>7 DEF StepHolds, Looks
<1>9. Step.op # "keep"
  BY <1>2, <1>4 DEF ReliesOn, Leaves, Writes
<1> QED
  BY <1>2, <1>3, <1>5, <1>6, <1>8, <1>9

\* What such a run looks for in the tree and in its files is there.
LEMMA AcceptedStepPasses ==
    ASSUME IInv, ModeAllowed, Running, steady, mode = "write", SelfContained,
           \A a \in Artefacts : AtItsPins(a), Provided(Step)
    PROVE  /\ Step.op \in Looks => Accepts(Step)
           /\ Step.op \in Reviews => Agrees(Step)
           /\ Step.op \in Writes => Written(Step)
           /\ Step.op = "forge" => \A a \in Step.on : seen[a] = 0
<1>1. Demands(Script.steps)
  <2>1. dossier \in DOMAIN Dossiers /\ role \in DOMAIN Scripts /\ "write" \in Scripts[role].modes
    BY DEF IInv, Typing, ModeAllowed, Running
  <2> QED
    BY <2>1, DemandsAssumption DEF SelfContained, Script, Scripts
<1>2. StepIsTyped(Step) /\ pc \in DOMAIN Script.steps
  BY StepIsReady, ScriptFacts DEF IInv, Typing, Running
<1>3. /\ \A a \in Artefacts \ {"new", "build", "compiled"} : tree[a] = 0
      /\ tree["new"] \notin Escaping /\ tree["build"] \notin Unsound
      /\ tree["new"] \notin Dropping
      /\ tree["compiled"] \in {0, Missing} /\ tree["tests"] = 0
  BY NamesAssumption, VersionsAssumption DEF AtItsPins
<1>4. Step.op \in Looks => Accepts(Step)
  <2>1. CASE Step.op \in {"match", "carried"}
    <3>1. Step.on \subseteq Artefacts /\ "build" \notin Step.on /\ "compiled" \notin Step.on
      BY <1>1, <1>2, <2>1 DEF Demands, Step, StepIsTyped, Looks
    <3>2. Step.op = "match" => "new" \notin Step.on
      BY <1>1, <1>2 DEF Demands, Step
    <3> QED
      BY <1>3, <2>1, <3>1, <3>2 DEF Accepts
  <2>2. CASE Step.op = "adopt"
    BY <1>3, <2>2 DEF Provided, Accepts, Adopted
  <2>3. CASE Step.op \in {"words", "foundations", "read"}
    BY <1>3, <2>3 DEF Accepts
  <2> QED
    BY <2>1, <2>2, <2>3 DEF Looks
<1>7. ASSUME Step.op = "forge" PROVE \A a \in Step.on : seen[a] = 0
  <2>1. /\ Step.on \subseteq Artefacts /\ Step.on \cap {"new", "build", "compiled"} = {}
        /\ Step.op \in Leaves
    BY <1>1, <1>2, <1>7 DEF Demands, Step, StepIsTyped, Leaves
  <2>2. \A a \in Step.on : seen[a] = Now(a)
    BY <2>1, StepIsReady DEF IInv, SeenNow
  <2>3. \A a \in Step.on : Now(a) = tree[a]
    BY <2>1, NamesAssumption DEF Now
  <2> QED
    BY <1>3, <2>1, <2>2, <2>3
<1>5. ASSUME Step.op \in Reviews PROVE Agrees(Step)
  <2>1. PICK st \in Taken :
           /\ st.op \in {"record", "forge"} /\ st.file = Step.file
           /\ st.on \subseteq Artefacts \cup Files /\ st.on \cap Artefacts # {}
           /\ Step.op = "same" => st.on = Step.on
           /\ files[Step.file] = Current(st.on)
    BY <1>1, <1>5, FileIsOwn
  <2>2. \A row \in Current(st.on) : row[1] \in Artefacts \cup Files /\ row[2] = Now(row[1])
    BY <2>1 DEF Current
  <2>3. PICK a \in Artefacts : a \in st.on /\ a \notin Files
    BY <2>1, NamesAssumption
  <2>4. <<a, Now(a)>> \in Current(st.on)
    BY <2>1, <2>3 DEF Current
  <2>5. Current(st.on) # {} /\ Current(st.on) # Torn
    BY <2>2, <2>4, NamesAssumption DEF Torn
  <2>6. Readable(Step.file)
    BY <2>1, <2>5 DEF Readable, There, Absent
  <2>7. CASE Step.op = "same"
    <3>1. \A b \in Step.on \cap Artefacts : seen[b] = Now(b)
      BY <1>2, <2>7, StepIsReady DEF IInv, SeenNow
    <3>2. \A x \in Files : Now(x) = files[x]
      BY DEF Now
    <3>3. Content(Step.on) = Current(Step.on)
      BY <2>1, <2>7, <3>1, <3>2 DEF Content, Current
    <3> QED
      BY <2>1, <2>7, <3>3 DEF Agrees
  <2>8. CASE Step.op = "held"
    BY <2>1, <2>2, <2>6, <2>8 DEF Agrees, Holds
  <2>9. CASE Step.op = "sound"
    <3>1. ASSUME NEW row \in Current(st.on) PROVE Ordinary(row)
      <4>1. row[1] = "build" => row[2] = tree["build"]
        BY <2>2, NamesAssumption DEF Now
      <4>2. row[1] = "tests" => "tests" \in Artefacts /\ row[2] = tree["tests"]
        BY <2>2, NamesAssumption DEF Now
      <4> QED
        BY <1>3, <4>1, <4>2 DEF Ordinary
    <3> QED
      BY <2>1, <2>6, <2>9, <3>1 DEF Agrees
  <2>10. CASE Step.op = "load"
    BY <2>6, <2>10 DEF Agrees
  <2> QED
    BY <1>5, <2>7, <2>8, <2>9, <2>10 DEF Reviews
<1>6. Step.op \in Writes => Written(Step)
  BY <1>1, FileIsOwn DEF Writes, Written
<1> QED
  BY <1>4, <1>5, <1>6, <1>7

\* AcceptedRunPasses, but for its end: a writing run of a script that needs no file
\* of others fails at no step on an accepted tree that nobody touches, whatever
\* earlier, failed or killed runs left, but for the copy of Foundry's output that it
\* adopts (Provided).  (That it goes on to its end is fairness.)
THEOREM AcceptedNeverFails == Spec => []AcceptedRunNeverFails
<1> DEFINE Inv == IInv /\ ModeAllowed /\ AcceptedRunNeverFails
<1>1. Init => Inv
  BY InitIInv DEF Init, ModeAllowed, Running, AcceptedRunNeverFails
<1>2. Inv /\ [Next]_vars => Inv'
  <2> SUFFICES ASSUME IInv, ModeAllowed, AcceptedRunNeverFails, [Next]_vars
               PROVE  AcceptedRunNeverFails'
    BY NextIInv, ModeStaysAllowed DEF IInv
  <2>1. CASE RunStep
    <3> SUFFICES ASSUME status' = "failed", steady', mode' = "write", SelfContained', Acceptable'
                 PROVE  FALSE
      BY DEF AcceptedRunNeverFails
    <3>1. Running /\ Script' = Script /\ steady /\ mode = "write"
      BY <2>1, StepFrame DEF IInv, RunStep, Look, Review, RecordFile, CompileModules, RunForge
    <3>2. tree' = tree /\ pc' = pc
      BY <2>1 DEF RunStep, Look, Review, RecordFile, CompileModules, RunForge, Advance, Stop
    <3>3. SelfContained /\ (\A a \in Artefacts : AtItsPins(a)) /\ Provided(Step)
      <4>1. Step.op = "adopt" => files' = files
        BY <2>1 DEF RunStep, Look, Review, RecordFile, CompileModules, RunForge, Reviews, Writes
      <4>2. pc \in DOMAIN Script.steps
        BY <3>1, ScriptFacts DEF IInv, Typing, Running
      <4>3. Provided(Script.steps[pc])'
        BY <3>1, <3>2, <4>2 DEF Acceptable
      <4> QED
        BY <3>1, <3>2, <4>1, <4>3 DEF SelfContained, Acceptable, AtItsPins, Provided, Step
    <3>4. Advance
      BY <2>1, <3>1, <3>3, AcceptedStepPasses
         DEF RunStep, Look, Review, RecordFile, CompileModules, RunForge
    <3> QED
      BY <3>4 DEF Advance
  <2>2. CASE Crash
    BY <2>2 DEF Crash, AcceptedRunNeverFails
  <2>3. CASE \E r \in DOMAIN Scripts : \E m \in Scripts[r].modes : Begin(r, m)
    BY <2>3 DEF Begin, AcceptedRunNeverFails
  <2>4. CASE (\E a \in Artefacts : \E v \in Versions[a] : Edit(a, v)) \/ Build
    BY <2>4 DEF Edit, Build, AcceptedRunNeverFails
  <2>5. CASE UNCHANGED vars
    BY <2>5 DEF vars, AcceptedRunNeverFails, SelfContained, Acceptable, AtItsPins, Provided, Script, Scripts
  <2> QED
    BY <2>1, <2>2, <2>3, <2>4, <2>5 DEF Next
<1> QED
  BY <1>1, <1>2, PTL DEF Spec
=============================================================================
