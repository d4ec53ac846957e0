---------------------------- MODULE Pruner_proofs ----------------------------
(***************************************************************************)
(* Proofs about the pruning script, for any files the operator edits       *)
(* between runs and any number of runs, of either mode, dry or not,        *)
(* stopped anywhere.                                                       *)
(***************************************************************************)
EXTENDS Pruner, Naturals, TLAPS

\* The steps of a plan.
Deletes(s, m) == s.op = "delete" /\ s.file \in {"tools/public", AgentOf(Other(m))}

Rewrites(s, m) == s.op = "rewrite" /\ s.file \in Rewritten /\ s.text = {Says("all", m)}

Patches(s, what, m) ==
  /\ s.op = "patch"
  /\ s.file = IF what = "prompt" THEN AgentOf(m) ELSE "websocket"
  /\ s.find = Says(what, "both")
  /\ s.replace = Says(what, m)

Strips(s, m) == s.op = "strip" /\ s.file = ".env.example" /\ s.marker = Other(m)

RemovesScripts(s, m) ==
  /\ s.op = "scripts" /\ s.file = "package.json" /\ m = "autonomous"
  /\ s.remove = {"dev:ui", "dev:all"}

PlanStep(s, m) ==
  \/ Deletes(s, m)
  \/ Rewrites(s, m)
  \/ \E what \in {"import", "tools", "prompt"} : Patches(s, what, m)
  \/ Strips(s, m)
  \/ RemovesScripts(s, m)

\* What a step that is done leaves of its file.
Settled(s, text) ==
  \/ text = Missing
  \/ /\ s.op # "delete"
     /\ s.op = "rewrite" => text = s.text
     /\ s.op = "patch" => s.replace \in text /\ s.find \notin text
     /\ s.op = "strip" => s.marker \notin text
     /\ s.op = "scripts" => s.remove \cap text = {} /\ text # {}

-----------------------------------------------------------------------------
(***************************************************************************)
(* The invariant.                                                          *)
(***************************************************************************)

\* The file as it will be once a write under way is over.
Now(f) == IF pc = "write" /\ f = TheStep.file THEN next ELSE tree[f]

Steps == 1 .. Len(Plan(mode))
S(j) == Plan(mode)[j]

\* What TypeOK says of a run.
RunOK ==
  /\ DOMAIN tree = File
  /\ pc \in {"idle", "step", "write", "done", "err"}
  /\ mode \in Mode
  /\ dryRun \in BOOLEAN
  /\ at \in 1..(Len(Plan(mode)) + 1)
  /\ foretold \in {Unknown, "done", "err"}
  /\ given \in SUBSET Section
  /\ spoilt \subseteq Mode \X File

ShapesFit == \A f \in File : Shape(f, tree[f])

WriteFits ==
  pc = "write" => /\ ~dryRun /\ at \in Steps
                  /\ Shape(TheStep.file, next)

\* What a real run has behind it stays done.
Progress ==
  ~dryRun /\ pc \in {"step", "write", "done"} =>
    \A j \in Steps :
      (pc = "done" \/ j < at \/ (pc = "write" /\ j = at)) => Settled(S(j), Now(S(j).file))

\* Nothing of its own is taken from a mode, not in the middle of a write either.
Kept == \A m \in Mode, f \in File : <<m, f>> \notin spoilt => Keeps(m, f, Now(f))

\* What is ahead of a run.
Ahead(j) == j > at \/ (pc = "step" /\ j = at)

\* What a dry run knows of the tree, and what it has foretold of a real one.
Forecast ==
  /\ pc = "idle" => foretold = Unknown
  /\ dryRun /\ pc = "step" =>
       foretold = Unknown /\ \A j \in Steps : j < at => ~Aborts(S(j), tree[S(j).file])
  /\ dryRun /\ pc = "done" =>
       foretold = "done" /\ \A j \in Steps : ~Aborts(S(j), tree[S(j).file])
  /\ dryRun /\ pc = "err" =>
       foretold = "err" /\ \E j \in Steps : Aborts(S(j), tree[S(j).file])
  /\ ~dryRun /\ pc \in {"step", "write"} =>
       /\ foretold = "done" => \A j \in Steps : Ahead(j) => ~Aborts(S(j), Now(S(j).file))
       /\ foretold = "err" => \E j \in Steps : Ahead(j) /\ Aborts(S(j), Now(S(j).file))

Inv ==
  /\ RunOK
  /\ ShapesFit
  /\ WriteFits
  /\ Progress
  /\ Kept
  /\ Forecast
  /\ ForetoldByDryRun

-----------------------------------------------------------------------------
(***************************************************************************)
(* The plans.                                                              *)
(***************************************************************************)

\* The two plans, an index at a time.
LEMMA AutonomousPlan ==
  LET P == Plan("autonomous") IN
  /\ Len(P) = 11
  /\ Deletes(P[1], "autonomous") /\ P[1].file = "tools/public"
  /\ Deletes(P[2], "autonomous") /\ P[2].file = "agent-public"
  /\ Rewrites(P[3], "autonomous") /\ P[3].file = "tools/index"
  /\ Rewrites(P[4], "autonomous") /\ P[4].file = "create-agent"
  /\ Rewrites(P[5], "autonomous") /\ P[5].file = "core/index"
  /\ Rewrites(P[6], "autonomous") /\ P[6].file = "prompts"
  /\ Patches(P[7], "import", "autonomous") /\ Patches(P[8], "tools", "autonomous")
  /\ Patches(P[9], "prompt", "autonomous")
  /\ Strips(P[10], "autonomous")
  /\ RemovesScripts(P[11], "autonomous")
  BY DEF Plan, MakeAutonomousPlan, Delete, Rewrite, Patch, Deletes, Rewrites, Patches,
         Strips, RemovesScripts, AgentOf, Other, Rewritten

LEMMA PublicPlan ==
  LET P == Plan("public") IN
  /\ Len(P) = 9
  /\ Deletes(P[1], "public") /\ P[1].file = "agent-autonomous"
  /\ Rewrites(P[2], "public") /\ P[2].file = "create-agent"
  /\ Rewrites(P[3], "public") /\ P[3].file = "core/index"
  /\ Rewrites(P[4], "public") /\ P[4].file = "tools/index"
  /\ Rewrites(P[5], "public") /\ P[5].file = "prompts"
  /\ Patches(P[6], "import", "public") /\ Patches(P[7], "tools", "public")
  /\ Patches(P[8], "prompt", "public")
  /\ Strips(P[9], "public")
  BY DEF Plan, MakePublicPlan, Delete, Rewrite, Patch, Deletes, Rewrites, Patches,
         Strips, AgentOf, Other, Rewritten

LEMMA PlanLengths == Len(Plan("autonomous")) = 11 /\ Len(Plan("public")) = 9
  BY AutonomousPlan, PublicPlan

LEMMA PlanSteps ==
  ASSUME NEW m \in Mode
  PROVE  /\ Len(Plan(m)) \in Nat
         /\ \A j \in 1 .. Len(Plan(m)) : PlanStep(Plan(m)[j], m)
<1>1. CASE m = "autonomous"
  <2>1. Len(Plan(m)) = 11
    BY <1>1, PlanLengths
  <2>2. ASSUME NEW j \in 1 .. 11
        PROVE  PlanStep(Plan(m)[j], m)
    <3>1. CASE j \in {1, 2}
      BY <1>1, <3>1, AutonomousPlan DEF PlanStep
    <3>2. CASE j \in {3, 4, 5, 6}
      BY <1>1, <3>2, AutonomousPlan DEF PlanStep
    <3>3. CASE j \in {7, 8, 9}
      BY <1>1, <3>3, AutonomousPlan DEF PlanStep
    <3>4. CASE j \in {10, 11}
      BY <1>1, <3>4, AutonomousPlan DEF PlanStep
    <3> QED
      BY <3>1, <3>2, <3>3, <3>4
  <2> QED
    BY <2>1, <2>2
<1>2. CASE m = "public"
  <2>1. Len(Plan(m)) = 9
    BY <1>2, PlanLengths
  <2>2. ASSUME NEW j \in 1 .. 9
        PROVE  PlanStep(Plan(m)[j], m)
    <3>1. CASE j \in {1, 9}
      BY <1>2, <3>1, PublicPlan DEF PlanStep
    <3>2. CASE j \in {2, 3, 4, 5}
      BY <1>2, <3>2, PublicPlan DEF PlanStep
    <3>3. CASE j \in {6, 7, 8}
      BY <1>2, <3>3, PublicPlan DEF PlanStep
    <3> QED
      BY <3>1, <3>2, <3>3
  <2> QED
    BY <2>1, <2>2
<1> QED
  BY <1>1, <1>2 DEF Mode

\* Every part of a pruned tree has its step.
LEMMA PlanTargets ==
  ASSUME NEW m \in Mode
  PROVE  LET D == 1 .. Len(Plan(m)) IN
         /\ \E j \in D : Deletes(Plan(m)[j], m) /\ Plan(m)[j].file = AgentOf(Other(m))
         /\ \A f \in Rewritten :
              \E j \in D : Rewrites(Plan(m)[j], m) /\ Plan(m)[j].file = f
         /\ \A what \in {"import", "tools", "prompt"} :
              \E j \in D : Patches(Plan(m)[j], what, m)
         /\ \E j \in D : Strips(Plan(m)[j], m)
         /\ m = "autonomous" => \E j \in D : RemovesScripts(Plan(m)[j], m)
<1>1. CASE m = "autonomous"
  <2>1. Len(Plan(m)) = 11
    BY <1>1, PlanLengths
  <2>2. \A f \in Rewritten :
          \E j \in {3, 4, 5, 6} : Rewrites(Plan(m)[j], m) /\ Plan(m)[j].file = f
    BY <1>1, AutonomousPlan DEF Rewritten
  <2>3. \A what \in {"import", "tools", "prompt"} :
          \E j \in {7, 8, 9} : Patches(Plan(m)[j], what, m)
    BY <1>1, AutonomousPlan
  <2>4. Deletes(Plan(m)[2], m) /\ Plan(m)[2].file = AgentOf(Other(m))
    BY <1>1, AutonomousPlan DEF AgentOf, Other
  <2>5. Strips(Plan(m)[10], m) /\ RemovesScripts(Plan(m)[11], m)
    BY <1>1, AutonomousPlan
  <2> QED
    BY <2>1, <2>2, <2>3, <2>4, <2>5
<1>2. CASE m = "public"
  <2>1. Len(Plan(m)) = 9
    BY <1>2, PlanLengths
  <2>2. \A f \in Rewritten :
          \E j \in {2, 3, 4, 5} : Rewrites(Plan(m)[j], m) /\ Plan(m)[j].file = f
    BY <1>2, PublicPlan DEF Rewritten
  <2>3. \A what \in {"import", "tools", "prompt"} :
          \E j \in {6, 7, 8} : Patches(Plan(m)[j], what, m)
    BY <1>2, PublicPlan
  <2>4. Deletes(Plan(m)[1], m) /\ Plan(m)[1].file = AgentOf(Other(m))
    BY <1>2, PublicPlan DEF AgentOf, Other
  <2>5. Strips(Plan(m)[9], m) /\ m # "autonomous"
    BY <1>2, PublicPlan
  <2> QED
    BY <2>1, <2>2, <2>3, <2>4, <2>5
<1> QED
  BY <1>1, <1>2 DEF Mode

\* Two steps on one file are the two patches of websocket.ts.
LEMMA PlanApart ==
  ASSUME NEW m \in Mode,
         NEW j \in 1 .. Len(Plan(m)), NEW k \in 1 .. Len(Plan(m)),
         j # k, Plan(m)[j].file = Plan(m)[k].file
  PROVE  \/ Patches(Plan(m)[j], "import", m) /\ Patches(Plan(m)[k], "tools", m)
         \/ Patches(Plan(m)[j], "tools", m) /\ Patches(Plan(m)[k], "import", m)
<1>1. CASE m = "autonomous"
  <2> DEFINE P == Plan("autonomous")
  <2>1. /\ P[1].file = "tools/public" /\ P[2].file = "agent-public"
        /\ P[3].file = "tools/index" /\ P[4].file = "create-agent"
        /\ P[5].file = "core/index" /\ P[6].file = "prompts"
        /\ P[7].file = "websocket" /\ P[8].file = "websocket"
        /\ P[9].file = "agent-autonomous"
        /\ P[10].file = ".env.example" /\ P[11].file = "package.json"
    BY AutonomousPlan DEF Patches, Strips, RemovesScripts, AgentOf
  <2>2. j \in 1 .. 11 /\ k \in 1 .. 11 /\ P[j].file = P[k].file
    BY <1>1, PlanLengths
  <2> HIDE DEF P
  <2>3. P[j].file = "websocket" /\ j \in {7, 8}
    <3>1. CASE j \in {1, 2}
      BY <2>1, <2>2, <3>1
    <3>2. CASE j \in {3, 4}
      BY <2>1, <2>2, <3>2
    <3>3. CASE j \in {5, 6}
      BY <2>1, <2>2, <3>3
    <3>4. CASE j \in {9, 10}
      BY <2>1, <2>2, <3>4
    <3>5. CASE j = 11
      BY <2>1, <2>2, <3>5
    <3> QED
      BY <2>1, <2>2, <3>1, <3>2, <3>3, <3>4, <3>5
  <2>4. k \in {7, 8}
    <3> k \in 1 .. 11 /\ P[k].file = "websocket"
      BY <2>2, <2>3
    <3>1. CASE k \in {1, 2}
      BY <2>1, <3>1
    <3>2. CASE k \in {3, 4}
      BY <2>1, <3>2
    <3>3. CASE k \in {5, 6}
      BY <2>1, <3>3
    <3>4. CASE k \in {9, 10}
      BY <2>1, <3>4
    <3>5. CASE k = 11
      BY <2>1, <3>5
    <3> QED
      BY <3>1, <3>2, <3>3, <3>4, <3>5
  <2> QED
    BY <1>1, <2>3, <2>4, AutonomousPlan
<1>2. CASE m = "public"
  <2> DEFINE P == Plan("public")
  <2>1. /\ P[1].file = "agent-autonomous" /\ P[2].file = "create-agent"
        /\ P[3].file = "core/index" /\ P[4].file = "tools/index"
        /\ P[5].file = "prompts"
        /\ P[6].file = "websocket" /\ P[7].file = "websocket"
        /\ P[8].file = "agent-public" /\ P[9].file = ".env.example"
    BY PublicPlan DEF Patches, Strips, AgentOf
  <2>2. j \in 1 .. 9 /\ k \in 1 .. 9 /\ P[j].file = P[k].file
    BY <1>2, PlanLengths
  <2> HIDE DEF P
  <2>3. P[j].file = "websocket" /\ j \in {6, 7}
    <3>1. CASE j \in 1 .. 3
      BY <2>1, <2>2, <3>1
    <3>2. CASE j \in {4, 5}
      BY <2>1, <2>2, <3>2
    <3>3. CASE j \in {8, 9}
      BY <2>1, <2>2, <3>3
    <3> QED
      BY <2>1, <2>2, <3>1, <3>2, <3>3
  <2>4. k \in {6, 7}
    <3> k \in 1 .. 9 /\ P[k].file = "websocket"
      BY <2>2, <2>3
    <3>1. CASE k \in 1 .. 3
      BY <2>1, <3>1
    <3>2. CASE k \in {4, 5}
      BY <2>1, <3>2
    <3>3. CASE k \in {8, 9}
      BY <2>1, <3>3
    <3> QED
      BY <3>1, <3>2, <3>3
  <2> QED
    BY <1>2, <2>3, <2>4, PublicPlan
<1> QED
  BY <1>1, <1>2 DEF Mode

-----------------------------------------------------------------------------
(***************************************************************************)
(* What a step makes of the text of its file.                              *)
(***************************************************************************)

LEMMA AboveMarker ==
  ASSUME NEW marker, NEW text \in SUBSET Section
  PROVE  Above(marker, text) \in SUBSET Section /\ marker \notin Above(marker, text)
<1>1. \A i, j \in DOMAIN Sections : i < j => Sections[i] # Sections[j]
  BY DEF Sections
<1> QED
  BY <1>1 DEF Above

LEMMA AboveKeeps ==
  ASSUME NEW m \in Mode, NEW text \in SUBSET Section
  PROVE  text \ {Other(m), "autonomous"} \subseteq Above(Other(m), text)
<1>1. /\ DOMAIN Sections = 1 .. 3
      /\ Sections[1] = "head" /\ Sections[2] = "public" /\ Sections[3] = "autonomous"
  BY DEF Sections
<1>2. CASE m = "autonomous"
  BY <1>1, <1>2 DEF Above, Other, Section
<1>3. CASE m = "public"
  BY <1>1, <1>3 DEF Above, Other, Section
<1> QED
  BY <1>2, <1>3 DEF Mode

LEMMA WebsocketSayings ==
  ASSUME NEW text \in WebsocketText
  PROVE  text \in SUBSET Saying /\ text # Missing
<1>1. text \in SUBSET Saying
  BY DEF WebsocketText, Saying, Says, Mode
<1> QED
  BY <1>1, ConstantsAssumption

\* A patch of websocket.ts leaves the anchor of the other patch as it is.
LEMMA WebsocketPatched ==
  ASSUME NEW m \in Mode,
         NEW what \in {"import", "tools"}, NEW other \in {"import", "tools"}, what # other,
         NEW s, NEW q, Patches(s, what, m), Patches(q, other, m),
         NEW text \in WebsocketText
  PROVE  /\ Patched(s, text) \in WebsocketText
         /\ q.find \in Patched(s, text) <=> q.find \in text
         /\ q.replace \in Patched(s, text) <=> q.replace \in text
<1>1. /\ s.find = <<what, "both">> /\ s.replace = <<what, m>>
      /\ q.find = <<other, "both">> /\ q.replace = <<other, m>>
  BY DEF Patches, Says
<1>2. /\ q.find \in Patched(s, text) <=> q.find \in text
      /\ q.replace \in Patched(s, text) <=> q.replace \in text
  BY <1>1 DEF Patched
<1>3. CASE s.find \in text
  <2>1. PICK i \in Mode \cup {"both"}, t \in Mode \cup {"both"} :
          text = {<<"import", i>>, <<"tools", t>>}
    BY <1>1, <1>3 DEF WebsocketText, Says, Mode
  <2>2. Patched(s, text) = IF what = "import" THEN {<<"import", m>>, <<"tools", t>>}
                                              ELSE {<<"import", i>>, <<"tools", m>>}
    BY <1>1, <1>3, <2>1 DEF Patched
  <2> QED
    BY <1>2, <2>2 DEF WebsocketText, Says
<1>4. CASE s.find \notin text
  BY <1>2, <1>4 DEF Patched
<1> QED
  BY <1>3, <1>4

LEMMA AfterShape ==
  ASSUME NEW m \in Mode, NEW s, PlanStep(s, m),
         NEW text, Shape(s.file, text), ~Aborts(s, text)
  PROVE  Shape(s.file, After(s, text))
<1>1. CASE text = Missing
  BY <1>1 DEF Aborts, After
<1>2. CASE Deletes(s, m)
  BY <1>2 DEF Deletes, Shape, After, AgentText, AgentOf, Mode, Rewritten
<1>3. CASE text # Missing /\ Rewrites(s, m)
  <2>1. s.file \in Rewritten /\ text \in RewrittenText(s.file) /\ After(s, text) = {Says("all", m)}
    BY <1>3 DEF Rewrites, Shape, After
  <2>2. After(s, text) \in RewrittenText(s.file)
    BY <1>3, <2>1 DEF RewrittenText
  <2> QED
    BY <2>1, <2>2 DEF Shape, Rewritten, AgentOf, Mode
<1>4. CASE text # Missing /\ \E what \in {"import", "tools"} : Patches(s, what, m)
  <2>1. PICK what \in {"import", "tools"} : Patches(s, what, m)
    BY <1>4
  <2>2. /\ s.file = "websocket" /\ text \in WebsocketText
        /\ After(s, text) = Patched(s, text)
    BY <1>4, <2>1 DEF Patches, Shape, After
  <2>3. PICK q : Patches(q, IF what = "import" THEN "tools" ELSE "import", m)
    BY PlanTargets
  <2>4. Patched(s, text) \in WebsocketText
    BY <2>1, <2>2, <2>3, WebsocketPatched
  <2> QED
    BY <2>2, <2>4 DEF Shape, AgentOf, Mode, Rewritten
<1>5. CASE text # Missing /\ Patches(s, "prompt", m)
  <2>1. /\ s.file = AgentOf(m) /\ text \in AgentText(m)
        /\ s.op = "patch" /\ s.find = <<"prompt", "both">> /\ s.replace = <<"prompt", m>>
    BY <1>5 DEF Patches, Shape, Says
  <2>2. text = {<<"prompt", m>>}
    BY <1>5, <2>1 DEF Aborts, AgentText, Says, Mode
  <2>3. After(s, text) = text
    BY <1>5, <2>1, <2>2 DEF After, Patched, Mode
  <2> QED
    BY <2>3
<1>6. CASE text # Missing /\ Strips(s, m)
  <2>1. text \in SUBSET Section /\ After(s, text) = Above(s.marker, text)
    BY <1>6 DEF Strips, Shape, After
  <2> QED
    BY <1>6, <2>1, AboveMarker DEF Strips, Shape, AgentOf, Mode, Rewritten
<1>7. CASE text # Missing /\ RemovesScripts(s, m)
  BY <1>7 DEF RemovesScripts, Shape, ScriptText, After, AgentOf, Mode, Rewritten
<1> QED
  BY <1>1, <1>2, <1>3, <1>4, <1>5, <1>6, <1>7 DEF PlanStep

\* A step takes nothing from its own mode.
LEMMA AfterKeepsOwn ==
  ASSUME NEW m \in Mode, NEW s, PlanStep(s, m),
         NEW text, Shape(s.file, text), ~Aborts(s, text),
         given \in SUBSET Section, Keeps(m, s.file, text)
  PROVE  Keeps(m, s.file, After(s, text))
<1>1. CASE s.file \notin {AgentOf(m), ".env.example", "package.json"}
  BY <1>1 DEF Keeps
<1>2. CASE s.file = AgentOf(m)
  <2>1. Patches(s, "prompt", m) /\ text # Missing /\ text \in AgentText(m)
    BY <1>2 DEF PlanStep, Deletes, Rewrites, Patches, Strips, RemovesScripts, AgentOf, Other,
                Rewritten, Mode, Keeps, Shape
  <2>2. /\ s.op = "patch" /\ s.find = <<"prompt", "both">> /\ s.replace = <<"prompt", m>>
    BY <2>1 DEF Patches, Says
  <2>3. s.find \notin text
    BY <2>1, <2>2 DEF AgentText, Says, Mode
  <2> QED
    BY <2>1, <2>2, <2>3 DEF After, Patched
<1>3. CASE s.file = ".env.example"
  <2>1. Strips(s, m) /\ text \in SUBSET Section
    BY <1>3 DEF PlanStep, Deletes, Rewrites, Patches, Strips, RemovesScripts, AgentOf, Other,
                Rewritten, Mode, Shape
  <2>2. text # Missing
    BY <2>1, ConstantsAssumption
  <2>3. After(s, text) = Above(Other(m), text)
    BY <2>1, <2>2 DEF Strips, After
  <2>4. text \ {Other(m), "autonomous"} \subseteq Above(Other(m), text)
    BY <2>1, AboveKeeps
  <2> QED
    BY <1>3, <2>3, <2>4 DEF Keeps, AgentOf
<1>4. CASE s.file = "package.json"
  <2>1. RemovesScripts(s, m) /\ text \in SUBSET Script
    BY <1>4 DEF PlanStep, Deletes, Rewrites, Patches, Strips, RemovesScripts, AgentOf, Other,
                Rewritten, Mode, Shape, ScriptText, Script
  <2>2. text # Missing
    BY <2>1, ConstantsAssumption
  <2>3. After(s, text) = text \ {"dev:ui", "dev:all"}
    BY <2>1, <2>2 DEF RemovesScripts, After
  <2> QED
    BY <1>4, <2>1, <2>3 DEF Keeps, AgentOf, RemovesScripts
<1> QED
  BY <1>1, <1>2, <1>3, <1>4

LEMMA AfterSettles ==
  ASSUME NEW m \in Mode, NEW s, PlanStep(s, m),
         NEW text, Shape(s.file, text), ~Aborts(s, text)
  PROVE  Settled(s, After(s, text))
<1>1. CASE text = Missing \/ Deletes(s, m)
  BY <1>1 DEF After, Settled, Deletes
<1>2. CASE text # Missing /\ Rewrites(s, m)
  BY <1>2 DEF After, Settled, Rewrites
<1>3. CASE text # Missing /\ \E what \in {"import", "tools", "prompt"} : Patches(s, what, m)
  <2>1. s.op = "patch" /\ s.find # s.replace
    BY <1>3 DEF Patches, Says, Mode
  <2> QED
    BY <1>3, <2>1 DEF After, Settled, Patched, Aborts
<1>4. CASE text # Missing /\ Strips(s, m)
  <2>1. text \in SUBSET Section
    BY <1>4 DEF Strips, Shape
  <2> QED
    BY <1>4, <2>1, AboveMarker DEF Strips, After, Settled
<1>5. CASE text # Missing /\ RemovesScripts(s, m)
  <2>1. text \in {{"dev"}, {"dev", "dev:ui"}}
    BY <1>5 DEF RemovesScripts, Shape, ScriptText, Aborts
  <2>2. After(s, text) = {"dev"}
    BY <1>5, <2>1 DEF RemovesScripts, After
  <2> QED
    BY <1>5, <2>2 DEF RemovesScripts, Settled
<1> QED
  BY <1>1, <1>2, <1>3, <1>4, <1>5 DEF PlanStep

\* A step that is done has nothing to do.
LEMMA SettledRests ==
  ASSUME NEW m \in Mode, NEW s, PlanStep(s, m), NEW text, Settled(s, text)
  PROVE  After(s, text) = text /\ ~Aborts(s, text)
<1>1. CASE text = Missing
  <2>1. Missing # {}
    BY ConstantsAssumption
  <2> QED
    BY <1>1, <2>1 DEF After, Aborts
<1>2. CASE text # Missing /\ Rewrites(s, m)
  BY <1>2 DEF Rewrites, Settled, After, Aborts
<1>3. CASE text # Missing /\ \E what \in {"import", "tools", "prompt"} : Patches(s, what, m)
  BY <1>3 DEF Patches, Settled, After, Patched, Aborts
<1>4. CASE text # Missing /\ Strips(s, m)
  BY <1>4 DEF Strips, Settled, After, Above, Aborts
<1>5. CASE text # Missing /\ RemovesScripts(s, m)
  <2>1. s.remove \cap text = {} /\ text # {} /\ s.op = "scripts"
    BY <1>5 DEF RemovesScripts, Settled
  <2> QED
    BY <1>5, <2>1 DEF After, Aborts
<1>6. CASE text # Missing /\ Deletes(s, m)
  BY <1>6 DEF Deletes, Settled
<1> QED
  BY <1>1, <1>2, <1>3, <1>4, <1>5, <1>6 DEF PlanStep

\* A step leaves the other step on its file as it was: settled or not, and with the
\* same verdict.
LEMMA AfterKeeps ==
  ASSUME NEW m \in Mode,
         NEW j \in 1 .. Len(Plan(m)), NEW k \in 1 .. Len(Plan(m)),
         j # k, Plan(m)[j].file = Plan(m)[k].file,
         NEW text, Shape(Plan(m)[k].file, text)
  PROVE  /\ Settled(Plan(m)[j], text) => Settled(Plan(m)[j], After(Plan(m)[k], text))
         /\ Aborts(Plan(m)[j], After(Plan(m)[k], text)) <=> Aborts(Plan(m)[j], text)
<1> DEFINE q == Plan(m)[j]
           s == Plan(m)[k]
<1>1. PICK what \in {"import", "tools"}, other \in {"import", "tools"} :
        what # other /\ Patches(s, what, m) /\ Patches(q, other, m)
  BY PlanApart
<1> HIDE DEF q, s
<1>2. /\ s.op = "patch" /\ q.op = "patch" /\ s.file = "websocket"
  BY <1>1 DEF Patches
<1>3. text \in WebsocketText
  BY <1>2 DEF Shape, s
<1>4. /\ Patched(s, text) \in WebsocketText
      /\ q.find \in Patched(s, text) <=> q.find \in text
      /\ q.replace \in Patched(s, text) <=> q.replace \in text
  BY <1>1, <1>3, WebsocketPatched
<1>5. text # Missing /\ Patched(s, text) # Missing
  BY <1>3, <1>4, WebsocketSayings
<1>6. After(s, text) = Patched(s, text)
  BY <1>2, <1>5 DEF After
<1>7. Settled(q, text) => Settled(q, After(s, text))
  BY <1>2, <1>4, <1>5, <1>6 DEF Settled
<1>8. Aborts(q, After(s, text)) <=> Aborts(q, text)
  BY <1>2, <1>4, <1>5, <1>6 DEF Aborts
<1> QED
  BY <1>7, <1>8 DEF q, s

-----------------------------------------------------------------------------
(***************************************************************************)
(* The invariant is inductive.                                             *)
(***************************************************************************)

LEMMA StepTypes ==
  ASSUME RunOK, NEW j \in Steps
  PROVE  PlanStep(S(j), mode) /\ S(j).file \in File
<1>1. PlanStep(S(j), mode)
  BY PlanSteps DEF RunOK, Steps, S
<1> QED
  BY <1>1 DEF PlanStep, Deletes, Rewrites, Patches, Strips, RemovesScripts, RunOK,
              File, Rewritten, AgentOf, Other, Mode

LEMMA AtStep ==
  ASSUME RunOK, InPlan
  PROVE  at \in Steps /\ TheStep = S(at) /\ Text = tree[S(at).file]
  BY PlanSteps DEF RunOK, InPlan, Steps, TheStep, Text, S

\* The texts of the template, and of an operator's edit, have a shape the plans know.
LEMMA TemplateShape == \A f \in File : Shape(f, Template[f])
<1> SUFFICES ASSUME NEW f \in File
             PROVE  Shape(f, Template[f])
  OBVIOUS
<1>1. CASE f = "websocket"
  BY <1>1 DEF Template, File, Rewritten, Shape, WebsocketText, AgentOf, Mode
<1>2. CASE f \in Rewritten
  <2>1. Template[f] \in RewrittenText(f)
    BY <1>2 DEF Template, File, Rewritten, RewrittenText
  <2> QED
    BY <1>2, <2>1 DEF Shape, Rewritten, AgentOf, Mode
<1>3. CASE f = "tools/public"
  BY <1>3 DEF Template, File, Rewritten, Shape, AgentOf, Mode
<1>4. CASE f \in {"agent-public", "agent-autonomous"}
  BY <1>4 DEF Template, File, Rewritten, Shape, AgentText, AgentOf, Mode
<1>5. CASE f = ".env.example"
  BY <1>5 DEF Template, File, Rewritten, Shape, Section, AgentOf, Mode
<1>6. CASE f = "package.json"
  BY <1>6 DEF Template, File, Rewritten, Shape, ScriptText, AgentOf, Mode
<1> QED
  BY <1>1, <1>2, <1>3, <1>4, <1>5, <1>6 DEF File

LEMMA TemplateAgents == \A m \in Mode : Template[AgentOf(m)] # Missing
<1>1. \A m \in Mode : Template[AgentOf(m)] = {Says("prompt", "own")}
  BY DEF Template, File, Rewritten, AgentOf, Mode
<1>2. {Says("prompt", "own")} \in SUBSET Saying
  BY DEF Saying, Says
<1> QED
  BY <1>1, <1>2, ConstantsAssumption

\* A step of a real run: what is behind stays done, the step is done, and what is
\* ahead keeps its verdict.
LEMMA StepForward ==
  ASSUME RunOK, ShapesFit, Progress,
         InPlan, ~dryRun, ~Aborts(TheStep, Text), mode' = mode,
         \A f \in File :
           Now(f)' = IF f = TheStep.file THEN After(TheStep, Text) ELSE tree[f]
  PROVE  /\ \A j \in Steps : j <= at => Settled(S(j), Now(S(j).file)')
         /\ \A j \in Steps :
              j > at => (Aborts(S(j), Now(S(j).file)') <=> Aborts(S(j), tree[S(j).file]))
<1> \A j \in Steps : S(j)' = S(j)
  BY DEF S
<1>1. /\ at \in Steps /\ TheStep = S(at) /\ Text = tree[S(at).file]
      /\ PlanStep(S(at), mode) /\ S(at).file \in File
  BY AtStep, StepTypes
<1>2. Shape(S(at).file, tree[S(at).file])
  BY <1>1 DEF ShapesFit
<1>3. ASSUME NEW j \in Steps, j = at
      PROVE  Settled(S(j), Now(S(j).file)')
  <2>1. Settled(S(at), After(TheStep, Text))
    BY <1>1, <1>2, AfterSettles DEF RunOK
  <2> QED
    BY <1>1, <1>3, <2>1
<1>4. \A j \in Steps : j < at => Settled(S(j), tree[S(j).file])
  BY DEF Progress, InPlan, Now
<1>5. ASSUME NEW j \in Steps, j # at
      PROVE  /\ Settled(S(j), tree[S(j).file]) => Settled(S(j), Now(S(j).file)')
             /\ Aborts(S(j), Now(S(j).file)') <=> Aborts(S(j), tree[S(j).file])
  <2>1. S(j).file \in File
    BY StepTypes
  <2>2. CASE S(j).file # S(at).file
    BY <1>1, <2>1, <2>2
  <2>3. CASE S(j).file = S(at).file
    <3>1. Now(S(j).file)' = After(S(at), tree[S(at).file])
      BY <1>1, <2>1, <2>3
    <3> QED
      BY <1>1, <1>2, <1>5, <2>3, <3>1, AfterKeeps DEF RunOK, Steps, S
  <2> QED
    BY <2>2, <2>3
<1>6. \A j \in Steps : j \in Int /\ at \in Int
  BY <1>1, PlanSteps DEF Steps, RunOK
<1> QED
  BY <1>3, <1>4, <1>5, <1>6

\* What is not written stays with those it is kept for.
LEMMA KeptStays ==
  ASSUME Kept, UNCHANGED damage, \A f \in File : Now(f)' = Now(f)
  PROVE  Kept'
BY DEF Kept, Keeps, damage

\* A step of a real run takes from the other mode only.
LEMMA KeptForward ==
  ASSUME RunOK, ShapesFit, Kept, InPlan, ~Aborts(TheStep, Text),
         Spoils(TheStep.file, {Other(mode)}),
         \A f \in File :
           Now(f)' = IF f = TheStep.file THEN After(TheStep, Text) ELSE tree[f]
  PROVE  Kept' /\ spoilt' \subseteq Mode \X File /\ given' \in SUBSET Section
<1>1. /\ TheStep = S(at) /\ Text = tree[S(at).file]
      /\ PlanStep(TheStep, mode) /\ TheStep.file \in File
      /\ Shape(TheStep.file, Text)
  BY AtStep, StepTypes DEF ShapesFit
<1>2. /\ given' = given /\ spoilt' = spoilt \cup ({Other(mode)} \X {TheStep.file})
      /\ mode \in Mode /\ Other(mode) \in Mode
      /\ \A m \in Mode : m = mode \/ m = Other(mode)
  BY DEF Spoils, RunOK, Mode, Other
<1>3. ASSUME NEW m \in Mode, NEW f \in File, <<m, f>> \notin spoilt'
      PROVE  Keeps(m, f, Now(f)')
  <2>1. Now(f) = tree[f]
    BY DEF Now, InPlan
  <2>2. Keeps(m, f, tree[f])
    BY <1>2, <1>3, <2>1 DEF Kept
  <2>3. CASE f # TheStep.file
    BY <2>2, <2>3
  <2>4. CASE f = TheStep.file
    <3>1. m = mode
      BY <1>2, <1>3, <2>4
    <3> QED
      BY <1>1, <2>2, <2>4, <3>1, AfterKeepsOwn DEF RunOK
  <2> QED
    BY <2>3, <2>4
<1>4. Kept'
  BY <1>2, <1>3 DEF Kept, Keeps
<1> QED
  BY <1>1, <1>2, <1>4 DEF RunOK

LEMMA InitInv == Init => Inv
<1> SUFFICES ASSUME Init
             PROVE  Inv
  OBVIOUS
<1>1. RunOK
  <2>1. Len(Plan(mode)) = 9
    BY PlanLengths DEF Init
  <2>2. dryRun \in BOOLEAN
    BY DEF Init
  <2> QED
    BY <2>1, <2>2 DEF Init, RunOK, Template, Mode, File, Rewritten, Section
<1>2. ShapesFit
  BY TemplateShape DEF Init, ShapesFit
<1>3. Kept
  <2>1. \A f \in File : Now(f) = Template[f]
    BY DEF Init, Now
  <2> QED
    BY <2>1, TemplateAgents DEF Init, Kept, Keeps
<1> QED
  BY <1>1, <1>2, <1>3 DEF Init, Inv, WriteFits, Progress, Forecast, ForetoldByDryRun

LEMMA MainInv ==
  ASSUME Inv, NEW m \in Mode, NEW dry \in BOOLEAN, Main(m, dry)
  PROVE  Inv'
<1>1. Len(Plan(m)) \in Nat
  BY PlanSteps
<1>2. RunOK'
  BY <1>1 DEF Inv, RunOK, Main, damage
<1>3. ShapesFit' /\ WriteFits' /\ ForetoldByDryRun'
  BY DEF Inv, ShapesFit, WriteFits, ForetoldByDryRun, Main
<1>4. Progress'
  <2>1. \A j \in Steps' : ~(j < 1)
    BY DEF Steps
  <2> QED
    BY <2>1 DEF Progress, Main
<1>5. Forecast'
  <2>1. CASE dry \/ foretold' = Unknown
    <3>1. dry => foretold' = Unknown
      BY DEF Main
    <3>2. \A j \in Steps' : ~(j < 1)
      BY DEF Steps
    <3> QED
      BY <2>1, <3>1, <3>2 DEF Forecast, Main, Unknown
  <2>2. CASE ~dry /\ foretold' # Unknown
    <3>1. /\ dryRun /\ m = mode /\ pc \in {"done", "err"} /\ foretold' = foretold
      BY <2>2 DEF Main, Inv, Forecast
    <3>2. Steps' = Steps /\ \A j \in Steps : S(j)' = S(j)
      BY <3>1 DEF Main, Steps, S
    <3>3. \A j \in Steps : Ahead(j)'
      BY DEF Main, Ahead, Steps
    <3>4. \A f : Now(f)' = tree[f]
      BY DEF Main, Now
    <3>5. CASE pc = "done"
      <4>1. foretold' = "done" /\ \A j \in Steps : ~Aborts(S(j), tree[S(j).file])
        BY <3>1, <3>5 DEF Inv, Forecast
      <4> QED
        BY <2>2, <3>2, <3>4, <4>1 DEF Forecast, Main
    <3>6. CASE pc = "err"
      <4>1. foretold' = "err" /\ \E j \in Steps : Aborts(S(j), tree[S(j).file])
        BY <3>1, <3>6 DEF Inv, Forecast
      <4> QED
        BY <2>2, <3>2, <3>3, <3>4, <4>1 DEF Forecast, Main
    <3> QED
      BY <3>1, <3>5, <3>6
  <2> QED
    BY <2>1, <2>2
<1>6. Kept'
  <2>1. \A f \in File : Now(f)' = Now(f)
    BY DEF Main, Now
  <2> QED
    BY <2>1, KeptStays DEF Inv, Main, damage
<1> QED
  BY <1>2, <1>3, <1>4, <1>5, <1>6 DEF Inv

LEMMA SkipInv ==
  ASSUME Inv, Skip
  PROVE  Inv'
<1>1. /\ at \in Steps /\ TheStep = S(at) /\ Text = tree[S(at).file]
      /\ PlanStep(S(at), mode) /\ S(at).file \in File
      /\ Len(Plan(mode)) \in Nat
  BY AtStep, StepTypes, PlanSteps DEF Inv, RunOK, Skip
<1>2. Steps' = Steps /\ \A j \in Steps : S(j)' = S(j)
  BY DEF Skip, Steps, S
<1>3. \A j \in Steps : j \in Int /\ at \in Int /\ (j < at + 1 <=> j <= at) /\ (j < at + 1 <=> j < at \/ j = at)
  BY <1>1 DEF Steps
<1>4. RunOK'
  BY <1>1 DEF Inv, RunOK, Skip, Steps, damage
<1>5. ShapesFit' /\ WriteFits' /\ ForetoldByDryRun'
  BY DEF Inv, ShapesFit, WriteFits, ForetoldByDryRun, Skip, InPlan
<1>6. Progress'
  <2>1. CASE dryRun
    BY <2>1 DEF Progress, Skip
  <2>2. CASE ~dryRun
    <3>1. \A f \in File :
            Now(f)' = IF f = TheStep.file THEN After(TheStep, Text) ELSE tree[f]
      BY <1>1, <2>2 DEF Skip, InPlan, Now
    <3>2. \A j \in Steps : j <= at => Settled(S(j), Now(S(j).file)')
      BY <2>2, <3>1, StepForward DEF Inv, Skip
    <3> QED
      BY <1>2, <1>3, <3>2 DEF Progress, Skip, InPlan
  <2> QED
    BY <2>1, <2>2 DEF Inv, RunOK
<1>7. Forecast'
  <2>1. CASE dryRun
    BY <1>1, <1>2, <1>3, <2>1 DEF Inv, Forecast, Skip, InPlan
  <2>2. CASE ~dryRun
    <3>1. \A f : Now(f)' = Now(f) /\ Now(f) = tree[f]
      BY DEF Skip, InPlan, Now
    <3>2. \A j \in Steps : Ahead(j)' <=> Ahead(j) /\ j # at
      BY <1>1, <1>3 DEF Ahead, Skip, InPlan
    <3>3. ~Aborts(S(at), Now(S(at).file))
      BY <1>1, <3>1 DEF Skip
    <3> QED
      BY <1>2, <2>2, <3>1, <3>2, <3>3 DEF Inv, Forecast, Skip, InPlan
  <2> QED
    BY <2>1, <2>2 DEF Inv, RunOK
<1>8. Kept'
  <2>1. \A f \in File : Now(f)' = Now(f)
    BY DEF Skip, InPlan, Now
  <2> QED
    BY <2>1, KeptStays DEF Inv, Skip, damage
<1> QED
  BY <1>4, <1>5, <1>6, <1>7, <1>8 DEF Inv

\* What a run does to the tree keeps the shapes.
LEMMA OneFile ==
  ASSUME RunOK, ShapesFit, NEW f \in File, NEW text, Shape(f, text),
         tree' = [tree EXCEPT ![f] = text]
  PROVE  /\ ShapesFit'
         /\ DOMAIN tree' = File
         /\ \A g \in File : tree'[g] = IF g = f THEN text ELSE tree[g]
<1>1. \A g \in File : tree'[g] = IF g = f THEN text ELSE tree[g]
  BY DEF RunOK
<1>2. DOMAIN tree' = File
  BY DEF RunOK
<1>3. ShapesFit'
  BY <1>1 DEF ShapesFit
<1> QED
  BY <1>1, <1>2, <1>3

LEMMA AbortInv ==
  ASSUME Inv, Abort
  PROVE  Inv'
<1>1. /\ at \in Steps /\ TheStep = S(at) /\ Text = tree[S(at).file]
      /\ Len(Plan(mode)) \in Nat
  BY AtStep, PlanSteps DEF Inv, RunOK, Abort
<1>2. Steps' = Steps /\ \A j \in Steps : S(j)' = S(j)
  BY DEF Abort, Steps, S
<1>3. RunOK'
  BY <1>1 DEF Inv, RunOK, Abort, Ends, damage
<1>4. ShapesFit' /\ WriteFits' /\ Progress'
  BY DEF Inv, ShapesFit, WriteFits, Progress, Abort, Ends
<1>5. Aborts(S(at), tree[S(at).file])
  BY <1>1 DEF Abort
<1>6. Forecast'
  BY <1>1, <1>2, <1>5 DEF Inv, Forecast, Abort, Ends
<1>7. ForetoldByDryRun'
  <2>1. CASE dryRun
    BY <2>1 DEF ForetoldByDryRun, Abort
  <2>2. CASE ~dryRun
    <3>1. Ahead(at) /\ Aborts(S(at), Now(S(at).file))
      BY <1>5 DEF Abort, InPlan, Ahead, Now
    <3>2. foretold # "done"
      BY <1>1, <2>2, <3>1 DEF Inv, Forecast, Abort, InPlan
    <3> QED
      BY <2>2, <3>2 DEF Inv, RunOK, ForetoldByDryRun, Abort, Ends, Unknown
  <2> QED
    BY <2>1, <2>2 DEF Inv, RunOK
<1>8. Kept'
  <2>1. \A f \in File : Now(f)' = Now(f)
    BY DEF Abort, Ends, InPlan, Now
  <2> QED
    BY <2>1, KeptStays DEF Inv, Abort, damage
<1> QED
  BY <1>3, <1>4, <1>6, <1>7, <1>8 DEF Inv

LEMMA DeleteTargetInv ==
  ASSUME Inv, DeleteTarget
  PROVE  Inv'
<1>1. /\ at \in Steps /\ TheStep = S(at) /\ Text = tree[S(at).file]
      /\ PlanStep(S(at), mode) /\ S(at).file \in File
      /\ Len(Plan(mode)) \in Nat
  BY AtStep, StepTypes, PlanSteps DEF Inv, RunOK, DeleteTarget
<1>2. Steps' = Steps /\ \A j \in Steps : S(j)' = S(j)
  BY DEF DeleteTarget, Steps, S
<1>3. \A j \in Steps : j \in Int /\ at \in Int
  BY <1>1 DEF Steps
<1>4. After(TheStep, Text) = Missing /\ ~Aborts(TheStep, Text)
  BY DEF DeleteTarget, After, Aborts
<1>5. Shape(TheStep.file, Missing)
  BY <1>1, <1>4, AfterShape DEF Inv, ShapesFit, RunOK
<1>6. /\ ShapesFit' /\ DOMAIN tree' = File
      /\ \A f \in File : tree'[f] = IF f = TheStep.file THEN Missing ELSE tree[f]
  BY <1>1, <1>5, OneFile DEF Inv, DeleteTarget
<1>7. \A f \in File :
        Now(f)' = IF f = TheStep.file THEN After(TheStep, Text) ELSE tree[f]
  BY <1>4, <1>6 DEF DeleteTarget, InPlan, Now
<1>8. Kept' /\ spoilt' \subseteq Mode \X File /\ given' \in SUBSET Section
  BY <1>4, <1>7, KeptForward DEF Inv, DeleteTarget
<1>9. RunOK'
  BY <1>1, <1>6, <1>8 DEF Inv, RunOK, DeleteTarget, Steps
<1>10. WriteFits' /\ ForetoldByDryRun'
  BY DEF WriteFits, ForetoldByDryRun, DeleteTarget, InPlan
<1>11. /\ \A j \in Steps : j <= at => Settled(S(j), Now(S(j).file)')
       /\ \A j \in Steps :
            j > at => (Aborts(S(j), Now(S(j).file)') <=> Aborts(S(j), tree[S(j).file]))
  BY <1>4, <1>7, StepForward DEF Inv, DeleteTarget
<1>12. Progress'
  BY <1>2, <1>3, <1>11 DEF Progress, DeleteTarget, InPlan
<1>13. Forecast'
  <2>1. \A f : Now(f) = tree[f]
    BY DEF DeleteTarget, InPlan, Now
  <2>2. \A j \in Steps : Ahead(j)' <=> Ahead(j) /\ j # at
    BY <1>3 DEF Ahead, DeleteTarget, InPlan
  <2>3. \A j \in Steps : Ahead(j) /\ j # at => j > at
    BY DEF Ahead
  <2>4. ~Aborts(S(at), tree[S(at).file])
    BY <1>1, <1>4
  <2> QED
    BY <1>2, <1>11, <2>1, <2>2, <2>3, <2>4 DEF Inv, Forecast, DeleteTarget, InPlan
<1> QED
  BY <1>6, <1>8, <1>9, <1>10, <1>12, <1>13 DEF Inv

LEMMA TruncateInv ==
  ASSUME Inv, Truncate
  PROVE  Inv'
<1>1. /\ at \in Steps /\ TheStep = S(at) /\ Text = tree[S(at).file]
      /\ PlanStep(S(at), mode) /\ S(at).file \in File
      /\ Len(Plan(mode)) \in Nat
  BY AtStep, StepTypes, PlanSteps DEF Inv, RunOK, Truncate
<1>2. /\ Steps' = Steps /\ \A j \in Steps : S(j)' = S(j)
      /\ TheStep' = TheStep
  BY DEF Truncate, Steps, S, TheStep
<1>3. \A j \in Steps : j \in Int /\ at \in Int
  BY <1>1 DEF Steps
<1>4. Shape(TheStep.file, After(TheStep, Text))
  BY <1>1, AfterShape DEF Inv, ShapesFit, RunOK, Truncate
<1>5. Shape(TheStep.file, {})
  <2>1. TheStep.file # "agent-public" /\ TheStep.file # "agent-autonomous"
    <3>1. ASSUME TheStep.file = AgentOf(mode) PROVE FALSE
      <4>1. Patches(TheStep, "prompt", mode)
        BY <1>1, <3>1 DEF PlanStep, Deletes, Rewrites, Patches, Strips, RemovesScripts,
                          AgentOf, Other, Rewritten, Inv, RunOK, Mode, Truncate
      <4>2. /\ Text \in AgentText(mode) /\ TheStep.op = "patch"
            /\ TheStep.find = <<"prompt", "both">> /\ TheStep.replace = <<"prompt", mode>>
        BY <1>1, <3>1, <4>1 DEF Inv, RunOK, ShapesFit, Shape, Patches, Says
      <4>3. Text = Missing \/ Text = {<<"prompt", mode>>}
        BY <4>2 DEF Truncate, Aborts, AgentText, Says, Inv, RunOK, Mode
      <4>4. After(TheStep, Text) = Text
        BY <4>2, <4>3 DEF After, Patched, Inv, RunOK, Mode
      <4> QED
        BY <4>4 DEF Truncate
    <3>2. TheStep.file # AgentOf(Other(mode))
      BY <1>1 DEF PlanStep, Deletes, Rewrites, Patches, Strips, RemovesScripts,
                  AgentOf, Other, Rewritten, Inv, RunOK, Mode, Truncate
    <3> QED
      BY <3>1, <3>2 DEF AgentOf, Other, Inv, RunOK, Mode
  <2>2. Text # Missing
    BY DEF Truncate, After
  <2>3. TheStep.file \in Rewritten => {} \in RewrittenText(TheStep.file)
    BY <1>1, <2>2 DEF Inv, ShapesFit, Shape, RewrittenText
  <2>4. TheStep.file # "tools/public"
    BY <1>1, <2>2 DEF Inv, ShapesFit, Shape
  <2> QED
    BY <2>1, <2>3, <2>4 DEF Shape, WebsocketText, ScriptText, AgentOf, Mode
<1>6. /\ ShapesFit' /\ DOMAIN tree' = File
      /\ \A f \in File : tree'[f] = IF f = TheStep.file THEN {} ELSE tree[f]
  BY <1>1, <1>5, OneFile DEF Inv, Truncate
<1>7. \A f \in File :
        Now(f)' = IF f = TheStep.file THEN After(TheStep, Text) ELSE tree[f]
  BY <1>2, <1>6 DEF Truncate, Now
<1>8. Kept' /\ spoilt' \subseteq Mode \X File /\ given' \in SUBSET Section
  BY <1>7, KeptForward DEF Inv, Truncate
<1>9. RunOK'
  BY <1>1, <1>6, <1>8 DEF Inv, RunOK, Truncate
<1>10. WriteFits' /\ ForetoldByDryRun'
  BY <1>1, <1>2, <1>4 DEF WriteFits, ForetoldByDryRun, Truncate, InPlan
<1>11. /\ \A j \in Steps : j <= at => Settled(S(j), Now(S(j).file)')
       /\ \A j \in Steps :
            j > at => (Aborts(S(j), Now(S(j).file)') <=> Aborts(S(j), tree[S(j).file]))
  BY <1>7, StepForward DEF Inv, Truncate
<1>12. Progress'
  BY <1>2, <1>3, <1>11 DEF Progress, Truncate
<1>13. Forecast'
  <2>1. \A f : Now(f) = tree[f]
    BY DEF Truncate, InPlan, Now
  <2>2. \A j \in Steps : Ahead(j)' <=> Ahead(j) /\ j # at
    BY <1>3 DEF Ahead, Truncate, InPlan
  <2>3. \A j \in Steps : Ahead(j) /\ j # at => j > at
    BY DEF Ahead
  <2>4. ~Aborts(S(at), tree[S(at).file])
    BY <1>1 DEF Truncate
  <2> QED
    BY <1>2, <1>11, <2>1, <2>2, <2>3, <2>4 DEF Inv, Forecast, Truncate, InPlan
<1> QED
  BY <1>6, <1>8, <1>9, <1>10, <1>12, <1>13 DEF Inv

LEMMA WriteInv ==
  ASSUME Inv, Write
  PROVE  Inv'
<1>1. /\ at \in Steps /\ TheStep = S(at) /\ TheStep.file \in File
      /\ ~dryRun /\ Shape(TheStep.file, next)
      /\ Len(Plan(mode)) \in Nat
  BY StepTypes, PlanSteps DEF Inv, RunOK, WriteFits, Write, S, TheStep
<1>2. Steps' = Steps /\ \A j \in Steps : S(j)' = S(j)
  BY DEF Write, Steps, S
<1>3. \A j \in Steps :
        /\ j \in Int /\ at \in Int
        /\ j < at + 1 <=> j < at \/ j = at
        /\ (j > at + 1 \/ j = at + 1) <=> j > at
  BY <1>1 DEF Steps
<1>4. /\ ShapesFit' /\ DOMAIN tree' = File
      /\ \A f \in File : tree'[f] = IF f = TheStep.file THEN next ELSE tree[f]
  BY <1>1, OneFile DEF Inv, Write
<1>5. RunOK'
  BY <1>1, <1>4 DEF Inv, RunOK, Write, Steps, damage
<1>6. WriteFits' /\ ForetoldByDryRun'
  BY DEF WriteFits, ForetoldByDryRun, Write
<1>7. \A f \in File : Now(f)' = Now(f)
  BY <1>4 DEF Write, Now
<1>8. \A j \in Steps : S(j).file \in File
  BY StepTypes DEF Inv
<1>9. Progress'
  BY <1>1, <1>2, <1>3, <1>7, <1>8 DEF Inv, Progress, Write
<1>10. Forecast'
  <2>1. \A j \in Steps : Ahead(j)' <=> Ahead(j)
    BY <1>3 DEF Ahead, Write
  <2> QED
    BY <1>1, <1>2, <1>7, <1>8, <2>1 DEF Inv, Forecast, Write
<1>11. Kept'
  BY <1>7, KeptStays DEF Inv, Write, damage
<1> QED
  BY <1>4, <1>5, <1>6, <1>9, <1>10, <1>11 DEF Inv

LEMMA DoneInv ==
  ASSUME Inv, Done
  PROVE  Inv'
<1>1. Len(Plan(mode)) \in Nat /\ at \in Nat
  BY PlanSteps DEF Inv, RunOK
<1>2. Steps' = Steps /\ \A j \in Steps : S(j)' = S(j)
  BY DEF Done, Steps, S
<1>3. \A j \in Steps : j < at /\ ~Ahead(j)
  BY <1>1 DEF Steps, Ahead, Done
<1>4. RunOK'
  BY <1>1 DEF Inv, RunOK, Done, Ends, damage
<1>5. ShapesFit' /\ WriteFits'
  BY DEF Inv, ShapesFit, WriteFits, Done, Ends
<1>6. \A f : Now(f)' = tree[f] /\ Now(f) = tree[f]
  BY DEF Now, Done, Ends
<1>7. Progress'
  BY <1>2, <1>3, <1>6 DEF Inv, Progress, Done, Ends
<1>8. Forecast'
  BY <1>2, <1>3 DEF Inv, Forecast, Done, Ends
<1>9. ForetoldByDryRun'
  BY <1>3 DEF Inv, RunOK, Forecast, ForetoldByDryRun, Done, Ends, Unknown
<1>10. Kept'
  BY <1>6, KeptStays DEF Inv, Done, damage
<1> QED
  BY <1>4, <1>5, <1>7, <1>8, <1>9, <1>10 DEF Inv

\* No run, nor anything remembered of one.
LEMMA NoRunInv ==
  ASSUME NoRun, DOMAIN tree' = File, ShapesFit', Kept',
         given' \in SUBSET Section, spoilt' \subseteq Mode \X File
  PROVE  Inv'
<1>1. Len(Plan(mode))' = 9
  BY PlanLengths DEF NoRun
<1>2. (dryRun \in BOOLEAN)'
  BY DEF NoRun
<1>3. RunOK'
  BY <1>1, <1>2 DEF NoRun, RunOK, Mode
<1> QED
  BY <1>3 DEF NoRun, Inv, WriteFits, Progress, Forecast, ForetoldByDryRun

LEMMA StopInv ==
  ASSUME Inv, Stop
  PROVE  Inv'
<1>1. \A f : Now(f)' = tree[f]
  BY DEF Stop, NoRun, Now
<1>2. CASE pc = "write"
  <2>1. TheStep.file \in File
    BY <1>2, StepTypes DEF Inv, WriteFits, S, TheStep
  <2>2. spoilt' = spoilt \cup (Mode \X {TheStep.file}) /\ given' = given
    BY <1>2 DEF Stop, Spoils
  <2>3. spoilt' \subseteq Mode \X File /\ given' \in SUBSET Section
    BY <2>1, <2>2 DEF Inv, RunOK
  <2>4. \A m \in Mode, f \in File :
          <<m, f>> \notin spoilt' => <<m, f>> \notin spoilt /\ Now(f) = Now(f)'
    BY <1>1, <2>2 DEF Now
  <2>5. Kept'
    BY <2>2, <2>4 DEF Inv, Kept, Keeps
  <2> QED
    BY <2>3, <2>5, NoRunInv DEF Inv, RunOK, ShapesFit, Stop
<1>3. CASE pc = "step"
  <2>1. UNCHANGED damage /\ \A f \in File : Now(f)' = Now(f)
    BY <1>1, <1>3 DEF Stop, Now
  <2>2. Kept'
    BY <2>1, KeptStays DEF Inv
  <2> QED
    BY <2>1, <2>2, NoRunInv DEF Inv, RunOK, ShapesFit, Stop, damage
<1> QED
  BY <1>2, <1>3 DEF Stop

LEMMA EditsInv ==
  ASSUME Inv, NEW f \in File, NEW text, Shape(f, text), Edits(f, text),
         \A m \in Mode : f = AgentOf(m) => text # Missing,
         f = "package.json" => text = Template[f]
  PROVE  Inv'
<1>1. ShapesFit' /\ DOMAIN tree' = File
      /\ \A g \in File : tree'[g] = IF g = f THEN text ELSE tree[g]
  BY OneFile DEF Inv, Edits
<1>2. /\ given' = IF f = ".env.example" THEN text ELSE given
      /\ spoilt' = spoilt \ (Mode \X {f})
  BY DEF Edits
<1>3. given' \in SUBSET Section /\ spoilt' \subseteq Mode \X File
  BY <1>2 DEF Inv, RunOK, Shape
<1>4. Kept'
  <2>1. \A g \in File : Now(g)' = tree'[g] /\ Now(g) = tree[g]
    BY DEF Edits, NoRun, Now
  <2>2. ASSUME NEW m \in Mode
        PROVE  Keeps(m, f, text)'
    BY <1>2 DEF Keeps
  <2>3. ASSUME NEW m \in Mode, NEW g \in File, g # f, <<m, g>> \notin spoilt'
        PROVE  Keeps(m, g, tree[g])'
    <3>1. Keeps(m, g, tree[g])
      BY <1>2, <2>1, <2>3 DEF Inv, Kept
    <3>2. tree'[g] = tree[g]
      BY <1>1, <2>3
    <3> QED
      BY <1>2, <2>3, <3>1, <3>2 DEF Keeps
  <2> QED
    BY <1>1, <2>1, <2>2, <2>3 DEF Kept
<1> QED
  BY <1>1, <1>3, <1>4, NoRunInv DEF Edits

LEMMA OperatorInv ==
  ASSUME Inv,
         \/ \E m \in Mode : PatchManually(m)
         \/ \E f \in Rewords : EditOwn(f)
         \/ CopyAdvancedEnv
         \/ \E f \in Restores : Checkout(f)
  PROVE  Inv'
<1>1. ASSUME NEW m \in Mode, PatchManually(m)
      PROVE  Inv'
  <2>1. AgentOf(m) \in File /\ Shape(AgentOf(m), {Says("prompt", m)})
    BY DEF AgentOf, File, Mode, Shape, AgentText, Rewritten
  <2>2. {Says("prompt", m)} # Missing /\ AgentOf(m) # "package.json"
    <3>1. {Says("prompt", m)} \in SUBSET Saying
      BY DEF Saying, Says, Mode
    <3> QED
      BY <3>1, ConstantsAssumption DEF AgentOf
  <2> QED
    BY <1>1, <2>1, <2>2, EditsInv DEF PatchManually
<1>2. ASSUME NEW f \in Rewords, EditOwn(f)
      PROVE  Inv'
  <2>1. f \in Rewritten \cup {"agent-public", "agent-autonomous", "websocket"}
    BY ConstantsAssumption
  <2>2. f \in File /\ Shape(f, {Says("all", "own")})
    <3>1. f \in Rewritten => {Says("all", "own")} \in RewrittenText(f)
      <4>1. f \in Rewritten => Template[f] # Missing
        BY <1>2 DEF EditOwn, Inv, ShapesFit, Shape, RewrittenText, File
      <4> QED
        BY <4>1 DEF RewrittenText
    <3> QED
      BY <2>1, <3>1 DEF File, Rewritten, Shape, AgentText, AgentOf, Mode, WebsocketText
  <2>3. {Says("all", "own")} # Missing /\ f # "package.json"
    <3>1. {Says("all", "own")} \in SUBSET Saying
      BY DEF Saying, Says
    <3> QED
      BY <2>1, <3>1, ConstantsAssumption DEF Rewritten
  <2> QED
    BY <1>2, <2>2, <2>3, EditsInv DEF EditOwn
<1>3. ASSUME CopyAdvancedEnv
      PROVE  Inv'
  <2>1. Range(Sections) \in SUBSET Section
    BY DEF Range, Sections, Section
  <2>2. ".env.example" \in File /\ Shape(".env.example", Range(Sections))
    BY <2>1 DEF File, Shape, AgentOf, Mode, Rewritten
  <2>3. \A m \in Mode : AgentOf(m) # ".env.example"
    BY DEF AgentOf
  <2> QED
    BY <1>3, <2>2, <2>3, EditsInv DEF CopyAdvancedEnv
<1>4. ASSUME NEW f \in Restores, Checkout(f)
      PROVE  Inv'
  <2>1. f \in File /\ Shape(f, Template[f])
    BY TemplateShape, ConstantsAssumption
  <2>2. \A m \in Mode : Template[AgentOf(m)] # Missing
    BY TemplateAgents
  <2> QED
    BY <1>4, <2>1, <2>2, EditsInv DEF Checkout
<1> QED
  BY <1>1, <1>2, <1>3, <1>4

LEMMA NextInv == Inv /\ [Next]_vars => Inv'
<1> SUFFICES ASSUME Inv, [Next]_vars
             PROVE  Inv'
  OBVIOUS
<1>1. CASE \E m \in Mode, dry \in BOOLEAN : Main(m, dry)
  BY <1>1, MainInv
<1>2. CASE Skip
  BY <1>2, SkipInv
<1>3. CASE Abort
  BY <1>3, AbortInv
<1>4. CASE DeleteTarget
  BY <1>4, DeleteTargetInv
<1>5. CASE Truncate
  BY <1>5, TruncateInv
<1>6. CASE Write
  BY <1>6, WriteInv
<1>7. CASE Done
  BY <1>7, DoneInv
<1>8. CASE Stop
  BY <1>8, StopInv
<1>9. CASE \/ \E m \in Mode : PatchManually(m)
           \/ \E f \in Rewords : EditOwn(f)
           \/ CopyAdvancedEnv
           \/ \E f \in Restores : Checkout(f)
  BY <1>9, OperatorInv
<1>10. CASE UNCHANGED vars
  <2>1. /\ UNCHANGED <<tree, pc, mode, dryRun, at, next, foretold, damage>>
        /\ \A f \in File : Now(f)' = Now(f)
    BY <1>10 DEF vars, run, damage, Now, TheStep
  <2>2. Kept'
    BY <2>1, KeptStays DEF Inv
  <2> QED
    BY <2>1, <2>2 DEF damage, Inv, RunOK, ShapesFit, WriteFits, Progress, Forecast,
                      ForetoldByDryRun, Steps, S, TheStep, Now, Ahead
<1> QED
  BY <1>1, <1>2, <1>3, <1>4, <1>5, <1>6, <1>7, <1>8, <1>9, <1>10 DEF Next

LEMMA Invariance == Spec => []Inv
  BY InitInv, NextInv, PTL DEF Spec

-----------------------------------------------------------------------------
(***************************************************************************)
(* The theorems.                                                           *)
(***************************************************************************)

\* Every file holds a text that the plans know how to treat, whatever the script and
\* the operator have made of it, and a run is at a step of its plan, or past the last.
THEOREM TypeCorrect == Spec => []TypeOK
<1>1. Inv => TypeOK
  BY DEF Inv, RunOK, ShapesFit, TypeOK
<1> QED
  BY <1>1, Invariance, PTL

\* bootstrap.ts:14-20: a run that says it is done has pruned the tree to its mode, and
\* has kept what is of its mode in each file that neither a run of the other mode nor a
\* torn write has spoilt, however many runs of either mode were stopped halfway,
\* aborted or dry before it, and whatever files the operator has worded anew or checked
\* out again.
THEOREM DoneTellsPruned == Spec => []DoneIsPruned
<1>1. Inv => DoneIsPruned
  <2> SUFFICES ASSUME Inv, pc = "done", ~dryRun
               PROVE  Pruned(mode) /\ KeepsOwn(mode)
    BY DEF DoneIsPruned
  <2>1. \A j \in Steps : Settled(S(j), tree[S(j).file])
    BY DEF Inv, Progress, Now
  <2>2. /\ mode \in Mode /\ Other(mode) \in Mode /\ Other(mode) # mode
        /\ AgentOf(mode) \in File /\ "websocket" \in File /\ ".env.example" \in File
    BY DEF Inv, RunOK, Mode, Other, AgentOf, File
  <2>3. tree[AgentOf(Other(mode))] = Missing
    <3>1. PICK j \in Steps : Deletes(S(j), mode) /\ S(j).file = AgentOf(Other(mode))
      BY <2>2, PlanTargets DEF Steps, S
    <3> QED
      BY <2>1, <3>1 DEF Settled, Deletes
  <2>4. ASSUME NEW f \in Rewritten
        PROVE  tree[f] = IF Template[f] = Missing THEN Missing ELSE {Says("all", mode)}
    <3>1. PICK j \in Steps : Rewrites(S(j), mode) /\ S(j).file = f
      BY <2>2, PlanTargets DEF Steps, S
    <3>2. tree[f] \in {Missing, {Says("all", mode)}}
      BY <2>1, <3>1 DEF Settled, Rewrites
    <3>3. tree[f] \in RewrittenText(f)
      BY DEF Inv, ShapesFit, Shape, File
    <3>4. \A text \in RewrittenText(f) : Template[f] # Missing => text # Missing
      <4>1. \A who \in Mode \cup {"both", "own"} : {Says("all", who)} \in SUBSET Saying
        BY DEF Saying, Says
      <4> QED
        BY <4>1, ConstantsAssumption DEF RewrittenText
    <3> QED
      BY <3>2, <3>3, <3>4 DEF RewrittenText
  <2>5. ASSUME NEW what \in {"import", "tools", "prompt"}
        PROVE  LET f == IF what = "prompt" THEN AgentOf(mode) ELSE "websocket" IN
               \/ tree[f] = Missing
               \/ <<what, mode>> \in tree[f] /\ <<what, "both">> \notin tree[f]
    <3>1. PICK j \in Steps : Patches(S(j), what, mode)
      BY <2>2, PlanTargets DEF Steps, S
    <3> QED
      BY <2>1, <3>1 DEF Settled, Patches, Says
  <2>6. tree["websocket"] = {Says("import", mode), Says("tools", mode)}
    <3>1. tree["websocket"] \in WebsocketText
      BY <2>2 DEF Inv, ShapesFit, Shape
    <3>2. tree["websocket"] # Missing
      BY <3>1, WebsocketSayings
    <3>3. /\ <<"import", mode>> \in tree["websocket"]
          /\ <<"tools", mode>> \in tree["websocket"]
      BY <2>5, <3>2
    <3> QED
      BY <3>1, <3>3 DEF WebsocketText, Says
  <2>7. tree[AgentOf(mode)] \in {Missing, {Says("prompt", mode)}}
    <3>1. tree[AgentOf(mode)] \in AgentText(mode)
      BY <2>2 DEF Inv, ShapesFit, Shape
    <3>2. tree[AgentOf(mode)] = Missing \/ <<"prompt", mode>> \in tree[AgentOf(mode)]
      BY <2>5
    <3> QED
      BY <2>2, <3>1, <3>2 DEF AgentText, Says, Mode
  <2>8. Other(mode) \notin tree[".env.example"]
    <3>1. PICK j \in Steps : Strips(S(j), mode)
      BY <2>2, PlanTargets DEF Steps, S
    <3>2. tree[".env.example"] \in SUBSET Section
      BY <2>2 DEF Inv, ShapesFit, Shape
    <3>3. tree[".env.example"] # Missing
      BY <3>2, ConstantsAssumption
    <3> QED
      BY <2>1, <3>1, <3>3 DEF Settled, Strips
  <2>9. ASSUME mode = "autonomous"
        PROVE  {"dev:ui", "dev:all"} \cap tree["package.json"] = {}
    <3>1. PICK j \in Steps : RemovesScripts(S(j), mode)
      BY <2>2, <2>9, PlanTargets DEF Steps, S
    <3>2. tree["package.json"] \in SUBSET Script
      BY DEF Inv, ShapesFit, Shape, ScriptText, Script, File
    <3>3. tree["package.json"] # Missing
      BY <3>2, ConstantsAssumption
    <3> QED
      BY <2>1, <3>1, <3>3 DEF Settled, RemovesScripts
  <2>10. Pruned(mode)
    BY <2>3, <2>4, <2>6, <2>7, <2>8, <2>9 DEF Pruned
  <2>11. KeepsOwn(mode)
    BY <2>2 DEF Inv, Kept, KeepsOwn, Now
  <2> QED
    BY <2>10, <2>11
<1> QED
  BY <1>1, Invariance, PTL

\* bootstrap.ts:11: what a dry run foretells comes true.  A run that follows a dry run
\* of the same mode, on the tree the dry run saw, ends as the dry run ended.
THEOREM DryRunForetells == Spec => []ForetoldByDryRun
  BY Invariance, PTL DEF Inv

\* bootstrap.ts:20, "Idempotent ... If a target is already pruned, it is skipped": when
\* a run says it is done, each step of its plan finds its file as it would leave it and
\* without a reason to abort, so that the same run again writes nothing.
NothingLeft ==
  pc = "done" /\ ~dryRun =>
    \A j \in Steps : LET text == tree[S(j).file]
                     IN After(S(j), text) = text /\ ~Aborts(S(j), text)

THEOREM RerunWritesNothing == Spec => []NothingLeft
<1>1. Inv => NothingLeft
  <2> SUFFICES ASSUME Inv, pc = "done", ~dryRun, NEW j \in Steps
               PROVE  LET text == tree[S(j).file]
                      IN After(S(j), text) = text /\ ~Aborts(S(j), text)
    BY DEF NothingLeft
  <2>1. Settled(S(j), tree[S(j).file])
    BY DEF Inv, Progress, Now
  <2>2. PlanStep(S(j), mode) /\ mode \in Mode /\ S(j).file \in File
    BY StepTypes DEF Inv, RunOK
  <2> QED
    BY <2>1, <2>2, SettledRests
<1> QED
  BY <1>1, Invariance, PTL

=============================================================================
