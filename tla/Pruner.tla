------------------------------- MODULE Pruner -------------------------------
(***************************************************************************)
(* scripts/bootstrap.ts, the script that prunes a fork of the template to  *)
(* one AGENT_MODE.  A run works through a plan, one step after the other,  *)
(* and each step looks at its file and skips it, rewrites it, or aborts    *)
(* the run.  Nothing ties the steps together: the script may be stopped    *)
(* between two of them or in the middle of a write, and it promises that   *)
(* running it again is safe (bootstrap.ts:20).                             *)
(*                                                                         *)
(* A file is the set of the passages the script looks for in it.  The      *)
(* operator edits files only while no run is in progress.                  *)
(***************************************************************************)
EXTENDS Sequences, Functions

CONSTANTS
  Missing,     \* in the place of the text of a file that does not exist
  Rewords,     \* files the operator may change to words of their own
  Restores     \* files the operator may check out again

Mode == {"public", "autonomous"}
Other(m) == IF m = "public" THEN "autonomous" ELSE "public"
AgentOf(m) == IF m = "public" THEN "agent-public" ELSE "agent-autonomous"

Rewritten == {"tools/index", "create-agent", "core/index", "prompts"}

File == Rewritten \cup
  {"tools/public", "agent-public", "agent-autonomous", "websocket", ".env.example", "package.json"}

\* What a file says of the modes: "both" as in the template, or one of them; "own"
\* words of the operator.
Says(what, mode) == <<what, mode>>

Saying  == {"all", "import", "tools", "prompt"} \X (Mode \cup {"both", "own"})
Section == {"head", "public", "autonomous"}
Script  == {"dev", "dev:ui"}

\* What the operator words anew is a file that the plans rewrite or patch; a missing
\* file has no text, not even an empty one.
ASSUME ConstantsAssumption ==
  /\ Rewords \subseteq Rewritten \cup {"agent-public", "agent-autonomous", "websocket"}
  /\ Restores \subseteq File
  /\ \A text \in SUBSET Saying : text # Missing
  /\ \A text \in SUBSET Section : text # Missing
  /\ \A text \in SUBSET Script : text # Missing

VARIABLES
  tree,      \* the text of every file
  pc,        \* "idle", "step", "write", and "done" or "err" when a run has ended
  mode,      \* plan.mode
  dryRun,
  at,        \* the step of the plan
  next,      \* the text being written
  foretold,  \* history: how a dry run on this tree has ended, for this mode
  given,     \* history: the sections of .env.example as the operator last gave them
  spoilt     \* history: <<m, f>> when a run of the other mode, or one stopped in the
             \* middle of writing it, has changed f since the operator gave it

run    == <<pc, mode, dryRun, at, next>>
damage == <<given, spoilt>>
vars   == <<tree, run, foretold, damage>>

\* The tree of this commit: the tools have moved to a package of their own, the
\* call of buildSystemPrompt is worded in another way than the plans expect, and
\* the sections of .env.example are in a file the plans do not name.
Template == [f \in File |->
  CASE f \in {"tools/public", "tools/index"} -> Missing
    [] f \in Rewritten \ {"tools/index"} -> {Says("all", "both")}
    [] f \in {"agent-public", "agent-autonomous"} -> {Says("prompt", "own")}
    [] f = "websocket" -> {Says("import", "both"), Says("tools", "both")}
    [] f = ".env.example" -> {"head"}
    [] f = "package.json" -> {"dev", "dev:ui"}]

\* The sections of .env.advanced.example, in their order.
Sections == <<"head", "public", "autonomous">>

-----------------------------------------------------------------------------
(***************************************************************************)
(* The plans.                                                              *)
(***************************************************************************)

Delete(file) == [op |-> "delete", file |-> file]
Rewrite(file, m) == [op |-> "rewrite", file |-> file, text |-> {Says("all", m)}]
Patch(file, what, m) ==
  [op |-> "patch", file |-> file, find |-> Says(what, "both"), replace |-> Says(what, m)]

MakeAutonomousPlan ==
  << Delete("tools/public"), Delete("agent-public"),
     Rewrite("tools/index", "autonomous"), Rewrite("create-agent", "autonomous"),
     Rewrite("core/index", "autonomous"), Rewrite("prompts", "autonomous"),
     Patch("websocket", "import", "autonomous"), Patch("websocket", "tools", "autonomous"),
     Patch("agent-autonomous", "prompt", "autonomous"),
     [op |-> "strip", file |-> ".env.example", marker |-> "public"],
     [op |-> "scripts", file |-> "package.json", remove |-> {"dev:ui", "dev:all"}] >>

MakePublicPlan ==
  << Delete("agent-autonomous"),
     Rewrite("create-agent", "public"), Rewrite("core/index", "public"),
     Rewrite("tools/index", "public"), Rewrite("prompts", "public"),
     Patch("websocket", "import", "public"), Patch("websocket", "tools", "public"),
     Patch("agent-public", "prompt", "public"),
     [op |-> "strip", file |-> ".env.example", marker |-> "autonomous"] >>

Plan(m) == IF m = "public" THEN MakePublicPlan ELSE MakeAutonomousPlan

-----------------------------------------------------------------------------
(***************************************************************************)
(* What a step makes of the text of its file.                              *)
(***************************************************************************)

\* stripEnvExample keeps what is above the section, and nothing of what follows.
Above(marker, text) ==
  IF marker \in text
    THEN {s \in text : \E i, j \in DOMAIN Sections :
                         i < j /\ Sections[i] = s /\ Sections[j] = marker}
    ELSE text

Patched(s, text) ==
  IF s.find \in text THEN (text \ {s.find}) \cup {s.replace} ELSE text

\* FAULT: a file that is not the template's counts as pruned.
AfterByTemplate(s, text) ==
  IF s.op = "delete" \/ text = Missing
    THEN Missing
    ELSE CASE s.op = "rewrite" -> IF text = Template[s.file] THEN s.text ELSE text
           [] s.op = "patch" -> Patched(s, text)
           [] s.op = "strip" -> Above(s.marker, text)
           [] s.op = "scripts" -> text \ s.remove

After(s, text) ==
  IF s.op = "delete" \/ text = Missing
    THEN Missing
    ELSE CASE s.op = "rewrite" -> s.text
           [] s.op = "patch" -> Patched(s, text)
           [] s.op = "strip" -> Above(s.marker, text)
           [] s.op = "scripts" -> text \ s.remove

\* FAULT: a dry run does not look for the anchors.
AbortsWhenReal(s, text) ==
  /\ ~dryRun
  /\ s.op = "patch" /\ text # Missing
  /\ {s.find, s.replace} \cap text = {}

\* An anchor that is neither there nor replaced; a package.json that does not
\* parse, as an empty one does not.
Aborts(s, text) ==
  \/ s.op = "patch" /\ text # Missing /\ {s.find, s.replace} \cap text = {}
  \/ s.op = "scripts" /\ text = {}

-----------------------------------------------------------------------------
(***************************************************************************)
(* A run.                                                                  *)
(***************************************************************************)

Unknown == "unknown"

\* The texts that the files can have.
WebsocketText ==
  {{}, {Says("all", "own")}} \cup
    {{Says("import", i), Says("tools", t)} : i \in Mode \cup {"both"}, t \in Mode \cup {"both"}}

AgentText(m) == {Missing, {Says("prompt", "own")}, {Says("all", "own")}, {Says("prompt", m)}}

ScriptText == {{}, {"dev"}, {"dev", "dev:ui"}}

RewrittenText(f) ==
  IF Template[f] = Missing THEN {Missing}
    ELSE {{}} \cup {{Says("all", who)} : who \in Mode \cup {"both", "own"}}

Shape(f, text) ==
  /\ f \in Rewritten => text \in RewrittenText(f)
  /\ f = "tools/public" => text = Missing
  /\ f = "websocket" => text \in WebsocketText
  /\ \A m \in Mode : f = AgentOf(m) => text \in AgentText(m)
  /\ f = ".env.example" => text \in SUBSET Section
  /\ f = "package.json" => text \in ScriptText

TypeOK ==
  /\ DOMAIN tree = File
  /\ \A f \in File : Shape(f, tree[f])
  /\ pc \in {"idle", "step", "write", "done", "err"}
  /\ mode \in Mode
  /\ dryRun \in BOOLEAN
  /\ at \in 1..(Len(Plan(mode)) + 1)
  /\ foretold \in {Unknown, "done", "err"}
  /\ given \in SUBSET Section
  /\ spoilt \subseteq Mode \X File

Init ==
  /\ tree = Template
  /\ pc = "idle"
  /\ mode = "public"
  /\ dryRun = FALSE
  /\ at = 1
  /\ next = Missing
  /\ foretold = Unknown
  /\ given = Template[".env.example"]
  /\ spoilt = {}

\* No run is in progress, nor remembered.
NoRun ==
  /\ pc' = "idle"
  /\ mode' = "public"
  /\ dryRun' = FALSE
  /\ at' = 1
  /\ next' = Missing
  /\ foretold' = Unknown

\* main: the mode and the flags; a prompt the operator declines changes nothing.
Main(m, dry) ==
  /\ pc \in {"idle", "done", "err"}
  /\ pc' = "step"
  /\ mode' = m
  /\ dryRun' = dry
  /\ at' = 1
  /\ foretold' = IF dry \/ m # mode \/ ~dryRun THEN Unknown ELSE foretold
  /\ UNCHANGED <<tree, next, damage>>

TheStep == Plan(mode)[at]
Text == tree[TheStep.file]
InPlan == pc = "step" /\ at <= Len(Plan(mode))

Ends(how) ==
  /\ pc' = how
  /\ at' = 1
  /\ foretold' = IF dryRun THEN how ELSE foretold

\* The text of a file is no longer what the operator gave to the runs of these modes.
Spoils(file, modes) ==
  /\ spoilt' = spoilt \cup (modes \X {file})
  /\ UNCHANGED given

Skip ==
  /\ InPlan
  /\ ~Aborts(TheStep, Text)
  /\ dryRun \/ After(TheStep, Text) = Text
  /\ at' = at + 1
  /\ UNCHANGED <<tree, pc, mode, dryRun, next, foretold, damage>>

Abort ==
  /\ InPlan
  /\ Aborts(TheStep, Text)
  /\ Ends("err")
  /\ UNCHANGED <<tree, mode, dryRun, next, damage>>

DeleteTarget ==
  /\ InPlan
  /\ TheStep.op = "delete" /\ Text # Missing /\ ~dryRun
  /\ tree' = [tree EXCEPT ![TheStep.file] = Missing]
  /\ at' = at + 1
  /\ Spoils(TheStep.file, {Other(mode)})
  /\ UNCHANGED <<pc, mode, dryRun, next, foretold>>

\* fs.writeFile empties the file first.
Truncate ==
  /\ InPlan
  /\ TheStep.op # "delete" /\ ~dryRun
  /\ ~Aborts(TheStep, Text)
  /\ After(TheStep, Text) # Text
  /\ pc' = "write"
  /\ next' = After(TheStep, Text)
  /\ tree' = [tree EXCEPT ![TheStep.file] = {}]
  /\ Spoils(TheStep.file, {Other(mode)})
  /\ UNCHANGED <<mode, dryRun, at, foretold>>

Write ==
  /\ pc = "write"
  /\ tree' = [tree EXCEPT ![TheStep.file] = next]
  /\ pc' = "step"
  /\ at' = at + 1
  /\ next' = Missing
  /\ UNCHANGED <<mode, dryRun, foretold, damage>>

Done ==
  /\ pc = "step"
  /\ at > Len(Plan(mode))
  /\ Ends("done")
  /\ UNCHANGED <<tree, mode, dryRun, next, damage>>

\* The script is stopped, or a write fails: what is written stays written.
Stop ==
  /\ pc \in {"step", "write"}
  /\ NoRun
  /\ IF pc = "write" THEN Spoils(TheStep.file, Mode) ELSE UNCHANGED damage
  /\ UNCHANGED tree

-----------------------------------------------------------------------------
(***************************************************************************)
(* The operator, between runs.                                             *)
(***************************************************************************)

Edits(f, text) ==
  /\ pc \in {"idle", "done", "err"}
  /\ tree[f] # text
  /\ tree' = [tree EXCEPT ![f] = text]
  /\ given' = IF f = ".env.example" THEN text ELSE given
  /\ spoilt' = spoilt \ (Mode \X {f})
  /\ NoRun

\* "patch it manually" (bootstrap.ts:353), for one mode.
PatchManually(m) ==
  /\ tree[AgentOf(m)] # Missing
  /\ Edits(AgentOf(m), {Says("prompt", m)})

\* A file the plans rewrite or patch, in the operator's own words.
EditOwn(f) ==
  /\ tree[f] # Missing
  /\ Edits(f, {Says("all", "own")})

CopyAdvancedEnv == Edits(".env.example", Range(Sections))

\* git checkout of one file.
Checkout(f) == Edits(f, Template[f])

Next ==
  \/ \E m \in Mode, dry \in BOOLEAN : Main(m, dry)
  \/ Skip \/ Abort \/ DeleteTarget \/ Truncate \/ Write \/ Done \/ Stop
  \/ \E m \in Mode : PatchManually(m)
  \/ \E f \in Rewords : EditOwn(f)
  \/ CopyAdvancedEnv
  \/ \E f \in Restores : Checkout(f)

Spec == Init /\ [][Next]_vars

-----------------------------------------------------------------------------
(***************************************************************************)
(* Properties.                                                             *)
(***************************************************************************)

\* bootstrap.ts:14-17: nothing of the other mode is left.
Pruned(m) ==
  /\ tree[AgentOf(Other(m))] = Missing
  /\ \A f \in Rewritten : tree[f] = IF Template[f] = Missing THEN Missing ELSE {Says("all", m)}
  /\ tree["websocket"] = {Says("import", m), Says("tools", m)}
  /\ tree[AgentOf(m)] \in {Missing, {Says("prompt", m)}}
  /\ Other(m) \notin tree[".env.example"]
  /\ m = "autonomous" => {"dev:ui", "dev:all"} \cap tree["package.json"] = {}

\* The same lines: what is not of the other mode stays.  The section of the autonomous
\* mode is left out: it comes last, and stripEnvExample cuts it off with the public one.
Keeps(m, f, text) ==
  /\ f = AgentOf(m) => text # Missing
  /\ f = ".env.example" => given \ {Other(m), "autonomous"} \subseteq text
  /\ f = "package.json" =>
       Template[f] \ (IF m = "autonomous" THEN {"dev:ui", "dev:all"} ELSE {}) \subseteq text

KeepsOwn(m) == \A f \in File : <<m, f>> \notin spoilt => Keeps(m, f, tree[f])

\* bootstrap.ts:14-20: a run that says it is done has pruned the tree to its mode, and
\* has kept what is of its mode, whatever earlier runs, of either mode, were stopped
\* halfway or aborted, and whatever the operator has edited between them.  (It does
\* not ask that a file in the operator's own words survives: applyRewrites replaces it,
\* where lines 21-23 promise to abort.)
DoneIsPruned == pc = "done" /\ ~dryRun => Pruned(mode) /\ KeepsOwn(mode)

\* bootstrap.ts:11: a dry run goes through the plan without the effects of the steps
\* before, and yet tells whether the run that follows on the same tree will abort.
ForetoldByDryRun ==
  pc \in {"done", "err"} /\ ~dryRun /\ foretold # Unknown => pc = foretold
=============================================================================
