------------------------------ MODULE WorkerLoop ------------------------------
(***************************************************************************)
(* The worker loop of autonomous mode (packages/server/src/worker-loop.ts) *)
(* over the agent's state file (packages/shared/src/state.ts), from boot   *)
(* to shutdown (packages/server/src/index.ts), beside the tools of chat    *)
(* turns and ticks that change the same file.                              *)
(*                                                                         *)
(* Every helper of state.ts reads the file, changes it and writes it back  *)
(* in one synchronous run, so the helpers never interleave; but a helper,  *)
(* and the end of a tick, may write several times, and the process may die *)
(* between two writes.                                                     *)
(***************************************************************************)
EXTENDS Naturals, Sequences

CONSTANTS
  Goal,         \* goals and tasks, active or open while listed in the file
  JournalMax,   \* JOURNAL_MAX_ENTRIES
  AutoPause,    \* ERROR_STREAK_AUTO_PAUSE
  MaxUnpauses,  \* bound: how often the owner unpauses
  MaxCrashes    \* bound: how often the process dies or gives up booting

ASSUME ConstantsAssumption ==
  /\ JournalMax \in Nat \ {0}
  /\ AutoPause \in Nat \ {0}
  /\ MaxUnpauses \in Nat
  /\ MaxCrashes \in Nat

VARIABLES
  disk,          \* agent-state.json: paused, errorStreak, journal (kinds), work
  pc,            \* where the process and its loop are
  running,       \* WorkerLoop.running
  state,         \* the file as the current tick read it at its start
  aborted,       \* the abort signal of the current tick
  shuttingDown,  \* index.ts: a signal has arrived
  failures,      \* history: failed ticks since the last successful one
  callsPaused,   \* history: generate calls begun since the file says paused
  work,          \* history: what the goal and task tools have left open
  torn,          \* history: the process died between a pause and its journal entry
  unpauses,      \* history
  crashes        \* history

loop    == <<pc, running, state, aborted, shuttingDown>>
history == <<failures, callsPaused, work, torn, unpauses, crashes>>
vars    == <<disk, loop, history>>

Kind == {"tick", "error", "pause", "unpause"}

File == [paused : BOOLEAN, errorStreak : Nat, journal : Seq(Kind), work : SUBSET Goal]

TypeOK ==
  /\ disk \in File
  /\ Len(disk.journal) <= JournalMax
  /\ pc \in {"booting", "gathering", "generating", "sleeping", "exited", "down"}
  /\ running \in BOOLEAN
  /\ state \in File
  /\ aborted \in BOOLEAN
  /\ shuttingDown \in BOOLEAN
  /\ failures \in Nat
  /\ callsPaused \in Nat
  /\ work \subseteq Goal
  /\ torn \in BOOLEAN
  /\ unpauses \in 0 .. MaxUnpauses
  /\ crashes \in 0 .. MaxCrashes

\* The defaults of a missing file.
Empty == [paused |-> FALSE, errorStreak |-> 0, journal |-> <<>>, work |-> {}]

Init ==
  /\ disk = Empty
  /\ pc = "booting"
  /\ running = FALSE
  /\ state = Empty
  /\ aborted = FALSE
  /\ shuttingDown = FALSE
  /\ failures = 0
  /\ callsPaused = 0
  /\ work = {}
  /\ torn = FALSE
  /\ unpauses = 0
  /\ crashes = 0

-----------------------------------------------------------------------------
(***************************************************************************)
(* The helpers of state.ts: the files they write, one after the other,     *)
(* when the file is f.                                                     *)
(***************************************************************************)

Last(f, fs) == IF fs = <<>> THEN f ELSE fs[Len(fs)]

\* First g, then h on the file that g leaves.
Then(f, g, h(_)) == g \o h(Last(f, g))

\* FAULT: the ring buffer is trimmed before the entry goes in.
AppendJournalFault(f, kind) ==
  LET j == f.journal
      n == IF Len(j) > JournalMax THEN Len(j) - JournalMax ELSE 0
  IN  <<[f EXCEPT !.journal = Append(SubSeq(j, n + 1, Len(j)), kind)]>>

AppendJournal(f, kind) ==
  LET j == Append(f.journal, kind)
      n == IF Len(j) > JournalMax THEN Len(j) - JournalMax ELSE 0
  IN  <<[f EXCEPT !.journal = SubSeq(j, n + 1, Len(j))]>>

\* FAULT: the journal entry goes in first, and the flag over the file as it was.
SetPausedFault(f, p) ==
  IF f.paused = p
    THEN <<>>
    ELSE AppendJournal(f, IF p THEN "pause" ELSE "unpause") \o <<[f EXCEPT !.paused = p]>>

SetPaused(f, p) ==
  IF f.paused = p
    THEN <<>>
    ELSE Then(f, <<[f EXCEPT !.paused = p]>>,
              LAMBDA g : AppendJournal(g, IF p THEN "pause" ELSE "unpause"))

\* FAULT: one failure too many.
IncrementErrorStreakFault(f) ==
  Then(f, <<[f EXCEPT !.errorStreak = @ + 1]>>,
       LAMBDA g : IF g.errorStreak > AutoPause THEN SetPaused(g, TRUE) ELSE <<>>)

IncrementErrorStreak(f) ==
  Then(f, <<[f EXCEPT !.errorStreak = @ + 1]>>,
       LAMBDA g : IF g.errorStreak >= AutoPause THEN SetPaused(g, TRUE) ELSE <<>>)

ResetErrorStreak(f) ==
  IF f.errorStreak = 0 THEN <<>> ELSE <<[f EXCEPT !.errorStreak = 0]>>

-----------------------------------------------------------------------------
(***************************************************************************)
(* A tick.                                                                 *)
(***************************************************************************)

\* FAULT: the result is written over the file as the tick found it.
SuccessWritesFault(f) ==
  Then(state, AppendJournal(state, "tick"), ResetErrorStreak)

\* What the end of a successful tick writes, and that of a failed one.
SuccessWrites(f) == Then(f, AppendJournal(f, "tick"), ResetErrorStreak)

FailureWrites(f) == Then(f, IncrementErrorStreak(f), LAMBDA g : AppendJournal(g, "error"))

\* The loop goes on after a tick: to sleep, or out when it was stopped.
AfterTick == IF running' THEN "sleeping" ELSE "exited"

\* FAULT: the pause is not looked at.
BeginTickPauseFault ==
  /\ state' = disk
  /\ aborted' = FALSE
  /\ pc' = IF disk.work = {} THEN AfterTick ELSE "gathering"

\* FAULT: an idle tick leaves the loop.
BeginTickIdleFault ==
  /\ state' = disk
  /\ aborted' = FALSE
  /\ pc' = IF disk.paused THEN AfterTick
           ELSE IF disk.work = {} THEN "exited"
           ELSE "gathering"

\* runTick up to its first await.
BeginTick ==
  /\ state' = disk
  /\ aborted' = FALSE
  /\ pc' = IF disk.paused \/ disk.work = {} THEN AfterTick ELSE "gathering"

\* bootstrap: the owner is known, WorkerLoop.start runs the first tick.
Start ==
  /\ pc = "booting"
  /\ running' = TRUE
  /\ BeginTick
  /\ UNCHANGED <<disk, shuttingDown, history>>

\* The sleep ends.
Wake ==
  /\ pc = "sleeping"
  /\ UNCHANGED running
  /\ BeginTick
  /\ UNCHANGED <<disk, shuttingDown, history>>

\* gatherContext is done: agent.generate is called, aborted or not.
Generate ==
  /\ pc = "gathering"
  /\ pc' = "generating"
  /\ callsPaused' = IF disk.paused THEN callsPaused + 1 ELSE 0
  /\ UNCHANGED <<disk, running, state, aborted, shuttingDown, failures, work, torn,
                 unpauses, crashes>>

\* A throw before the try block of runTick ends in the loop's own catch.
GatherThrows ==
  /\ pc = "gathering"
  /\ pc' = IF running THEN "sleeping" ELSE "exited"
  /\ UNCHANGED <<disk, running, state, aborted, shuttingDown, history>>

EndTick ==
  /\ pc = "generating"
  /\ pc' = IF running THEN "sleeping" ELSE "exited"
  /\ UNCHANGED <<running, state, aborted, shuttingDown, work, torn, unpauses, crashes>>

TickSucceeds ==
  /\ EndTick
  /\ disk' = Last(disk, SuccessWrites(disk))
  /\ failures' = 0
  /\ UNCHANGED callsPaused

\* Also when the tick was aborted by stop().
TickFails ==
  /\ EndTick
  /\ disk' = Last(disk, FailureWrites(disk))
  /\ failures' = failures + 1
  /\ callsPaused' = IF disk.paused THEN callsPaused ELSE 0

-----------------------------------------------------------------------------
(***************************************************************************)
(* Tools, of a chat turn or of the tick's own agent run.                   *)
(***************************************************************************)

Up == pc # "down"

Pause ==
  /\ Up
  /\ ~disk.paused
  /\ disk' = Last(disk, SetPaused(disk, TRUE))
  /\ callsPaused' = 0
  /\ torn' = FALSE
  /\ UNCHANGED <<loop, failures, work, unpauses, crashes>>

Unpause ==
  /\ Up
  /\ disk.paused
  /\ unpauses < MaxUnpauses
  /\ disk' = Last(disk, SetPaused(disk, FALSE))
  /\ unpauses' = unpauses + 1
  /\ torn' = FALSE
  /\ UNCHANGED <<loop, failures, callsPaused, work, crashes>>

\* addGoal and addTask; closeGoal and closeTask.
OpenWork(g) ==
  /\ Up
  /\ disk' = [disk EXCEPT !.work = @ \cup {g}]
  /\ work' = work \cup {g}
  /\ UNCHANGED <<loop, failures, callsPaused, torn, unpauses, crashes>>

CloseWork(g) ==
  /\ Up
  /\ disk' = [disk EXCEPT !.work = @ \ {g}]
  /\ work' = work \ {g}
  /\ UNCHANGED <<loop, failures, callsPaused, torn, unpauses, crashes>>

-----------------------------------------------------------------------------
(***************************************************************************)
(* Boot, shutdown and crashes.                                             *)
(***************************************************************************)

\* FAULT: the sleep is aborted, the tick is not.
ShutdownFault ==
  /\ Up
  /\ ~shuttingDown
  /\ shuttingDown' = TRUE
  /\ running' = FALSE
  /\ pc' = IF pc = "sleeping" THEN "exited" ELSE pc
  /\ UNCHANGED <<disk, state, aborted, history>>

\* A signal: shutdown stops the loop if bootstrap has made one.  A sleeping loop
\* leaves at once, a tick is told to abort.
Shutdown ==
  /\ Up
  /\ ~shuttingDown
  /\ shuttingDown' = TRUE
  /\ running' = FALSE
  /\ pc' = IF pc = "sleeping" THEN "exited" ELSE pc
  /\ aborted' = (pc \in {"gathering", "generating"})
  /\ UNCHANGED <<disk, state, history>>

ProcessEnds ==
  /\ pc' = "down"
  /\ running' = FALSE
  /\ aborted' = FALSE
  /\ shuttingDown' = FALSE
  /\ UNCHANGED state

\* shutdown has awaited the loop it stopped, and server.stop.
Exit ==
  /\ shuttingDown
  /\ pc \in {"exited", "booting"} \/ running
  /\ ProcessEnds
  /\ UNCHANGED <<disk, history>>

\* The owner cannot be resolved, or the process is killed.
Crash ==
  /\ Up
  /\ crashes < MaxCrashes
  /\ crashes' = crashes + 1
  /\ ProcessEnds
  /\ UNCHANGED <<disk, failures, callsPaused, work, torn, unpauses>>

\* Killed after some of the writes fs.  A failed tick counts once its streak is
\* written.
CrashAmid(fs) ==
  /\ Up
  /\ crashes < MaxCrashes
  /\ \E k \in 1 .. Len(fs) - 1 :
       /\ disk' = fs[k]
       /\ torn' = IF fs[k].paused = disk.paused THEN torn
                  ELSE fs[k].journal = disk.journal
       /\ callsPaused' = IF disk.paused THEN callsPaused ELSE 0
  /\ crashes' = crashes + 1
  /\ ProcessEnds
  /\ UNCHANGED work

CrashInTick ==
  /\ pc = "generating"
  /\ \/ /\ CrashAmid(SuccessWrites(disk))
        /\ UNCHANGED <<failures, unpauses>>
     \/ /\ CrashAmid(FailureWrites(disk))
        /\ failures' = failures + 1
        /\ UNCHANGED unpauses

CrashInTool ==
  \/ /\ ~disk.paused
     /\ CrashAmid(SetPaused(disk, TRUE))
     /\ UNCHANGED <<failures, unpauses>>
  \/ /\ disk.paused
     /\ unpauses < MaxUnpauses
     /\ CrashAmid(SetPaused(disk, FALSE))
     /\ unpauses' = unpauses + 1
     /\ UNCHANGED failures

\* The supervisor starts the process again.
Reboot ==
  /\ pc = "down"
  /\ pc' = "booting"
  /\ UNCHANGED <<disk, running, state, aborted, shuttingDown, history>>

-----------------------------------------------------------------------------

Next ==
  \/ Start
  \/ Wake
  \/ Generate
  \/ GatherThrows
  \/ TickSucceeds
  \/ TickFails
  \/ Pause
  \/ Unpause
  \/ \E g \in Goal : OpenWork(g) \/ CloseWork(g)
  \/ Shutdown
  \/ Exit
  \/ Crash
  \/ CrashInTick
  \/ CrashInTool
  \/ Reboot

\* Sleeps end, RPC calls return and do not fail a tick for ever, an aborted
\* generate settles, and shutdown goes on.  A generate that nobody aborts may
\* take for ever: a tick has no time budget.
Fairness ==
  /\ WF_vars(Start)
  /\ WF_vars(Wake)
  /\ WF_vars(Generate \/ GatherThrows)
  /\ SF_vars(Generate)
  /\ WF_vars(aborted /\ (TickSucceeds \/ TickFails))
  /\ WF_vars(Exit)

Spec == Init /\ [][Next]_vars
FairSpec == Spec /\ Fairness

-----------------------------------------------------------------------------
(***************************************************************************)
(* Properties.                                                             *)
(***************************************************************************)

\* The auto-pause works across restarts: beyond the threshold, every further
\* failure in a row costs the owner an unpause or the host a crash.
FailuresBounded == failures <= AutoPause + unpauses + crashes

\* Once the file says paused, at most the tick that had already looked at it still
\* calls the model, whatever restarts come between.
PauseHolds == disk.paused => callsPaused <= 1

\* The journal tells the truth about the last pause or unpause it holds, unless
\* the process died between the change and its entry.
PauseJournalled ==
  LET j == disk.journal
      Mark(i) == j[i] \in {"pause", "unpause"}
  IN  \A i \in 1 .. Len(j) :
        Mark(i) /\ ~torn /\ (\A k \in i + 1 .. Len(j) : ~Mark(k)) =>
          (disk.paused <=> j[i] = "pause")

\* Goals and tasks are in the file as the tools left them: nothing a tick writes
\* after its awaits undoes them.
NoLostUpdate == disk.work = work

\* Open work of a running, unpaused agent reaches the model.
WorkReached ==
  (pc # "down" /\ ~disk.paused /\ disk.work # {} /\ ~shuttingDown) ~>
    (pc \in {"generating", "down"} \/ disk.paused \/ disk.work = {} \/ shuttingDown)

\* A signal ends the process, also in the middle of a call of the model.
ShutdownEnds == shuttingDown ~> pc = "down"

=============================================================================
