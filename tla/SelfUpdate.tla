----------------------------- MODULE SelfUpdate -----------------------------
(***************************************************************************)
(* Self-update of the agent and its supervision (agent/internal/updater,   *)
(* the update loop of agent/cmd/agent/main.go, agent/cmd/watchdog/main.go).*)
(* The agent downloads a release, leaves it beside a marker file and       *)
(* exits; the watchdog finds the marker before it starts the agent again,  *)
(* swaps the binaries with two renames, and puts the old one back when the *)
(* new one does not survive its first minute.                              *)
(*                                                                         *)
(* Files are told apart by the release they hold.  The system calls of the *)
(* watchdog are steps of their own: it, or the host, may stop between any  *)
(* two of them, and each may fail.  The run time of an agent is abstracted *)
(* to the thresholds that the code compares it with: "early" is below 30   *)
(* seconds (stableThreshold, and the first update check), "young" below 60 *)
(* (updateStableThreshold), "stable" above.  The agent dies with the       *)
(* watchdog (the service manager ends both, or the host goes down).        *)
(***************************************************************************)
EXTENDS Integers

CONSTANTS
  MaxRelease,  \* releases are numbered 0 (installed first) to MaxRelease
  Broken,      \* the releases that do not survive their first minute
  MaxKills,    \* bound on agents that die though their release is sound, for TLC
  MaxDeaths,   \* bound on stops of the watchdog, for TLC
  MaxFaults    \* bound on failing renames and removals, for TLC

ASSUME UpdateAssumption ==
  /\ MaxRelease \in Nat /\ Broken \subseteq 1..MaxRelease
  /\ MaxKills \in Nat /\ MaxDeaths \in Nat /\ MaxFaults \in Nat

VARIABLES
  sameDir,       \* the configuration file lies in the directory of the agent binary, so
                 \* that updater and watchdog mean the same file by the marker; the
                 \* packages put the two in different directories
  latest,        \* external: the release that the server advertises
  bin, bak, new, \* the agent binary, its backup, and edr-agent.new
  marker,        \* .update-pending: "none", "whole", or "torn" (cut short)
  wpc,           \* where runSupervisor is
  updated,       \* updated and wasUpdateRun
  crashes,       \* `crashes', of which the code asks only whether it is 0 (-max-crashes
                 \* is unlimited unless somebody sets it)
  rolledBack,    \* rolledBack
  agent,         \* the agent process: the release it runs and where it is
  hash,          \* agent.sha256: the release that integrity.Check expects
  findings,      \* the tamper findings that were recorded, by kind
  kills, deaths, faults,
  proven,        \* history: releases that ran for a minute
  cut            \* history: the watchdog stopped, or a call failed, where that leaves
                 \* the agent without its binary or the watchdog without its memory

files == <<bin, bak, new>>
bounds == <<kills, deaths, faults>>
vars == <<sameDir, latest, files, marker, wpc, updated, crashes, rolledBack, agent, hash, findings,
          bounds, proven, cut>>

None == -1
Releases == 0..MaxRelease
File == Releases \cup {None}
WPCs == {"check", "backup", "swap", "restore", "clear", "launch", "run",
         "remove", "rename", "record", "down"}
Ages == {"early", "young", "stable"}

\* An agent: `do' is where checkAndApplyUpdate of the agent is.
Agents == [release : Releases, age : Ages, do : {"work", "stage", "mark", "gone"}]
NoAgent == [release |-> 0, age |-> "early", do |-> "gone"]

\* Installed by hand in one directory, or by a package in two.
Init ==
  /\ sameDir \in BOOLEAN
  /\ latest = 0
  /\ bin = 0 /\ bak = None /\ new = None /\ marker = "none"
  /\ wpc = "check" /\ updated = FALSE /\ crashes = 0 /\ rolledBack = FALSE
  /\ agent = NoAgent /\ hash = None /\ findings = {}
  /\ kills = 0 /\ deaths = 0 /\ faults = 0 /\ proven = {0} /\ cut = FALSE

\* A call fails.
Fault == faults < MaxFaults /\ faults' = faults + 1 /\ UNCHANGED <<kills, deaths>>

-----------------------------------------------------------------------------
(* The agent. *)

\* Start-up: integrity.Check stores the hash of the first binary that ever ran,
\* and reports every other one from then on (integrity.Update has no caller).
IntegrityCheck(r) ==
  /\ hash' = IF hash = None THEN r ELSE hash
  /\ findings' = IF hash \in {None, r} THEN findings ELSE findings \cup {"binary_modified"}

\* The agent has run for half a minute, or for a minute.
Ages30 ==
  /\ agent.do # "gone" /\ agent.age = "early"
  /\ agent' = [agent EXCEPT !.age = "young"]
  /\ UNCHANGED <<sameDir, latest, files, marker, wpc, updated, crashes, rolledBack, hash, findings,
                 bounds, proven, cut>>

Ages60 ==
  /\ agent.do # "gone" /\ agent.age = "young" /\ agent.release \notin Broken
  /\ agent' = [agent EXCEPT !.age = "stable"]
  /\ proven' = proven \cup {agent.release}
  /\ UNCHANGED <<sameDir, latest, files, marker, wpc, updated, crashes, rolledBack, hash, findings,
                 bounds, cut>>

\* Defect: the update check runs after start-up only, not every hour.
CheckForUpdateOnce ==
  /\ agent.do = "work" /\ agent.age = "young" /\ latest # agent.release
  /\ agent' = [agent EXCEPT !.do = "stage"]
  /\ UNCHANGED <<sameDir, latest, files, marker, wpc, updated, crashes, rolledBack, hash, findings,
                 bounds, proven, cut>>

\* upd.Check finds another release; Apply downloads and verifies it.
CheckForUpdate ==
  /\ agent.do = "work" /\ agent.age # "early" /\ latest # agent.release
  /\ agent' = [agent EXCEPT !.do = "stage"]
  /\ UNCHANGED <<sameDir, latest, files, marker, wpc, updated, crashes, rolledBack, hash, findings,
                 bounds, proven, cut>>

\* Apply renames the download to edr-agent.new.
Stage ==
  /\ agent.do = "stage"
  /\ new' = latest
  /\ agent' = [agent EXCEPT !.do = "mark"]
  /\ UNCHANGED <<sameDir, latest, bin, bak, marker, wpc, updated, crashes, rolledBack, hash,
                 findings, bounds, proven, cut>>

\* Apply writes the marker and the agent exits with code 0.
MarkAndExit ==
  /\ agent.do = "mark"
  /\ marker' = IF sameDir THEN "whole" ELSE marker
  /\ agent' = [agent EXCEPT !.do = "gone"]
  /\ UNCHANGED <<sameDir, latest, files, wpc, updated, crashes, rolledBack, hash, findings, bounds,
                 proven, cut>>

\* Apply fails in its last steps, and may have begun to write the marker: the agent
\* goes on.
ApplyFails ==
  /\ agent.do \in {"stage", "mark"} /\ Fault
  /\ marker' \in IF agent.do = "mark" /\ sameDir THEN {marker, "torn"} ELSE {marker}
  /\ agent' = [agent EXCEPT !.do = "work"]
  /\ UNCHANGED <<sameDir, latest, files, wpc, updated, crashes, rolledBack, hash, findings,
                 proven, cut>>

\* A broken release ends within its first minute.
BrokenDies ==
  /\ agent.do # "gone" /\ agent.release \in Broken
  /\ agent' = [agent EXCEPT !.do = "gone"]
  /\ UNCHANGED <<sameDir, latest, files, marker, wpc, updated, crashes, rolledBack, hash, findings,
                 bounds, proven, cut>>

\* A sound agent is killed, or crashes, at any moment; the marker may be cut short.
Killed ==
  /\ agent.do # "gone" /\ agent.release \notin Broken
  /\ kills < MaxKills /\ kills' = kills + 1
  /\ marker' \in IF agent.do = "mark" /\ sameDir THEN {marker, "torn"} ELSE {marker}
  /\ agent' = [agent EXCEPT !.do = "gone"]
  /\ UNCHANGED <<sameDir, latest, files, wpc, updated, crashes, rolledBack, hash, findings, deaths,
                 faults, proven, cut>>

-----------------------------------------------------------------------------
(* checkAndApplyUpdate of the watchdog. *)

\* The marker is read and parsed, and the new binary is there; otherwise the
\* watchdog goes on with the binary it has.
CheckMarker ==
  /\ wpc = "check"
  /\ wpc' = IF marker = "whole" /\ new # None THEN "backup" ELSE "launch"
  /\ updated' = FALSE /\ rolledBack' = FALSE
  /\ UNCHANGED <<sameDir, latest, files, marker, crashes, agent, hash, findings, bounds,
                 proven, cut>>

\* os.Rename(agentBin, bakBin), which replaces an earlier backup.
Backup ==
  /\ wpc = "backup"
  /\ IF bin = None
       THEN wpc' = "launch" /\ UNCHANGED <<bin, bak>>
       ELSE wpc' = "swap" /\ bak' = bin /\ bin' = None
  /\ UNCHANGED <<sameDir, latest, new, marker, updated, crashes, rolledBack, agent, hash, findings,
                 bounds, proven, cut>>

BackupFails ==
  /\ wpc = "backup" /\ Fault
  /\ wpc' = "launch"
  /\ UNCHANGED <<sameDir, latest, files, marker, updated, crashes, rolledBack, agent, hash,
                 findings, proven, cut>>

\* os.Rename(newBin, agentBin).
Swap ==
  /\ wpc = "swap"
  /\ bin' = new /\ new' = None
  /\ wpc' = "clear"
  /\ UNCHANGED <<sameDir, latest, bak, marker, updated, crashes, rolledBack, agent, hash, findings,
                 bounds, proven, cut>>

SwapFails ==
  /\ wpc = "swap" /\ Fault
  /\ wpc' = "restore"
  /\ UNCHANGED <<sameDir, latest, files, marker, updated, crashes, rolledBack, agent, hash,
                 findings, proven, cut>>

\* Defect: a failed swap does not put the backup back.
RestoreForgotten ==
  /\ wpc = "restore"
  /\ wpc' = "launch"
  /\ UNCHANGED <<sameDir, latest, files, marker, updated, crashes, rolledBack, agent, hash,
                 findings, bounds, proven, cut>>

\* The backup goes back into place.
Restore ==
  /\ wpc = "restore"
  /\ bin' = bak /\ bak' = None
  /\ wpc' = "launch"
  /\ UNCHANGED <<sameDir, latest, new, marker, updated, crashes, rolledBack, agent, hash, findings,
                 bounds, proven, cut>>

RestoreFails ==
  /\ wpc = "restore" /\ Fault
  /\ wpc' = "launch" /\ cut' = TRUE
  /\ UNCHANGED <<sameDir, latest, files, marker, updated, crashes, rolledBack, agent, hash,
                 findings, proven>>

\* The marker is removed, or stays (only a warning); the caller sets wasUpdateRun.
ClearMarker ==
  /\ wpc = "clear"
  /\ \/ marker' = "none" /\ UNCHANGED bounds
     \/ Fault /\ UNCHANGED marker
  /\ updated' = TRUE
  /\ wpc' = "launch"
  /\ UNCHANGED <<sameDir, latest, files, crashes, rolledBack, agent, hash, findings, proven, cut>>

-----------------------------------------------------------------------------
(* runSupervisor. *)

\* runAgent starts the binary, or fails at once when there is none.
Launch ==
  /\ wpc = "launch"
  /\ IF bin = None
       THEN agent' = NoAgent /\ UNCHANGED <<hash, findings>>
       ELSE /\ agent' = [release |-> bin, age |-> "early", do |-> "work"]
            /\ IntegrityCheck(bin)
  /\ wpc' = "run"
  /\ UNCHANGED <<sameDir, latest, files, marker, updated, crashes, rolledBack, bounds, proven, cut>>

\* Defect: no run is too short.
TooShortNever == FALSE

\* runDuration < updateStableThreshold.
TooShort == agent.age # "stable"

\* runAgent returns: a short run of a swapped binary leads to rollbackUpdate.
Reap ==
  /\ wpc = "run" /\ agent.do = "gone"
  /\ rolledBack' = (updated /\ TooShort)
  /\ wpc' = IF rolledBack' THEN "remove" ELSE "record"
  /\ UNCHANGED <<sameDir, latest, files, marker, updated, crashes, agent, hash, findings, bounds,
                 proven, cut>>

\* rollbackUpdate: os.Remove(agentBin), whose error is ignored.
Remove ==
  /\ wpc = "remove"
  /\ \/ bin' = None /\ UNCHANGED bounds
     \/ Fault /\ UNCHANGED bin
  /\ wpc' = "rename"
  /\ UNCHANGED <<sameDir, latest, bak, new, marker, updated, crashes, rolledBack, agent, hash,
                 findings, proven, cut>>

\* os.Rename(bakBin, agentBin).
Rename ==
  /\ wpc = "rename"
  /\ IF bak = None THEN UNCHANGED <<bin, bak>> ELSE bin' = bak /\ bak' = None
  /\ wpc' = "record"
  /\ UNCHANGED <<sameDir, latest, new, marker, updated, crashes, rolledBack, agent, hash, findings,
                 bounds, proven, cut>>

RenameFails ==
  /\ wpc = "rename" /\ Fault
  /\ wpc' = "record" /\ cut' = TRUE
  /\ UNCHANGED <<sameDir, latest, files, marker, updated, crashes, rolledBack, agent, hash,
                 findings, proven>>

\* The death is recorded as a tamper finding unless it was answered by a rollback
\* or is one of a series of early deaths; then the loop starts again.
RecordAgentDeath ==
  /\ wpc = "record"
  /\ findings' = IF ~rolledBack /\ (crashes = 0 \/ agent.age # "early")
                   THEN findings \cup {"agent_death"} ELSE findings
  /\ crashes' = 1 /\ updated' = FALSE
  /\ wpc' = "check"
  /\ UNCHANGED <<sameDir, latest, files, marker, rolledBack, agent, hash, bounds, proven, cut>>

\* The watchdog is stopped, or dies, or the host does.  What it keeps in memory is
\* gone, and that matters if the binary in place is missing or on probation.
WatchdogStops ==
  /\ wpc # "down"
  /\ deaths < MaxDeaths /\ deaths' = deaths + 1
  /\ wpc' = "down"
  /\ marker' \in IF agent.do = "mark" /\ sameDir THEN {marker, "torn"} ELSE {marker}
  /\ agent' = NoAgent /\ updated' = FALSE /\ crashes' = 0 /\ rolledBack' = FALSE
  /\ cut' = (cut \/ bin \notin proven)
  /\ UNCHANGED <<sameDir, latest, files, hash, findings, kills, faults, proven>>

WatchdogStarts ==
  /\ wpc = "down"
  /\ wpc' = "check"
  /\ UNCHANGED <<sameDir, latest, files, marker, updated, crashes, rolledBack, agent, hash,
                 findings, bounds, proven, cut>>

\* The server advertises the next release.
Release ==
  /\ latest < MaxRelease /\ latest' = latest + 1
  /\ UNCHANGED <<sameDir, files, marker, wpc, updated, crashes, rolledBack, agent, hash, findings,
                 bounds, proven, cut>>

Watchdog ==
  \/ CheckMarker \/ Backup \/ Swap \/ Restore \/ ClearMarker \/ Launch \/ Reap
  \/ Remove \/ Rename \/ RecordAgentDeath \/ WatchdogStarts

Agent == Ages30 \/ Ages60 \/ CheckForUpdate \/ Stage \/ MarkAndExit \/ BrokenDies

Mishap ==
  \/ Killed \/ WatchdogStops
  \/ ApplyFails \/ BackupFails \/ SwapFails \/ RestoreFails \/ RenameFails

Next == Watchdog \/ Agent \/ Mishap \/ Release

\* The watchdog and the agent run, the agent's clocks tick (the half minute, the
\* minute, the hourly update check) and a broken release breaks.  Nothing makes
\* the server advertise a release, or a call fail.
Fairness == WF_vars(Watchdog) /\ WF_vars(Agent)

Spec == Init /\ [][Next]_vars /\ Fairness

-----------------------------------------------------------------------------
\* Type invariant.
TypeOK ==
  /\ sameDir \in BOOLEAN /\ latest \in Releases /\ {bin, bak, new} \subseteq File
  /\ marker \in {"none", "whole", "torn"}
  /\ wpc \in WPCs /\ updated \in BOOLEAN /\ crashes \in {0, 1} /\ rolledBack \in BOOLEAN
  /\ agent \in Agents
  /\ hash \in File /\ findings \subseteq {"binary_modified", "agent_death"}
  /\ kills \in 0..MaxKills /\ deaths \in 0..MaxDeaths /\ faults \in 0..MaxFaults
  /\ proven \subseteq Releases /\ cut \in BOOLEAN

\* The watchdog can always go back: unless the binary in place has run for a
\* minute, the backup has, and the agent is never started without a binary in
\* place.  Releases that break after they staged another one, rollbacks, failed
\* swaps and kills at any moment keep it so, as long as the watchdog is not stopped
\* while a binary is on probation or away, and the rename back does not fail.
FallbackKept ==
  ~cut => /\ bin \in proven \/ bak \in proven
          /\ wpc = "launch" => bin # None

\* The agent runs a release that has proved itself.
Served == agent.do = "work" /\ agent.release \in proven

\* Whatever releases are advertised, broken ones included, an agent that works
\* comes back again and again.
AlwaysServed == []<>(cut \/ Served)

\* What becomes of the last release that is advertised, if it is sound.  With one
\* directory it is installed, stays, and runs: lost markers, leftovers of earlier
\* attempts and rollbacks of a sound release that was merely killed in its first
\* minute do not keep it out.  With two directories, as the packages install them,
\* it stays where the agent has left it: the marker lies where the watchdog does not
\* look, and the first binary is never replaced.
Current == bin = latest /\ agent.release = latest /\ agent.do = "work"
LeftLying == bin = 0 /\ new = latest
EventuallyCurrent ==
  <>[](cut \/ latest \in Broken \/ Current \/ (~sameDir /\ LeftLying))

=============================================================================
