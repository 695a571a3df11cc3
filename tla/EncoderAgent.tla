----------------------------- MODULE EncoderAgent -----------------------------
(***************************************************************************)
(* The protocol of video/fenc between act3 and its encoder agent.  A job   *)
(* is a directory in a spool both see: act3 makes it and stages the input  *)
(* (video/ffmpeg/agent.go, newJob), posts one request after another (a     *)
(* probe has several), collects the output and removes the directory       *)
(* (close).  The agent runs a tool per request; the request lives as long  *)
(* as its connection, and the agent removes the directory of a request     *)
(* that was given up while the tool ran.                                   *)
(*                                                                         *)
(* Abstracted: arguments, progress, the content of outputs (partial or     *)
(* whole).  The statistics of pass 1, also the agent's, are VideoPipeline's. *)
(***************************************************************************)
EXTENDS Integers

CONSTANTS
    Jobs,       \* directory names: random, never used twice
    MaxRuns,    \* bound on the requests of one job
    MaxFaults   \* bound on crashes and on requests given up

ASSUME EncoderAgentAssumption ==
    MaxRuns \in Nat \ {0} /\ MaxFaults \in Nat

VARIABLES
    caller,     \* act3, per job
    runs,       \* requests posted so far
    conn,       \* the connection of the request; "dropped" by either side
    agent,      \* handleJob, per job: how far it is
    ended,      \* the jobs whose request context has ended
    tool,       \* the process, per job
    reply,      \* what the handler is to say
    dir,        \* the job directory: "absent", "staged" (no output),
                \* "partial" or "whole" output
    old,        \* the directories last modified before the sweep's cutoff
    up,         \* the agent's process is there
    excuse,     \* the jobs that met a crash, or were given up before the
                \* tool started or when it had just exited
    faults

files == <<dir, old>>
handler == <<agent, ended, tool, reply>>
vars == <<caller, runs, conn, handler, files, up, excuse, faults>>

alive(j) == tool[j] = "running"

TypeOK ==
    /\ caller \in [Jobs -> {"new", "staged", "posted", "got", "failed", "closed", "crashed"}]
    /\ runs \in [Jobs -> 0 .. MaxRuns]
    /\ conn \in [Jobs -> {"none", "open", "dropped"}]
    /\ agent \in [Jobs -> {"none", "accepted", "found", "made", "waiting", "reaped", "answering"}]
    /\ ended \in SUBSET Jobs
    /\ tool \in [Jobs -> {"none", "running", "done", "failed"}]
    /\ \A j \in Jobs : agent[j] \in {"reaped", "answering"} => ~alive(j)
    /\ reply \in [Jobs -> {"none", "ok", "error"}]
    /\ dir \in [Jobs -> {"absent", "staged", "partial", "whole"}]
    /\ old \in SUBSET Jobs
    /\ up \in BOOLEAN
    /\ excuse \in SUBSET Jobs
    /\ faults \in 0 .. MaxFaults

Init ==
    /\ caller = [j \in Jobs |-> "new"]
    /\ runs = [j \in Jobs |-> 0]
    /\ conn = [j \in Jobs |-> "none"]
    /\ agent = [j \in Jobs |-> "none"]
    /\ ended = {}
    /\ tool = [j \in Jobs |-> "none"]
    /\ reply = [j \in Jobs |-> "none"]
    /\ dir = [j \in Jobs |-> "absent"]
    /\ old = {}
    /\ up = TRUE
    /\ excuse = {}
    /\ faults = 0

Excuse(J) == excuse' = excuse \cup J
Fault == faults < MaxFaults /\ faults' = faults + 1

(* os.RemoveAll under a tool that still writes may leave some of it.       *)
RemoveAll(j) ==
    /\ \/ dir' = [dir EXCEPT ![j] = "absent"]
       \/ dir[j] = "partial" /\ alive(j) /\ dir' = dir
    /\ old' = IF dir'[j] = "absent" THEN old \ {j} ELSE old

-----------------------------------------------------------------------------
(* act3.                                                                   *)

NewJob(j) ==
    /\ caller[j] = "new"
    /\ dir' = [dir EXCEPT ![j] = "staged"]
    /\ caller' = [caller EXCEPT ![j] = "staged"]
    /\ UNCHANGED <<runs, conn, handler, old, up, excuse, faults>>

(* job.run: the first request, or the next when the last one succeeded.    *)
Post(j) ==
    /\ caller[j] \in {"staged", "got"} /\ runs[j] < MaxRuns
    /\ runs' = [runs EXCEPT ![j] = @ + 1]
    /\ IF up
         THEN /\ caller' = [caller EXCEPT ![j] = "posted"]
              /\ conn' = [conn EXCEPT ![j] = "open"]
              /\ agent' = [agent EXCEPT ![j] = "accepted"]
         ELSE /\ caller' = [caller EXCEPT ![j] = "failed"]
              /\ UNCHANGED <<conn, agent>>
    /\ UNCHANGED <<ended, tool, reply, files, up, excuse, faults>>

(* The deferred close, after the output was collected or the job failed.   *)
Close(j) ==
    /\ caller[j] \in {"got", "failed"}
    /\ RemoveAll(j)
    /\ caller' = [caller EXCEPT ![j] = "closed"]
    /\ UNCHANGED <<runs, conn, handler, up, excuse, faults>>

(* The task is killed: Client.Job returns at once.                         *)
GiveUp(j) ==
    /\ Fault
    /\ caller[j] = "posted"
    /\ caller' = [caller EXCEPT ![j] = "failed"]
    /\ conn' = [conn EXCEPT ![j] = "dropped"]
    /\ UNCHANGED <<runs, handler, files, up, excuse>>

(* "job stream ended without a done event"                                 *)
StreamEnds(j) ==
    /\ caller[j] = "posted" /\ conn[j] = "dropped"
    /\ caller' = [caller EXCEPT ![j] = "failed"]
    /\ UNCHANGED <<runs, conn, handler, files, up, excuse, faults>>

-----------------------------------------------------------------------------
(* handleJob.                                                              *)

Refuse(j) ==
    /\ agent' = [agent EXCEPT ![j] = "answering"]
    /\ reply' = [reply EXCEPT ![j] = "error"]

(* Stat of the directory, Open of the input.                               *)
FindJob(j) ==
    /\ agent[j] = "accepted"
    /\ IF dir[j] = "absent"
         THEN Refuse(j)
         ELSE agent' = [agent EXCEPT ![j] = "found"] /\ UNCHANGED reply
    /\ UNCHANGED <<caller, runs, conn, ended, tool, files, up, excuse, faults>>

(* MkdirAll of the directory out in it: makes the directory, too.          *)
MakeOut(j) ==
    /\ agent[j] = "found"
    /\ agent' = [agent EXCEPT ![j] = "made"]
    /\ dir' = [dir EXCEPT ![j] = IF @ = "absent" THEN "staged" ELSE @]
    /\ Excuse(IF dir[j] = "absent" THEN {j} ELSE {})
    /\ UNCHANGED <<caller, runs, conn, ended, tool, reply, old, up, faults>>

(* exec.Cmd.Start refuses when the context has ended; so does the creation *)
(* of the file for the tool's output when the directory is gone.           *)
Start(j) ==
    /\ agent[j] = "made"
    /\ IF j \in ended
         THEN Refuse(j) /\ UNCHANGED tool
         ELSE \/ /\ agent' = [agent EXCEPT ![j] = "waiting"]
                 /\ tool' = [tool EXCEPT ![j] = "running"]
                 /\ UNCHANGED reply
              \/ /\ dir[j] = "absent"
                 /\ Refuse(j) /\ UNCHANGED tool
    /\ UNCHANGED <<caller, runs, conn, ended, files, up, excuse, faults>>

(* The server sees that the connection is gone.                            *)
ContextEnds(j) ==
    /\ agent[j] \notin {"none", "answering"}
    /\ conn[j] = "dropped" /\ j \notin ended
    /\ ended' = ended \cup {j}
    /\ UNCHANGED <<caller, runs, conn, agent, tool, reply, files, up, excuse, faults>>

(* exec.CommandContext kills the tool.  Slip: exec.Command.                *)
notWatched(j) == FALSE
watched(j) == agent[j] = "waiting" /\ j \in ended
Kill(j) ==
    /\ watched(j) /\ alive(j)
    /\ tool' = [tool EXCEPT ![j] = "failed"]
    /\ UNCHANGED <<caller, runs, conn, agent, ended, reply, files, up, excuse, faults>>

ToolWrites(j) ==
    /\ alive(j)
    /\ dir[j] \in {"staged", "whole"}
    /\ dir' = [dir EXCEPT ![j] = "partial"]
    /\ old' = old \ {j}
    /\ UNCHANGED <<caller, runs, conn, handler, up, excuse, faults>>

(* It succeeds when all it wrote is there.                                 *)
ToolExits(j) ==
    /\ alive(j)
    /\ \/ /\ tool' = [tool EXCEPT ![j] = "failed"]
          /\ UNCHANGED dir
       \/ /\ dir[j] = "partial"
          /\ tool' = [tool EXCEPT ![j] = "done"]
          /\ dir' = [dir EXCEPT ![j] = "whole"]
    /\ Excuse(IF conn[j] = "dropped" /\ j \notin ended THEN {j} ELSE {})
    /\ UNCHANGED <<caller, runs, conn, agent, ended, reply, old, up, faults>>

(* exec.Cmd.Wait and the reader of the progress pipe return.  Slip: the    *)
(* agent keeps its own copy of the pipe's end and hears no EOF.            *)
noEOF(j) == FALSE
exited(j) == agent[j] = "waiting" /\ ~alive(j)
Reap(j) ==
    /\ exited(j)
    /\ agent' = [agent EXCEPT ![j] = "reaped"]
    /\ UNCHANGED <<caller, runs, conn, ended, tool, reply, files, up, excuse, faults>>

(* Slips: the agent leaves the directory to the caller, or always takes it. *)
never(j) == FALSE
always(j) == TRUE
cancelled(j) == j \in ended
CleanUp(j) ==
    /\ agent[j] = "reaped"
    /\ IF cancelled(j) THEN RemoveAll(j) ELSE UNCHANGED files
    /\ agent' = [agent EXCEPT ![j] = "answering"]
    /\ reply' = [reply EXCEPT ![j] = IF tool[j] = "done" THEN "ok" ELSE "error"]
    /\ UNCHANGED <<caller, runs, conn, ended, tool, up, excuse, faults>>

(* The last event, and the end of the handler.                             *)
Answer(j) ==
    /\ agent[j] = "answering"
    /\ caller' = IF conn[j] = "open"
                   THEN [caller EXCEPT ![j] = IF reply[j] = "ok" THEN "got" ELSE "failed"]
                   ELSE caller
    /\ conn' = [conn EXCEPT ![j] = IF @ = "open" THEN "none" ELSE @]
    /\ agent' = [agent EXCEPT ![j] = "none"]
    /\ reply' = [reply EXCEPT ![j] = "none"]
    /\ ended' = ended \ {j}
    /\ UNCHANGED <<runs, tool, files, up, excuse, faults>>

-----------------------------------------------------------------------------
(* Crashes, and the sweep.                                                 *)

inFlight(j) == caller[j] \in {"staged", "posted", "got", "failed"}

(* act3 stops: its connections drop, nothing of it is left.                *)
Act3Crash ==
    /\ Fault
    /\ \E j \in Jobs : inFlight(j)
    /\ caller' = [j \in Jobs |-> IF inFlight(j) THEN "crashed" ELSE caller[j]]
    /\ conn' = [j \in Jobs |-> IF conn[j] = "open" THEN "dropped" ELSE conn[j]]
    /\ Excuse({j \in Jobs : inFlight(j) /\ ~(agent[j] = "waiting" /\ alive(j))})
    /\ UNCHANGED <<runs, handler, files, up>>

(* The agent stops.  A tool it has started runs on.                        *)
AgentCrash ==
    /\ Fault
    /\ up /\ up' = FALSE
    /\ agent' = [j \in Jobs |-> "none"]
    /\ reply' = [j \in Jobs |-> "none"]
    /\ ended' = {}
    /\ conn' = [j \in Jobs |-> IF conn[j] = "open" THEN "dropped" ELSE conn[j]]
    /\ Excuse({j \in Jobs : agent[j] # "none"})
    /\ UNCHANGED <<caller, runs, tool, files>>

(* main: SweepOrphans before the first request is served.                  *)
AgentStarts ==
    /\ ~up /\ up' = TRUE
    /\ dir' = [j \in Jobs |-> IF j \in old THEN "absent" ELSE dir[j]]
    /\ old' = {}
    /\ UNCHANGED <<caller, runs, conn, handler, excuse, faults>>

(* More than the sweep's age passes.  A job takes less.                    *)
AWeekPasses ==
    /\ \A j \in Jobs : ~inFlight(j) /\ agent[j] = "none" /\ ~alive(j)
    /\ {j \in Jobs : dir[j] # "absent"} \ old # {}
    /\ old' = {j \in Jobs : dir[j] # "absent"}
    /\ UNCHANGED <<caller, runs, conn, handler, dir, up, excuse, faults>>

-----------------------------------------------------------------------------
Act3(j) == NewJob(j) \/ Post(j) \/ Close(j) \/ StreamEnds(j)
HandleJob(j) ==
    FindJob(j) \/ MakeOut(j) \/ Start(j) \/ Reap(j) \/ CleanUp(j) \/ Answer(j)
Tool(j) == ToolWrites(j) \/ ToolExits(j)

Next ==
    \/ Act3Crash \/ AgentCrash \/ AgentStarts \/ AWeekPasses
    \/ \E j \in Jobs :
         Act3(j) \/ GiveUp(j) \/ HandleJob(j) \/ ContextEnds(j) \/ Kill(j) \/ Tool(j)

Spec == Init /\ [][Next]_vars

(* Both programs run on; the server watches its connections; a tool comes  *)
(* to an end unless it has been given up, when it may hang.                *)
Fairness ==
    \A j \in Jobs :
      /\ WF_vars(Close(j)) /\ WF_vars(StreamEnds(j)) /\ WF_vars(HandleJob(j))
      /\ WF_vars(ContextEnds(j)) /\ WF_vars(Kill(j))
      /\ WF_vars(conn[j] = "open" /\ ToolWrites(j))
      /\ WF_vars(conn[j] = "open" /\ ToolExits(j))

FairSpec == Spec /\ Fairness
=============================================================================
