-------------------------- MODULE EncoderAgentProps --------------------------
(***************************************************************************)
(* What the protocol of EncoderAgent.tla promises.                         *)
(***************************************************************************)
EXTENDS EncoderAgent

\* When act3 is told that the tool succeeded it finds the whole output of the
\* tool, whatever becomes of the connection afterwards: neither the agent's
\* clean-up nor a sweep nor the tool of an earlier request touches it
\* (agent.go, job.run and collectInto).
CollectedIsWhole ==
    \A j \in Jobs : caller[j] = "got" => dir[j] = "whole" /\ ~alive(j)

\* Both sides remove the directory of a request given up while its tool runs,
\* because "the caller cannot know when the killed tool stops writing"
\* (fenc.go): when act3, the handler and the tool are through with a job
\* nothing is left of it.  The excuses are a crash of act3 before the tool
\* runs or after, one of the agent, and a request given up before the tool
\* starts or just as it exits.
rests(j) ==
    caller[j] \in {"closed", "crashed"} /\ agent[j] = "none" /\ ~alive(j)
NothingLeftBehind ==
    \A j \in Jobs : rests(j) /\ j \notin excuse => dir[j] = "absent"

\* Every request ends.  Whoever posts it learns of it, by an answer or by the
\* loss of the connection, and the task that waits gives back its place in the
\* queue; and a tool outlives its request for a moment only, even one that
\* would never have ended ("dropping the connection cancels the job and kills
\* the tool", fenc.go), unless the agent itself has crashed.
RequestEnds ==
    \A j \in Jobs :
        /\ caller[j] = "posted" ~> caller[j] # "posted"
        /\ conn[j] = "dropped" /\ alive(j) /\ agent[j] # "none"
             ~> ~alive(j) \/ agent[j] = "none"
=============================================================================
