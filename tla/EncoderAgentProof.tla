--------------------------- MODULE EncoderAgentProof ---------------------------
(***************************************************************************)
(* Proofs about EncoderAgent, for any jobs and any bounds.                 *)
(*                                                                         *)
(* Each job is followed on its own.  What a directory holds when act3      *)
(* reads it depends on who may write there, and that on the connection:    *)
(* while it is open act3 waits and nobody removes anything, and once it is *)
(* lost the two sides owe one another its removal.                         *)
(***************************************************************************)
EXTENDS EncoderAgentProps, TLAPS

(* act3 waits at the other end of an open connection, a request has one,   *)
(* and a handler hears of its end when it is dropped.                      *)
ConnIsPosted(j) == conn[j] = "open" => caller[j] = "posted"
HandlerHasConn(j) == agent[j] # "none" => conn[j] # "none"
EndedIsDropped(j) == j \in ended => agent[j] # "none" /\ conn[j] = "dropped"

(* A tool runs for a handler that waits for it, or its agent has crashed.  *)
ToolHasHandler(j) ==
    alive(j) => agent[j] = "waiting" \/ (agent[j] = "none" /\ j \in excuse)

(* Between requests nothing of the agent is left, and before the first one *)
(* there is no directory.                                                  *)
BetweenRequests(j) ==
    /\ caller[j] \in {"new", "staged", "got"} => agent[j] = "none" /\ ~alive(j)
    /\ caller[j] = "new" => dir[j] = "absent"

(* The sweep finds only directories of jobs that are over.                 *)
SweptIsOver(j) == j \in old => caller[j] \in {"closed", "crashed"}

(* What an agent will tell act3 about the output is so.                    *)
DoneIsWhole(j) ==
    conn[j] = "open" /\ (\/ agent[j] \in {"waiting", "reaped"} /\ tool[j] = "done"
                         \/ agent[j] = "answering" /\ reply[j] = "ok")
      => dir[j] = "whole"
Collected(j) == caller[j] = "got" => dir[j] = "whole"

(* act3 is through and the directory is there: the handler is to remove it. *)
Owed(j) ==
    caller[j] \in {"closed", "crashed"} /\ dir[j] # "absent" /\ j \notin excuse
      => /\ agent[j] \in {"waiting", "reaped"} /\ conn[j] = "dropped"
         /\ (agent[j] = "waiting" /\ alive(j)) \/ j \in ended

(* Who may do what, and what is in the directory.                          *)
Protocol(j) ==
    /\ ConnIsPosted(j) /\ HandlerHasConn(j) /\ EndedIsDropped(j)
    /\ ToolHasHandler(j) /\ BetweenRequests(j) /\ SweptIsOver(j)
Content(j) == DoneIsWhole(j) /\ Collected(j) /\ Owed(j)

(* The inductive invariant.                                                *)
IInv == TypeOK /\ \A j \in Jobs : Protocol(j) /\ Content(j)

USE EncoderAgentAssumption
    DEF ConnIsPosted, HandlerHasConn, EndedIsDropped, ToolHasHandler,
        BetweenRequests, SweptIsOver, DoneIsWhole, Collected, Owed, alive

(* A job that a step does not touch.                                       *)
Same(j) ==
    /\ caller'[j] = caller[j] /\ conn'[j] = conn[j] /\ agent'[j] = agent[j]
    /\ tool'[j] = tool[j] /\ reply'[j] = reply[j] /\ dir'[j] = dir[j]
    /\ j \in ended' <=> j \in ended
    /\ j \in old' <=> j \in old
    /\ j \in excuse' <=> j \in excuse

LEMMA OneJob ==
  ASSUME IInv, NEW k \in Jobs,
         TypeOK', Protocol(k)', Content(k)', \A j \in Jobs \ {k} : Same(j)
  PROVE  IInv'
  <1>1. ASSUME NEW j \in Jobs \ {k}
        PROVE  (Protocol(j) /\ Content(j))'
    <2>1. Same(j) /\ Protocol(j) /\ Content(j)
      BY DEF IInv
    <2>2. QED
      BY <2>1 DEF Same, Protocol, Content
  <1>2. QED
    BY <1>1 DEF IInv

-----------------------------------------------------------------------------
(* act3.                                                                   *)

(* The first directory of a job.                                           *)
LEMMA NewJobKeepsIInv ==
  ASSUME IInv, NEW k \in Jobs, NewJob(k)
  PROVE  IInv'
  <1> USE DEF NewJob, handler
  <1>1. TypeOK'
    BY DEF IInv, TypeOK
  <1>2. \A j \in Jobs \ {k} : Same(j)
    BY DEF IInv, TypeOK, Same
  <1>3. Protocol(k)'
    BY DEF IInv, TypeOK, Protocol
  <1>4. Content(k)'
    BY DEF IInv, TypeOK, Protocol, Content
  <1>5. QED
    BY <1>1, <1>2, <1>3, <1>4, OneJob

(* A request begins with nothing left of the one before.                   *)
LEMMA PostKeepsIInv ==
  ASSUME IInv, NEW k \in Jobs, Post(k)
  PROVE  IInv'
  <1> USE DEF Post, files
  <1>1. TypeOK'
    BY DEF IInv, TypeOK
  <1>2. \A j \in Jobs \ {k} : Same(j)
    BY DEF IInv, TypeOK, Same
  <1>3. Protocol(k)'
    BY DEF IInv, TypeOK, Protocol
  <1>4. Content(k)'
    BY DEF IInv, TypeOK, Protocol, Content
  <1>5. QED
    BY <1>1, <1>2, <1>3, <1>4, OneJob

(* act3 reads no more.  What a tool still writes the handler removes, and  *)
(* with no tool at work all of the directory goes.                         *)
LEMMA CloseKeepsIInv ==
  ASSUME IInv, NEW k \in Jobs, Close(k)
  PROVE  IInv'
  <1> USE DEF Close, RemoveAll, handler
  <1>1. TypeOK'
    BY DEF IInv, TypeOK
  <1>2. \A j \in Jobs \ {k} : Same(j)
    BY DEF IInv, TypeOK, Same
  <1>3. Protocol(k)'
    BY DEF IInv, TypeOK, Protocol
  <1>4. Content(k)'
    BY DEF IInv, TypeOK, Protocol, Content
  <1>5. QED
    BY <1>1, <1>2, <1>3, <1>4, OneJob

(* The connection is lost; act3 is still to close the job.                 *)
LEMMA GiveUpKeepsIInv ==
  ASSUME IInv, NEW k \in Jobs, GiveUp(k) \/ StreamEnds(k)
  PROVE  IInv'
  <1> USE DEF GiveUp, StreamEnds, Fault, handler, files
  <1>1. TypeOK'
    BY DEF IInv, TypeOK
  <1>2. \A j \in Jobs \ {k} : Same(j)
    BY DEF IInv, TypeOK, Same
  <1>3. Protocol(k)'
    BY DEF IInv, TypeOK, Protocol
  <1>4. Content(k)'
    BY DEF IInv, TypeOK, Protocol, Content
  <1>5. QED
    BY <1>1, <1>2, <1>3, <1>4, OneJob

-----------------------------------------------------------------------------
(* The handler.                                                            *)

(* A request for a directory that is gone is refused.                      *)
LEMMA FindJobKeepsIInv ==
  ASSUME IInv, NEW k \in Jobs, FindJob(k)
  PROVE  IInv'
  <1> USE DEF FindJob, Refuse, files
  <1>1. TypeOK'
    BY DEF IInv, TypeOK, Protocol
  <1>2. \A j \in Jobs \ {k} : Same(j)
    BY DEF IInv, TypeOK, Same
  <1>3. Protocol(k)'
    BY DEF IInv, TypeOK, Protocol
  <1>4. Content(k)'
    BY DEF IInv, TypeOK, Protocol, Content
  <1>5. QED
    BY <1>1, <1>2, <1>3, <1>4, OneJob

(* A directory made again is an excuse.                                    *)
LEMMA MakeOutKeepsIInv ==
  ASSUME IInv, NEW k \in Jobs, MakeOut(k)
  PROVE  IInv'
  <1> USE DEF MakeOut, Excuse
  <1>1. TypeOK'
    BY DEF IInv, TypeOK
  <1>2. \A j \in Jobs \ {k} : Same(j)
    BY DEF IInv, TypeOK, Same
  <1>3. Protocol(k)'
    BY DEF IInv, TypeOK, Protocol
  <1>4. Content(k)'
    BY DEF IInv, TypeOK, Protocol, Content
  <1>5. QED
    BY <1>1, <1>2, <1>3, <1>4, OneJob

(* The tool starts, or the request is refused.                             *)
LEMMA StartKeepsIInv ==
  ASSUME IInv, NEW k \in Jobs, Start(k)
  PROVE  IInv'
  <1> USE DEF Start, Refuse, files
  <1>1. TypeOK'
    BY DEF IInv, TypeOK, Protocol
  <1>2. \A j \in Jobs \ {k} : Same(j)
    BY DEF IInv, TypeOK, Same
  <1>3. Protocol(k)'
    BY DEF IInv, TypeOK, Protocol
  <1>4. Content(k)'
    BY DEF IInv, TypeOK, Protocol, Content
  <1>5. QED
    BY <1>1, <1>2, <1>3, <1>4, OneJob

(* The handler hears of the end and kills the tool.                        *)
LEMMA ContextEndsKeepsIInv ==
  ASSUME IInv, NEW k \in Jobs, ContextEnds(k) \/ Kill(k)
  PROVE  IInv'
  <1> USE DEF ContextEnds, Kill, watched, files
  <1>1. TypeOK'
    BY DEF IInv, TypeOK
  <1>2. \A j \in Jobs \ {k} : Same(j)
    BY DEF IInv, TypeOK, Same
  <1>3. Protocol(k)'
    BY DEF IInv, TypeOK, Protocol
  <1>4. Content(k)'
    BY DEF IInv, TypeOK, Protocol, Content
  <1>5. QED
    BY <1>1, <1>2, <1>3, <1>4, OneJob

(* The tool has exited.                                                    *)
LEMMA ReapKeepsIInv ==
  ASSUME IInv, NEW k \in Jobs, Reap(k)
  PROVE  IInv'
  <1> USE DEF Reap, exited, files
  <1>1. TypeOK'
    BY DEF IInv, TypeOK
  <1>2. \A j \in Jobs \ {k} : Same(j)
    BY DEF IInv, TypeOK, Same
  <1>3. Protocol(k)'
    BY DEF IInv, TypeOK, Protocol
  <1>4. Content(k)'
    BY DEF IInv, TypeOK, Protocol, Content
  <1>5. QED
    BY <1>1, <1>2, <1>3, <1>4, OneJob

(* The handler removes what it is to remove: no tool is at work, so all    *)
(* of it goes.                                                             *)
LEMMA CleanUpKeepsIInv ==
  ASSUME IInv, NEW k \in Jobs, CleanUp(k)
  PROVE  IInv'
  <1> USE DEF CleanUp, cancelled, RemoveAll, files
  <1>1. TypeOK'
    BY DEF IInv, TypeOK
  <1>2. \A j \in Jobs \ {k} : Same(j)
    BY DEF IInv, TypeOK, Same
  <1>3. Protocol(k)'
    BY DEF IInv, TypeOK, Protocol
  <1>4. Content(k)'
    BY DEF IInv, TypeOK, Protocol, Content
  <1>5. QED
    BY <1>1, <1>2, <1>3, <1>4, OneJob

(* Nobody else touches a directory whose connection is open, so what is    *)
(* told of it is still so.                                                 *)
LEMMA AnswerKeepsIInv ==
  ASSUME IInv, NEW k \in Jobs, Answer(k)
  PROVE  IInv'
  <1> USE DEF Answer, files
  <1>1. TypeOK'
    BY DEF IInv, TypeOK
  <1>2. \A j \in Jobs \ {k} : Same(j)
    BY DEF IInv, TypeOK, Same
  <1>3. Protocol(k)'
    BY DEF IInv, TypeOK, Protocol
  <1>4. Content(k)'
    BY DEF IInv, TypeOK, Protocol, Content
  <1>5. QED
    BY <1>1, <1>2, <1>3, <1>4, OneJob

-----------------------------------------------------------------------------
(* The tool.                                                               *)

(* A tool writes into the directory of a job that act3 is not reading.     *)
LEMMA ToolWritesKeepsIInv ==
  ASSUME IInv, NEW k \in Jobs, ToolWrites(k)
  PROVE  IInv'
  <1> USE DEF ToolWrites, handler
  <1>1. TypeOK'
    BY DEF IInv, TypeOK
  <1>2. \A j \in Jobs \ {k} : Same(j)
    BY DEF IInv, TypeOK, Same
  <1>3. Protocol(k)'
    BY DEF IInv, TypeOK, Protocol
  <1>4. Content(k)'
    BY DEF IInv, TypeOK, Protocol, Content
  <1>5. QED
    BY <1>1, <1>2, <1>3, <1>4, OneJob

(* An exit that nobody waits for any more, but is not yet known to be      *)
(* so, is an excuse.                                                       *)
LEMMA ToolExitsKeepsIInv ==
  ASSUME IInv, NEW k \in Jobs, ToolExits(k)
  PROVE  IInv'
  <1> USE DEF ToolExits, Excuse
  <1>1. TypeOK'
    BY DEF IInv, TypeOK
  <1>2. \A j \in Jobs \ {k} : Same(j)
    BY DEF IInv, TypeOK, Same
  <1>3. Protocol(k)'
    BY DEF IInv, TypeOK, Protocol
  <1>4. Content(k)'
    BY DEF IInv, TypeOK, Protocol, Content
  <1>5. QED
    BY <1>1, <1>2, <1>3, <1>4, OneJob

-----------------------------------------------------------------------------
(* Crashes, and the sweep.                                                 *)

(* act3 leaves behind what the handlers are to remove, or an excuse.       *)
LEMMA Act3CrashKeepsIInv ==
  ASSUME IInv, Act3Crash
  PROVE  IInv'
  <1> USE DEF Act3Crash, inFlight, Excuse, Fault, handler, files
  <1>1. TypeOK'
    BY DEF IInv, TypeOK
  <1>2. ASSUME NEW j \in Jobs
        PROVE  Protocol(j)'
    BY DEF IInv, TypeOK, Protocol
  <1>3. ASSUME NEW j \in Jobs
        PROVE  Content(j)'
    BY DEF IInv, TypeOK, Protocol, Content
  <1>4. QED
    BY <1>1, <1>2, <1>3 DEF IInv

(* The agent leaves behind tools without a handler, each an excuse.        *)
LEMMA AgentCrashKeepsIInv ==
  ASSUME IInv, AgentCrash
  PROVE  IInv'
  <1> USE DEF AgentCrash, Excuse, Fault, files
  <1>1. TypeOK'
    <2>1. conn' \in [Jobs -> {"none", "open", "dropped"}]
      BY DEF IInv, TypeOK
    <2>2. excuse' \in SUBSET Jobs
      BY DEF IInv, TypeOK
    <2>3. /\ agent' \in [Jobs -> {"none", "accepted", "found", "made", "waiting",
                                  "reaped", "answering"}]
          /\ reply' \in [Jobs -> {"none", "ok", "error"}]
          /\ \A j \in Jobs : agent'[j] = "none"
      OBVIOUS
    <2>4. ended' = {} /\ up' = FALSE /\ faults' \in 0 .. MaxFaults
      BY DEF IInv, TypeOK
    <2>5. UNCHANGED <<caller, runs, tool, dir, old>>
      OBVIOUS
    <2> HIDE DEF AgentCrash
    <2>6. QED
      BY <2>1, <2>2, <2>3, <2>4, <2>5 DEF IInv, TypeOK
  <1>2. ASSUME NEW j \in Jobs
        PROVE  Protocol(j)'
    BY DEF IInv, TypeOK, Protocol
  <1>3. ASSUME NEW j \in Jobs
        PROVE  Content(j)'
    BY DEF IInv, TypeOK, Protocol, Content
  <1>4. QED
    BY <1>1, <1>2, <1>3 DEF IInv

(* The sweep removes old directories, which nobody has any use for.        *)
LEMMA SweepKeepsIInv ==
  ASSUME IInv, AgentStarts \/ AWeekPasses
  PROVE  IInv'
  <1> USE DEF AgentStarts, AWeekPasses, inFlight, handler
  <1>1. TypeOK'
    <2>1. dir' \in [Jobs -> {"absent", "staged", "partial", "whole"}]
      BY DEF IInv, TypeOK
    <2>2. old' \in SUBSET Jobs
      OBVIOUS
    <2>3. up' \in BOOLEAN
      BY DEF IInv, TypeOK
    <2>4. UNCHANGED <<caller, runs, conn, agent, ended, tool, reply, excuse, faults>>
      OBVIOUS
    <2>5. QED
      BY <2>1, <2>2, <2>3, <2>4 DEF IInv, TypeOK
  <1>2. ASSUME NEW j \in Jobs
        PROVE  Protocol(j)'
    BY DEF IInv, TypeOK, Protocol
  <1>3. ASSUME NEW j \in Jobs
        PROVE  Content(j)'
    BY DEF IInv, TypeOK, Protocol, Content
  <1>4. QED
    BY <1>1, <1>2, <1>3 DEF IInv

-----------------------------------------------------------------------------
(* IInv is inductive.                                                      *)

LEMMA InitIInv == Init => IInv
  BY DEF Init, IInv, TypeOK, Protocol, Content

LEMMA NextIInv == IInv /\ [Next]_vars => IInv'
  <1> SUFFICES ASSUME IInv, [Next]_vars PROVE IInv'
    OBVIOUS
  <1>1. ASSUME NEW k \in Jobs, Act3(k) \/ GiveUp(k)
        PROVE  IInv'
    BY <1>1, NewJobKeepsIInv, PostKeepsIInv, CloseKeepsIInv, GiveUpKeepsIInv
       DEF Act3
  <1>2. ASSUME NEW k \in Jobs, HandleJob(k) \/ ContextEnds(k) \/ Kill(k)
        PROVE  IInv'
    BY <1>2, FindJobKeepsIInv, MakeOutKeepsIInv, StartKeepsIInv,
       ContextEndsKeepsIInv, ReapKeepsIInv, CleanUpKeepsIInv, AnswerKeepsIInv
       DEF HandleJob
  <1>3. ASSUME NEW k \in Jobs, Tool(k)
        PROVE  IInv'
    BY <1>3, ToolWritesKeepsIInv, ToolExitsKeepsIInv DEF Tool
  <1>4. CASE UNCHANGED vars
    BY <1>4 DEF vars, handler, files, IInv, TypeOK, Protocol, Content
  <1>5. QED
    BY <1>1, <1>2, <1>3, <1>4, Act3CrashKeepsIInv, AgentCrashKeepsIInv,
       SweepKeepsIInv DEF Next

THEOREM Inductive == Spec => []IInv
  BY InitIInv, NextIInv, PTL DEF Spec

\* Every variable keeps its type, and no tool runs that its handler has
\* reaped.
THEOREM TypeCorrect == Spec => []TypeOK
  <1>1. IInv => TypeOK
    BY DEF IInv
  <1>2. QED
    BY <1>1, Inductive, PTL

\* What act3 collects is the whole output, for any number of jobs, requests,
\* crashes and lost connections.
THEOREM OutputIsWhole == Spec => []CollectedIsWhole
  <1>1. IInv => CollectedIsWhole
    BY DEF IInv, Protocol, Content, CollectedIsWhole
  <1>2. QED
    BY <1>1, Inductive, PTL

\* A job both sides are through with leaves nothing behind, but for the
\* excuses.
THEOREM JobIsRemoved == Spec => []NothingLeftBehind
  <1>1. IInv => NothingLeftBehind
    BY DEF IInv, Protocol, Content, NothingLeftBehind, rests
  <1>2. QED
    BY <1>1, Inductive, PTL
=============================================================================
