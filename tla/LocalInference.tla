----------------------------- MODULE LocalInference -----------------------------
(***************************************************************************)
(* One machine with an Ollama daemon, on which houdry serve answers chats  *)
(* and the node agent executes inference jobs.                             *)
(***************************************************************************)
EXTENDS RouterChat, WorkerExec

CONSTANTS
  MaxRequests,  \* chats and jobs ever begun and models ever deleted
  LastSecond    \* the clock stops there

ASSUME BoundsAssumption ==
  MaxRequests \in Nat /\ LastSecond \in Nat \ {0}

vars == <<ollama, numCtx, chat, shelf, second, work>>

\* The bound on what comes from outside.
More ==
  Cardinality({c \in Chats : ~At(c, "idle")} \cup {j \in Jobs : ~Doing(j, "idle")})
    + Cardinality(ollama.removed) < MaxRequests

\* The daemon is up, on either kind of machine, with any models.
Init ==
  /\ ollama \in [up : {TRUE}, disk : SUBSET Refs, gpu : BOOLEAN,
                 removed : {{}}]
  /\ numCtx = [p \in Procs |-> [r \in Ref |-> Unknown]]
  /\ chat = [c \in Chats |-> NewChat]
  /\ shelf = [s \in 1..LastSecond |-> [drawing |-> NoChat, model |-> NoChat]]
  /\ second = 1
  /\ work = [j \in Jobs |-> NewWork]

ChatNext(c) ==
  /\ \/ Receive(c) /\ More
     \/ Hangup(c)
     \/ Delta(c)
     \/ ChatStep(c)
  /\ UNCHANGED work

WorkNext(j) ==
  /\ \/ Start(j) /\ More
     \/ WorkStep(j)
  /\ UNCHANGED <<chat, shelf, second>>

UserNext == More /\ \E r \in Refs : UserRemoves(r)

DaemonNext ==
  /\ OllamaStops \/ OllamaStarts \/ UserNext
  /\ UNCHANGED <<numCtx, chat, shelf, second, work>>

Next ==
  \/ \E c \in Chats : ChatNext(c)
  \/ \E j \in Jobs : WorkNext(j)
  \/ Tick /\ UNCHANGED work
  \/ DaemonNext

Spec == Init /\ [][Next]_vars
=============================================================================
