------------------------------- MODULE WorkerExec -------------------------------
(***************************************************************************)
(* An inference job on a worker: Execute and runInference of               *)
(* internal/agent/smoke.go over the Ollama adapter.  The job's context     *)
(* ends with the agent or after half an hour, and every call to the daemon *)
(* may fail on its own account, so every step may fail.                    *)
(***************************************************************************)
EXTENDS ModelRuntime

CONSTANTS
  Jobs,    \* the jobs of the agent
  Wanted,  \* the models they name, with or without a tag
  Shapes,  \* the requests they carry
  NoModel  \* before a job is there

ASSUME WantedAssumption == Wanted \subseteq Ref /\ NoModel \notin Wanted
ASSUME ShapesAssumption == Shapes \subseteq Shape

VARIABLE work

WorkPcs == {"idle", "find", "ensure", "pull", "compact", "cpu", "options",
            "show", "infer", "done"}
Results == {"", "text", "calls", "failed", "missing"}

\* tools is what is left of the request's tools, window the num_ctx asked of
\* the daemon, result how the job ended; "missing" is the daemon's 404.
Work == [pc : WorkPcs, ref : Wanted \cup {NoModel}, shape : Shape,
         tools : BOOLEAN, window : Nat, result : Results]

NoShape == [tools |-> FALSE, huge |-> FALSE, coding |-> FALSE]

NewWork == [pc |-> "idle", ref |-> NoModel, shape |-> NoShape, tools |-> FALSE,
            window |-> 0, result |-> ""]

-----------------------------------------------------------------------------
Doing(j, pc) == work[j].pc = pc

To(j, pc) == work' = [work EXCEPT ![j].pc = pc]

EndWork(j, result) ==
  work' = [work EXCEPT ![j].pc = "done", ![j].result = result]

Start(j) ==
  /\ Doing(j, "idle")
  /\ \E r \in Wanted, s \in Shapes :
       work' = [work EXCEPT ![j] =
         [NewWork EXCEPT !.pc = "find", !.ref = r, !.shape = s, !.tools = s.tools]]
  /\ UNCHANGED <<ollama, numCtx>>

\* modelruntime.Find: Ollama is the one adapter that is ever available, and
\* it is taken whether or not it has the model.
Find(j) ==
  /\ Doing(j, "find")
  /\ \/ ollama.up /\ To(j, "ensure")
     \/ EndWork(j, "failed")
  /\ UNCHANGED <<ollama, numCtx>>

\* EnsureModel: an installed model matches, or the model is pulled, which it
\* also is when the listing fails.
Ensure(j) ==
  /\ Doing(j, "ensure")
  /\ \/ /\ ollama.up
        /\ \E m \in ollama.disk : Matches(work[j].ref, m)
        /\ To(j, "compact")
     \/ To(j, "pull")
  /\ UNCHANGED <<ollama, numCtx>>

\* The pull.  The listing that follows it changes nothing, even if it fails.
Pull(j) ==
  /\ Doing(j, "pull")
  /\ \/ /\ ollama.up
        /\ Resolved(work[j].ref) \in Refs
        /\ ollama' = [ollama EXCEPT !.disk = @ \cup {Resolved(work[j].ref)}]
        /\ To(j, "compact")
     \/ EndWork(j, "failed") /\ UNCHANGED ollama
  /\ UNCHANGED numCtx

\* compactSlowInference: the tools go, unless it is coding, and the window
\* is the small one.
Compact(j) ==
  work' = [work EXCEPT ![j] =
    [@ EXCEPT !.pc = "options", !.tools = KeepsTools(work[j].shape),
              !.window = SlowNumCtx]]

\* shouldCompact: a huge request is compacted without asking the daemon.
CompactHuge(j) ==
  /\ Doing(j, "compact")
  /\ work[j].shape.huge
  /\ Compact(j)
  /\ UNCHANGED <<ollama, numCtx>>

\* Of another, whether something is in VRAM; no answer is no.
AskVRAM(j) ==
  /\ Doing(j, "compact")
  /\ ~work[j].shape.huge
  /\ \/ InVRAM /\ To(j, "options")
     \/ To(j, "cpu")
  /\ UNCHANGED <<ollama, numCtx>>

\* Then whether everything loaded is on the CPU; no answer is no.
AskCPU(j) ==
  /\ Doing(j, "cpu")
  /\ \/ OnCPU /\ Compact(j)
     \/ To(j, "options")
  /\ UNCHANGED <<ollama, numCtx>>

\* buildOptions, from the cache.
Options(j) ==
  /\ Doing(j, "options")
  /\ LET r == work[j].ref  asked == work[j].window
     IN IF NeedsProbe("agent", r, asked) THEN To(j, "show")
        ELSE work' = [work EXCEPT ![j] =
               [@ EXCEPT !.pc = "infer",
                         !.window = ResolveNumCtx(asked, numCtx["agent"][r])]]
  /\ UNCHANGED <<ollama, numCtx>>

ShowWork(j) ==
  /\ Doing(j, "show")
  /\ \E answered \in BOOLEAN :
       /\ answered => MayAnswer(work[j].ref)
       /\ Remember("agent", work[j].ref, answered)
       /\ work' = [work EXCEPT ![j] =
            [@ EXCEPT !.pc = "infer",
                      !.window = ResolveNumCtx(0, IF answered
                                   THEN Window[Resolved(work[j].ref)] ELSE 0)]]
  /\ UNCHANGED ollama

\* The daemon's answer: text, or calls of tools, which a model without a
\* tongue for them writes as text and inferChat reads back.
Infer(j) ==
  /\ Doing(j, "infer")
  /\ \/ /\ MayAnswer(work[j].ref)
        /\ \E result \in {"text", "calls"} :
             (result = "calls" => work[j].tools) /\ EndWork(j, result)
     \/ /\ ollama.up /\ ~Installed(work[j].ref)
        /\ EndWork(j, "missing")
     \/ EndWork(j, "failed")
  /\ UNCHANGED <<ollama, numCtx>>

WorkStep(j) ==
  \/ Find(j) \/ Ensure(j) \/ Pull(j) \/ CompactHuge(j) \/ AskVRAM(j)
  \/ AskCPU(j) \/ Options(j) \/ ShowWork(j) \/ Infer(j)
=============================================================================
