-------------------------------- MODULE Dispatch --------------------------------
(***************************************************************************)
(* How POST /v1/chat/completions (internal/server/openai_chat.go) and POST *)
(* /v1/route with execute (server.go) turn a request into a job and wait   *)
(* for it, while the nodes report, take work, drain, expire and leave.     *)
(*                                                                         *)
(* Each Store.List of the handlers is a step of its own: what was decided  *)
(* on one copy of the registry is used after the registry has changed.     *)
(* The handlers of the nodes' own requests are single steps here, trailing *)
(* tryScheduleQueued included; module ControlPlane takes them apart.       *)
(***************************************************************************)
EXTENDS Routing

CONSTANTS
  NoNode,    \* the empty node_id
  NoModel,   \* no model chosen yet
  Clients,   \* the requests, one job each
  Prompts,   \* the profiles of their prompts
  Reports    \* what a node may report of its GPUs, runtime and models

Host == [gpus : Seq(GPU), serves : BOOLEAN, models : [Models -> Presence]]

ASSUME NamesAssumption == NoNode \notin Nodes /\ NoModel \notin Models
ASSUME PromptsAssumption == Prompts \subseteq Analyzed
ASSUME ReportsAssumption == Reports \subseteq Host

VARIABLES
  node,   \* the registry
  req,    \* the handler of each request
  job     \* the job of each request

vars == <<node, req, job>>

NodeOrNone == Nodes \cup {NoNode}
ModelOrNone == Models \cup {NoModel}

Pcs == {"idle", "route", "retry", "pick", "select", "decide", "create",
        "schedule", "wait", "done"}

\* The status of the answer, reduced to who gave it and why.
Answers == {"", "local", "unsupported", "unavailable", "notools", "notfound",
            "conflict", "accepted", "ok", "failed", "timeout"}

\* auto and named are chat requests, exec is POST /v1/route with execute.
Modes == {"auto", "named", "exec"}

Turn == [pc : Pcs, mode : Modes, prof : Profile, tools : BOOLEAN,
         present : BOOLEAN, model : ModelOrNone, node : NodeOrNone,
         vram : Nat, answer : Answers]

JobStatuses == {"none", "queued", "pending", "running", "succeeded", "failed"}
Terminal == {"succeeded", "failed"}

Job == [status : JobStatuses, pref : NodeOrNone, node : NodeOrNone,
        model : ModelOrNone, vram : Nat, present : BOOLEAN,
        tools : BOOLEAN]

Plain == [modality |-> "text", tier |-> 1, caps |-> {"chat", "simple"}]

Idle == [pc |-> "idle", mode |-> "auto", prof |-> Plain, tools |-> FALSE,
         present |-> FALSE, model |-> NoModel, node |-> NoNode, vram |-> 0,
         answer |-> ""]

NoJob == [status |-> "none", pref |-> NoNode, node |-> NoNode, model |-> NoModel,
          vram |-> 0, present |-> FALSE, tools |-> FALSE]

Gone(n) == [status |-> "absent", gpus |-> <<>>, serves |-> FALSE,
            models |-> [m \in Models |-> "absent"]]

-----------------------------------------------------------------------------
At(c, pc) == req[c].pc = pc

Goto(c, pc) == req' = [req EXCEPT ![c].pc = pc]

Answer(c, a) == req' = [req EXCEPT ![c].pc = "done", ![c].answer = a]

\* A model and a node are chosen, with the memory the job will ask for.
Choose(c, m, n, vram, tools) ==
  req' = [req EXCEPT ![c] = [@ EXCEPT !.pc = "create", !.model = m, !.node = n,
                                      !.vram = vram, !.tools = tools]]

\* firstGPUWorker and hasGPUWorker: any of these, in the order of a map.
Workers == {n \in Nodes : node[n].status \in {"READY", "BUSY", "DRAINING"}}

\* The nodes a job may go to: its preferred one, if it names one.
Prefs(j) == IF j.pref = NoNode THEN Nodes ELSE {j.pref}

Placements(ns, j) == SelectNode(ns, Prefs(j), j.model, j.vram, j.present)

\* tryScheduleQueued.  One assignment changes nothing another one looks at.
Scheduled(ns, js) ==
  [c \in Clients |->
     LET j == js[c]  S == Placements(ns, j)
     IN IF j.status = "queued" /\ S # {}
        THEN [j EXCEPT !.status = "pending", !.node = CHOOSE n \in S : TRUE]
        ELSE j]

\* The jobs of node n in one of these statuses fail.
FailOn(n, statuses) ==
  [c \in Clients |-> IF job[c].node = n /\ job[c].status \in statuses
                     THEN [job[c] EXCEPT !.status = "failed"] ELSE job[c]]

-----------------------------------------------------------------------------
(* handleChatCompletions.                                                  *)

\* With no worker at all the machine's own Ollama answers, if it is up.
Chat(c, start, turn) ==
  \/ req' = [req EXCEPT ![c] = [turn EXCEPT !.pc = start]]
  \/ /\ Workers = {}
     /\ req' = [req EXCEPT ![c] = [turn EXCEPT !.pc = "done", !.answer = "local"]]

ReceiveAuto(c) ==
  /\ At(c, "idle")
  /\ \E p \in Prompts, tools \in BOOLEAN :
       Chat(c, "route", [Idle EXCEPT !.mode = "auto", !.prof = p, !.tools = tools,
                                     !.present = TRUE])
  /\ UNCHANGED <<node, job>>

ReceiveNamed(c) ==
  /\ At(c, "idle")
  /\ \E m \in Models, tools \in BOOLEAN :
       Chat(c, "select", [Idle EXCEPT !.mode = "named", !.model = m, !.tools = tools])
  /\ UNCHANGED <<node, job>>

\* Mutant of NothingSelected: the handler goes on with an empty model.
NothingGoesOn(c) ==
  IF Deferred(req[c].prof) THEN Answer(c, "unsupported") ELSE Goto(c, "create")

\* No model and node was selected, and the tools are gone or were none.
NothingSelected(c) ==
  IF Deferred(req[c].prof) THEN Answer(c, "unsupported") ELSE Goto(c, "pick")

\* The router must find a model that is installed; a BUSY node will do.
ChatOptions(tools) == [present |-> TRUE, tools |-> tools, busy |-> TRUE]

RouteAuto(c) ==
  LET tools == req[c].tools
      S == Route(node, req[c].prof, ChatOptions(tools))
  IN /\ At(c, "route")
     /\ IF S # {} THEN \E s \in S : Choose(c, s[1], s[2], Entry[s[1]].vram, tools)
        ELSE IF tools THEN Goto(c, "retry")
        ELSE NothingSelected(c)
     /\ UNCHANGED <<node, job>>

\* Mutant of RouteWithoutTools: the tools stay in the request.
RouteKeepsTools(c) ==
  LET S == Route(node, req[c].prof, ChatOptions(FALSE))
  IN /\ At(c, "retry")
     /\ IF S # {} THEN \E s \in S : Choose(c, s[1], s[2], Entry[s[1]].vram, TRUE)
        ELSE NothingSelected(c)
     /\ UNCHANGED <<node, job>>

\* Nothing takes tools: drop them, if that finds a model.
RouteWithoutTools(c) ==
  LET S == Route(node, req[c].prof, ChatOptions(FALSE))
  IN /\ At(c, "retry")
     /\ IF S # {} THEN \E s \in S : Choose(c, s[1], s[2], Entry[s[1]].vram, FALSE)
        ELSE NothingSelected(c)
     /\ UNCHANGED <<node, job>>

\* The router has no pair: take some worker and the smallest model it has.
Pick(c) ==
  LET tools == req[c].tools
  IN /\ At(c, "pick")
     /\ \/ Workers = {} /\ Answer(c, "unavailable")
        \/ \E n \in Workers :
             \/ PickFitting(node[n], tools) = {} /\ Answer(c, "unavailable")
             \/ \E m \in PickFitting(node[n], tools) :
                  Choose(c, m, n, CatalogMinVRAM(m), tools)
     /\ UNCHANGED <<node, job>>

\* A named model: the scheduler's own choice of a node.
SelectNamed(c) ==
  LET m == req[c].model
      S == SelectNode(node, Nodes, m, 0, FALSE)
  IN /\ At(c, "select")
     /\ IF req[c].tools /\ m \notin NamedTools THEN Answer(c, "notools")
        ELSE IF S # {} THEN \E n \in S : Choose(c, m, n, 0, req[c].tools)
        ELSE IF \E n \in Nodes : node[n].status = "READY" THEN Answer(c, "notfound")
        ELSE Answer(c, "unavailable")
     /\ UNCHANGED <<node, job>>

-----------------------------------------------------------------------------
(* handleRoute with execute.  A node_id of the request replaces the node   *)
(* the router selected.                                                    *)

ReceiveRoute(c) ==
  /\ At(c, "idle")
  /\ \E p \in Prompts, present \in BOOLEAN, pin \in NodeOrNone :
       req' = [req EXCEPT ![c] = [Idle EXCEPT !.pc = "decide", !.mode = "exec",
                 !.prof = p, !.present = present, !.node = pin]]
  /\ UNCHANGED <<node, job>>

DecideRoute(c) ==
  LET pin == req[c].node
      S == Route(node, req[c].prof,
                 [present |-> req[c].present, tools |-> FALSE, busy |-> FALSE])
  IN /\ At(c, "decide")
     /\ IF S = {} THEN Answer(c, "conflict")
        ELSE \E s \in S :
               Choose(c, s[1], IF pin = NoNode THEN s[2] ELSE pin,
                      Entry[s[1]].vram, FALSE)
     /\ UNCHANGED <<node, job>>

-----------------------------------------------------------------------------
(* The job, for all three kinds of request.                                *)

\* Only the route request passes require_model_present on to the job.
Create(c) ==
  LET r == req[c]
  IN /\ At(c, "create")
     /\ job' = [job EXCEPT ![c] =
                  [NoJob EXCEPT !.status = "queued", !.pref = r.node, !.model = r.model,
                                !.vram = r.vram, !.tools = r.tools,
                                !.present = r.mode = "exec" /\ r.present]]
     /\ Goto(c, "schedule")
     /\ UNCHANGED node

ScheduleNew(c) ==
  /\ At(c, "schedule")
  /\ job' = Scheduled(node, job)
  /\ IF req[c].mode = "exec" THEN Answer(c, "accepted") ELSE Goto(c, "wait")
  /\ UNCHANGED node

\* WaitJob polls; its context may end in the same moment.
WaitDone(c) ==
  /\ At(c, "wait")
  /\ job[c].status \in Terminal
  /\ Answer(c, IF job[c].status = "succeeded" THEN "ok" ELSE "failed")
  /\ UNCHANGED <<node, job>>

WaitTimeout(c) ==
  /\ At(c, "wait")
  /\ Answer(c, "timeout")
  /\ UNCHANGED <<node, job>>

Handle(c) ==
  \/ ReceiveAuto(c) \/ ReceiveNamed(c) \/ ReceiveRoute(c)
  \/ RouteAuto(c) \/ RouteWithoutTools(c) \/ Pick(c) \/ SelectNamed(c) \/ DecideRoute(c)
  \/ Create(c) \/ ScheduleNew(c) \/ WaitDone(c) \/ WaitTimeout(c)

-----------------------------------------------------------------------------
(* The nodes' own requests and the sweeper, one step each.                 *)

Running(n) == {c \in Clients : job[c].node = n /\ job[c].status = "running"}

WithHost(status, h) ==
  [status |-> status, gpus |-> h.gpus, serves |-> h.serves, models |-> h.models]

\* handleJoin, of an agent that has just started.
Join(n) ==
  /\ \E h \in Reports : node' = [node EXCEPT ![n] = WithHost("READY", h)]
  /\ job' = Scheduled(node', FailOn(n, {"running"}))
  /\ UNCHANGED req

\* Mutant of Beat: a heartbeat does not look at the queue.
BeatOnly(n) ==
  /\ node[n].status # "absent"
  /\ \E h \in Reports :
       node' = [node EXCEPT ![n] = WithHost(IF node[n].status = "DRAINING" THEN "DRAINING"
                                            ELSE IF Running(n) # {} THEN "BUSY" ELSE "READY", h)]
  /\ UNCHANGED <<req, job>>

\* handleHeartbeat: a new inventory, and the queue only if the node is READY.
Beat(n) ==
  LET status == IF node[n].status = "DRAINING" THEN "DRAINING"
                ELSE IF Running(n) # {} THEN "BUSY" ELSE "READY"
  IN /\ node[n].status # "absent"
     /\ \E h \in Reports : node' = [node EXCEPT ![n] = WithHost(status, h)]
     /\ job' = IF status = "READY" THEN Scheduled(node', job) ELSE job
     /\ UNCHANGED req

\* handleClaimJob.
Claim(n) ==
  /\ node[n].status = "READY"
  /\ \E c \in Clients :
       /\ job[c].node = n /\ job[c].status = "pending"
       /\ job' = [job EXCEPT ![c].status = "running"]
  /\ node' = [node EXCEPT ![n].status = "BUSY"]
  /\ UNCHANGED req

\* handleJobResult: the node is READY again unless it drains.
Result(n) ==
  /\ node' = [node EXCEPT ![n].status =
                IF @ = "DRAINING" THEN @ ELSE "READY"]
  /\ \E c \in Running(n), s \in Terminal :
       job' = Scheduled(node', [job EXCEPT ![c].status = s])
  /\ UNCHANGED req

\* handleDrain.
Drain(n) ==
  /\ node[n].status \in {"READY", "BUSY", "OFFLINE"}
  /\ node' = [node EXCEPT ![n].status = "DRAINING"]
  /\ UNCHANGED <<req, job>>

\* handleLeave of an idle node.
Leave(n) ==
  /\ node[n].status # "absent"
  /\ node[n].status # "BUSY" /\ Running(n) = {}
  /\ node' = [node EXCEPT ![n] = Gone(n)]
  /\ job' = FailOn(n, {"pending", "running"})
  /\ UNCHANGED req

\* sweepOffline: the heartbeats stopped; a tick always looks at the queue.
Expire(n) ==
  /\ node[n].status \in {"READY", "BUSY", "DRAINING"}
  /\ node' = [node EXCEPT ![n].status = "OFFLINE"]
  /\ job' = Scheduled(node', FailOn(n, {"pending", "running"}))
  /\ UNCHANGED req

Fleet(n) ==
  Join(n) \/ Beat(n) \/ Claim(n) \/ Result(n) \/ Drain(n) \/ Leave(n) \/ Expire(n)

-----------------------------------------------------------------------------
Init ==
  /\ node = [n \in Nodes |-> Gone(n)]
  /\ req = [c \in Clients |-> Idle]
  /\ job = [c \in Clients |-> NoJob]

Next == (\E c \in Clients : Handle(c)) \/ (\E n \in Nodes : Fleet(n))

Spec == Init /\ [][Next]_vars
=============================================================================
