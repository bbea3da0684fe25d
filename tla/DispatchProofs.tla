----------------------------- MODULE DispatchProofs -----------------------------
(***************************************************************************)
(* Proofs about routing and dispatch, for every fleet, catalogue and       *)
(* number of requests.                                                     *)
(***************************************************************************)
EXTENDS DispatchProperties, FiniteSetTheorems, WellFoundedInduction, TLAPS

\* Whatever Route selects is an entry of the catalogue on a node of the
\* registry, and takes tools if tools were asked for.
LEMMA RouteSelects ==
  ASSUME NEW ns, NEW prof, NEW o, NEW s \in Route(ns, prof, o)
  PROVE  s \in Catalog \X Nodes /\ (o.tools => ToolCapable(s[1]))
<1>1. \A p : s \in Top(ns, p, o) => s \in Catalog \X Nodes /\ (o.tools => ToolCapable(s[1]))
  BY DEF Top, Pairs
<1>2. s \in Fallback(ns, o) => s \in Catalog \X Nodes /\ (o.tools => ToolCapable(s[1]))
  BY DEF Fallback, FallbackPairs
<1> QED BY <1>1, <1>2 DEF Route

\* The handler's own pick is a model of the node, and takes tools if they are
\* still asked for (PickFittingModel).
LEMMA PickSelects ==
  ASSUME NEW row, NEW tools, NEW m \in PickFitting(row, tools)
  PROVE  m \in Models /\ (tools => ToolCapable(m))
BY DEF PickFitting, Fitting

\* The memory a job asks for is a number.
LEMMA VramTyped ==
  /\ \A m \in Catalog : Entry[m].vram \in Nat
  /\ \A m \in Models : CatalogMinVRAM(m) \in Nat
BY CatalogAssumption DEF EntryRec, CatalogMinVRAM

\* selectNode answers nodes it was offered.
LEMMA SelectTyped ==
  ASSUME NEW ns, NEW prefs, NEW m, NEW vram, NEW present
  PROVE  SelectNode(ns, prefs, m, vram, present) \subseteq Nodes
BY DEF SelectNode, Takers

\* A job keeps its model and its tools through every status change.
SameWork(js, ks) ==
  \A c \in Clients : /\ js[c].status = "none" <=> ks[c].status = "none"
                     /\ js[c].model = ks[c].model
                     /\ js[c].tools = ks[c].tools

\* tryScheduleQueued keeps types and work.
LEMMA ScheduledTyped ==
  ASSUME NEW ns, NEW js \in [Clients -> Job]
  PROVE  Scheduled(ns, js) \in [Clients -> Job] /\ SameWork(js, Scheduled(ns, js))
<1> SUFFICES ASSUME NEW c \in Clients
    PROVE /\ Scheduled(ns, js)[c] \in Job
          /\ js[c].status = "none" <=> Scheduled(ns, js)[c].status = "none"
          /\ Scheduled(ns, js)[c].model = js[c].model
          /\ Scheduled(ns, js)[c].tools = js[c].tools
  BY DEF Scheduled, SameWork
<1> DEFINE S == Placements(ns, js[c])
<1>1. S # {} => (CHOOSE n \in S : TRUE) \in Nodes
  BY SelectTyped DEF Placements
<1> HIDE DEF S
<1>2. Scheduled(ns, js)[c] = IF js[c].status = "queued" /\ S # {}
        THEN [js[c] EXCEPT !.status = "pending", !.node = CHOOSE n \in S : TRUE]
        ELSE js[c]
  BY DEF Scheduled, S
<1>3. js[c] \in Job
  OBVIOUS
<1>4. CASE js[c].status = "queued" /\ S # {}
  <2>1. Scheduled(ns, js)[c] = [js[c] EXCEPT !.status = "pending", !.node = CHOOSE n \in S : TRUE]
    BY <1>2, <1>4
  <2> QED BY <2>1, <1>1, <1>3, <1>4 DEF Job, JobStatuses, NodeOrNone
<1>5. CASE ~(js[c].status = "queued" /\ S # {})
  BY <1>2, <1>3, <1>5
<1> QED BY <1>4, <1>5

\* Failing the jobs of a node keeps types and work.
LEMMA FailTyped ==
  ASSUME job \in [Clients -> Job], NEW n, NEW statuses, "none" \notin statuses
  PROVE  FailOn(n, statuses) \in [Clients -> Job] /\ SameWork(job, FailOn(n, statuses))
BY DEF FailOn, SameWork, Job, JobStatuses

\* Same work, followed by same work, is same work.
LEMMA SameWorkTrans ==
  ASSUME NEW a, NEW b, NEW d, SameWork(a, b), SameWork(b, d)
  PROVE  SameWork(a, d)
BY DEF SameWork

\* The parts of the invariant that speak of jobs only.
JobInv == /\ job \in [Clients -> Job]
          /\ \A c \in Clients : job[c].status # "none" => job[c].model \in Models
          /\ ToolsReachToolModel

\* Steps that keep every job's work keep those parts.
LEMMA WorkKept ==
  ASSUME JobInv, job' \in [Clients -> Job], SameWork(job, job')
  PROVE  JobInv'
BY DEF JobInv, SameWork, ToolsReachToolModel, ToolCapable, EntryOf

\* The parts that speak of the requests only.
ReqInv == req \in [Clients -> Turn] /\ \A c \in Clients : Chosen(req[c])

\* The parts that speak of the registry only.
NodeInv == node \in [Nodes -> Row]

\* The inductive invariant is the conjunction of its three parts.
LEMMA InvParts == DispatchInv <=> NodeInv /\ ReqInv /\ JobInv
BY DEF DispatchInv, TypeOK, NodeInv, ReqInv, JobInv

-----------------------------------------------------------------------------
(* The requests.                                                           *)

\* Moving on, or answering, keeps the requests well-formed.
LEMMA MoveKeeps ==
  ASSUME ReqInv, NEW c \in Clients, NEW r \in Turn, Chosen(r),
         req' = [req EXCEPT ![c] = r]
  PROVE  ReqInv'
BY DEF ReqInv, Chosen, ToolCapable, EntryOf

\* Every pc that needs no model may follow.
LEMMA GotoKeeps ==
  ASSUME ReqInv, NEW c \in Clients, NEW pc \in Pcs \ {"select", "create"}, Goto(c, pc)
  PROVE  ReqInv'
<1>1. req[c] \in Turn BY DEF ReqInv
<1>2. [req[c] EXCEPT !.pc = pc] \in Turn /\ Chosen([req[c] EXCEPT !.pc = pc])
  BY <1>1 DEF Turn, Chosen
<1>3. req' = [req EXCEPT ![c] = [req[c] EXCEPT !.pc = pc]]
  BY DEF Goto, ReqInv
<1> QED BY <1>2, <1>3, MoveKeeps

\* So may an answer.
LEMMA AnswerKeeps ==
  ASSUME ReqInv, NEW c \in Clients, NEW a \in Answers, Answer(c, a)
  PROVE  ReqInv'
<1>1. req[c] \in Turn BY DEF ReqInv
<1> DEFINE r == [req[c] EXCEPT !.pc = "done", !.answer = a]
<1>2. r \in Turn /\ Chosen(r)
  BY <1>1 DEF Turn, Chosen, Pcs
<1>3. req' = [req EXCEPT ![c] = r]
  BY DEF Answer, ReqInv
<1> QED BY <1>2, <1>3, MoveKeeps

\* So may a choice, of a model that takes the tools it is given.
LEMMA ChooseKeeps ==
  ASSUME ReqInv, NEW c \in Clients, NEW m \in Models, NEW n \in NodeOrNone,
         NEW vram \in Nat, NEW tools \in BOOLEAN, tools => ToolCapable(m),
         Choose(c, m, n, vram, tools)
  PROVE  ReqInv'
<1>1. req[c] \in Turn BY DEF ReqInv
<1> DEFINE r == [req[c] EXCEPT !.pc = "create", !.model = m, !.node = n,
                               !.vram = vram, !.tools = tools]
<1>2. r \in Turn
  BY <1>1 DEF Turn, Pcs, ModelOrNone
<1>3. Chosen(r)
  BY <1>1 DEF Turn, Chosen
<1>4. req' = [req EXCEPT ![c] = r]
  BY DEF Choose, ReqInv
<1> HIDE DEF r
<1> QED BY <1>2, <1>3, <1>4, MoveKeeps

\* The body of a request that has just arrived.
LEMMA IdleTyped == Idle \in Turn /\ NoJob \in Job /\ Prompts \subseteq Profile
<1>1. Plain \in Profile BY DEF Plain, Profile, Caps, Tiers
<1>2. Analyzed \subseteq Profile BY DEF Analyzed, Profile, Caps, Tiers, Visual
<1> QED BY <1>1, <1>2, PromptsAssumption DEF Idle, NoJob, Turn, Job, Pcs, Modes, Answers,
      JobStatuses, ModelOrNone, NodeOrNone

\* A selected pair may be chosen.
LEMMA RoutedKeeps ==
  ASSUME ReqInv, NEW c \in Clients, NEW prof, NEW o, NEW s \in Route(node, prof, o),
         NEW n \in NodeOrNone, NEW tools \in BOOLEAN, tools => o.tools,
         Choose(c, s[1], n, Entry[s[1]].vram, tools)
  PROVE  ReqInv'
<1>1. s[1] \in Catalog /\ (o.tools => ToolCapable(s[1])) BY RouteSelects
<1>2. s[1] \in Models /\ Entry[s[1]].vram \in Nat BY <1>1, VramTyped, CatalogAssumption
<1> QED BY <1>1, <1>2, ChooseKeeps

\* Every step of a handler keeps the requests well-formed.
LEMMA HandleReq ==
  ASSUME ReqInv, NEW c \in Clients, Handle(c)
  PROVE  ReqInv'
<1>0. req[c] \in Turn BY DEF ReqInv
<1>1. ASSUME NEW turn \in Turn, NEW start \in {"route", "select"}, Chat(c, start, turn),
             start = "select" => turn.model \in Models
      PROVE  ReqInv'
  <2>1. [turn EXCEPT !.pc = start] \in Turn /\ Chosen([turn EXCEPT !.pc = start])
    BY <1>1 DEF Turn, Pcs, Chosen
  <2>2. [turn EXCEPT !.pc = "done", !.answer = "local"] \in Turn
        /\ Chosen([turn EXCEPT !.pc = "done", !.answer = "local"])
    BY DEF Turn, Pcs, Chosen, Answers
  <2> QED BY <1>1, <2>1, <2>2, MoveKeeps DEF Chat
<1>2. ASSUME NothingSelected(c) PROVE ReqInv'
  BY <1>2, AnswerKeeps, GotoKeeps DEF NothingSelected, Answers, Pcs
<1>3. CASE ReceiveAuto(c)
  <2>1. PICK p \in Prompts, tools \in BOOLEAN :
          Chat(c, "route", [Idle EXCEPT !.mode = "auto", !.prof = p, !.tools = tools,
                                        !.present = TRUE])
    BY <1>3 DEF ReceiveAuto
  <2>2. [Idle EXCEPT !.mode = "auto", !.prof = p, !.tools = tools, !.present = TRUE] \in Turn
    BY IdleTyped DEF Turn, Modes
  <2> QED BY <2>1, <2>2, <1>1
<1>4. CASE ReceiveNamed(c)
  <2>1. PICK m \in Models, tools \in BOOLEAN :
          Chat(c, "select", [Idle EXCEPT !.mode = "named", !.model = m, !.tools = tools])
    BY <1>4 DEF ReceiveNamed
  <2>2. [Idle EXCEPT !.mode = "named", !.model = m, !.tools = tools] \in Turn
    BY IdleTyped DEF Turn, Modes, ModelOrNone
  <2>3. [Idle EXCEPT !.mode = "named", !.model = m, !.tools = tools].model \in Models
    BY DEF Idle
  <2> QED BY <2>1, <2>2, <2>3, <1>1
<1>5. CASE ReceiveRoute(c)
  <2>1. PICK p \in Prompts, present \in BOOLEAN, pin \in NodeOrNone :
          req' = [req EXCEPT ![c] = [Idle EXCEPT !.pc = "decide", !.mode = "exec",
                    !.prof = p, !.present = present, !.node = pin]]
    BY <1>5 DEF ReceiveRoute
  <2> DEFINE r == [Idle EXCEPT !.pc = "decide", !.mode = "exec",
                    !.prof = p, !.present = present, !.node = pin]
  <2>2. r \in Turn
    BY IdleTyped DEF Turn, Modes, Pcs
  <2>3. Chosen(r) BY DEF Chosen, Idle
  <2> HIDE DEF r
  <2> QED BY <2>1, <2>2, <2>3, MoveKeeps DEF r
<1>6. CASE RouteAuto(c)
  <2> DEFINE tools == req[c].tools
             S == Route(node, req[c].prof, ChatOptions(tools))
  <2>1. CASE S # {}
    <3>1. PICK s \in S : Choose(c, s[1], s[2], Entry[s[1]].vram, tools)
      BY <1>6, <2>1 DEF RouteAuto
    <3>2. s[2] \in NodeOrNone BY RouteSelects DEF NodeOrNone
    <3>3. tools \in BOOLEAN /\ (tools => ChatOptions(tools).tools)
      BY <1>0 DEF Turn, ChatOptions
    <3> QED BY <3>1, <3>2, <3>3, RoutedKeeps
  <2>2. CASE S = {}
    <3>1. Goto(c, "retry") \/ NothingSelected(c) BY <1>6, <2>2 DEF RouteAuto
    <3> QED BY <3>1, <1>2, GotoKeeps DEF Pcs
  <2> QED BY <2>1, <2>2
<1>7. CASE RouteWithoutTools(c)
  <2> DEFINE S == Route(node, req[c].prof, ChatOptions(FALSE))
  <2>1. CASE S # {}
    <3>1. PICK s \in S : Choose(c, s[1], s[2], Entry[s[1]].vram, FALSE)
      BY <1>7, <2>1 DEF RouteWithoutTools
    <3>2. s \in Catalog \X Nodes BY RouteSelects
    <3>3. s[2] \in NodeOrNone BY <3>2 DEF NodeOrNone
    <3> QED BY <3>1, <3>3, RoutedKeeps
  <2>2. CASE S = {}
    BY <1>7, <2>2, <1>2 DEF RouteWithoutTools
  <2> QED BY <2>1, <2>2
<1>8. CASE Pick(c)
  <2> DEFINE tools == req[c].tools
  <2>1. CASE Answer(c, "unavailable") BY <2>1, AnswerKeeps DEF Answers
  <2>2. ASSUME NEW n \in Workers, NEW m \in PickFitting(node[n], tools),
               Choose(c, m, n, CatalogMinVRAM(m), tools)
        PROVE  ReqInv'
    <3>1. m \in Models /\ (tools => ToolCapable(m)) BY PickSelects
    <3>2. n \in NodeOrNone /\ tools \in BOOLEAN BY <1>0 DEF Workers, NodeOrNone, Turn
    <3>3. CatalogMinVRAM(m) \in Nat BY <3>1, VramTyped
    <3> QED BY <2>2, <3>1, <3>2, <3>3, ChooseKeeps
  <2> QED BY <1>8, <2>1, <2>2 DEF Pick
<1>9. CASE SelectNamed(c)
  <2> DEFINE m == req[c].model
             S == SelectNode(node, Nodes, m, 0, FALSE)
  <2>1. CASE \E a \in Answers : Answer(c, a) BY <2>1, AnswerKeeps
  <2>2. ASSUME NEW n \in S, Choose(c, m, n, 0, req[c].tools), req[c].tools => m \in NamedTools
        PROVE  ReqInv'
    <3>1. m \in Models /\ req[c].tools \in BOOLEAN
      BY <1>0, <1>9 DEF ReqInv, Chosen, SelectNamed, At, Turn
    <3>2. n \in NodeOrNone BY SelectTyped DEF NodeOrNone
    <3>3. req[c].tools => ToolCapable(m) BY <2>2 DEF ToolCapable
    <3> QED BY <2>2, <3>1, <3>2, <3>3, ChooseKeeps
  <2> QED BY <1>9, <2>1, <2>2 DEF SelectNamed, Answers
<1>10. CASE DecideRoute(c)
  <2> DEFINE pin == req[c].node
             o == [present |-> req[c].present, tools |-> FALSE, busy |-> FALSE]
             S == Route(node, req[c].prof, o)
  <2>1. CASE S = {}
    <3>1. Answer(c, "conflict") BY <1>10, <2>1 DEF DecideRoute
    <3> QED BY <3>1, AnswerKeeps DEF Answers
  <2>2. CASE S # {}
    <3>1. PICK s \in S : Choose(c, s[1], IF pin = NoNode THEN s[2] ELSE pin,
                                Entry[s[1]].vram, FALSE)
      BY <1>10, <2>2 DEF DecideRoute
    <3>2. s \in Catalog \X Nodes BY RouteSelects
    <3>3. (IF pin = NoNode THEN s[2] ELSE pin) \in NodeOrNone
      BY <1>0, <3>2 DEF Turn, NodeOrNone
    <3> QED BY <3>1, <3>3, RoutedKeeps
  <2> QED BY <2>1, <2>2
<1>11. CASE Create(c)
  BY <1>11, GotoKeeps DEF Create, Pcs
<1>12. CASE ScheduleNew(c)
  BY <1>12, GotoKeeps, AnswerKeeps DEF ScheduleNew, Pcs, Answers
<1>13. CASE WaitDone(c)
  BY <1>13, AnswerKeeps DEF WaitDone, Answers
<1>14. CASE WaitTimeout(c)
  BY <1>14, AnswerKeeps DEF WaitTimeout, Answers
<1> QED
  BY <1>3, <1>4, <1>5, <1>6, <1>7, <1>8, <1>9, <1>10, <1>11, <1>12, <1>13, <1>14 DEF Handle

-----------------------------------------------------------------------------
(* The jobs and the registry.                                              *)

\* A handler creates a job from a choice, and otherwise only schedules.
LEMMA HandleJob ==
  ASSUME ReqInv, JobInv, NEW c \in Clients, Handle(c)
  PROVE  JobInv' /\ UNCHANGED node
<1>1. CASE Create(c)
  <2> DEFINE r == req[c]
             j == [NoJob EXCEPT !.status = "queued", !.pref = r.node, !.model = r.model,
                                !.vram = r.vram, !.tools = r.tools,
                                !.present = r.mode = "exec" /\ r.present]
  <2>1. job' = [job EXCEPT ![c] = j] /\ UNCHANGED node
    BY <1>1 DEF Create
  <2>2. r \in Turn /\ r.model \in Models /\ (r.tools => ToolCapable(r.model))
    BY <1>1 DEF ReqInv, Chosen, Create, At
  <2>3. j \in Job /\ j.model = r.model /\ j.tools = r.tools
    BY <2>2, IdleTyped DEF Turn, Job, JobStatuses, NoJob
  <2> HIDE DEF j
  <2>4. job' \in [Clients -> Job]
    BY <2>1, <2>3 DEF JobInv
  <2>5. \A d \in Clients : job'[d].status # "none" =>
          job'[d].model \in Models /\ (job'[d].tools => ToolCapable(job'[d].model))
    BY <2>1, <2>2, <2>3 DEF JobInv, ToolsReachToolModel
  <2> QED BY <2>1, <2>4, <2>5 DEF JobInv, ToolsReachToolModel, ToolCapable, EntryOf
<1>2. CASE ScheduleNew(c)
  BY <1>2, ScheduledTyped, WorkKept DEF ScheduleNew, JobInv
<1>3. CASE ~Create(c) /\ ~ScheduleNew(c)
  <2>1. UNCHANGED <<node, job>>
    BY <1>3 DEF Handle, ReceiveAuto, ReceiveNamed, ReceiveRoute, RouteAuto, RouteWithoutTools,
         Pick, SelectNamed, DecideRoute, WaitDone, WaitTimeout
  <2> QED BY <2>1 DEF JobInv, ToolsReachToolModel, ToolCapable, EntryOf
<1> QED BY <1>1, <1>2, <1>3

\* A row with a host's report is a row.
LEMMA HostTyped ==
  ASSUME NEW h \in Reports, NEW status \in Statuses
  PROVE  WithHost(status, h) \in Row
BY ReportsAssumption DEF WithHost, Host, Row

\* The nodes' requests and the sweeper keep every job's work.
LEMMA FleetJob ==
  ASSUME NodeInv, JobInv, NEW n \in Nodes, Fleet(n)
  PROVE  NodeInv' /\ JobInv' /\ UNCHANGED req
<1>0. node[n] \in Row /\ job \in [Clients -> Job] BY DEF NodeInv, JobInv
<1>1. ASSUME NEW h \in Reports, NEW status \in Statuses,
             node' = [node EXCEPT ![n] = WithHost(status, h)]
      PROVE  NodeInv'
  BY <1>1, HostTyped DEF NodeInv
<1>2. ASSUME NEW status \in Statuses, node' = [node EXCEPT ![n].status = status]
      PROVE  NodeInv'
  BY <1>2, <1>0 DEF NodeInv, Row
<1>3. ASSUME NEW js \in [Clients -> Job], SameWork(job, js), job' = Scheduled(node', js)
      PROVE  JobInv'
  BY <1>3, ScheduledTyped, SameWorkTrans, WorkKept
<1>4. CASE Join(n)
  <2>1. NodeInv' BY <1>4, <1>1 DEF Join, Statuses
  <2>2. FailOn(n, {"running"}) \in [Clients -> Job] /\ SameWork(job, FailOn(n, {"running"}))
    BY <1>0, FailTyped
  <2> QED BY <1>4, <2>1, <2>2, <1>3 DEF Join
<1>5. CASE Beat(n)
  <2> DEFINE status == IF node[n].status = "DRAINING" THEN "DRAINING"
                       ELSE IF Running(n) # {} THEN "BUSY" ELSE "READY"
  <2>1. status \in Statuses BY DEF Statuses
  <2>2. NodeInv' BY <1>5, <2>1, <1>1 DEF Beat
  <2>3. SameWork(job, job) BY DEF SameWork
  <2>4. job' = Scheduled(node', job) \/ job' = job BY <1>5 DEF Beat
  <2>5. JobInv' BY <2>3, <2>4, <1>0, <1>3, WorkKept
  <2> QED BY <1>5, <2>2, <2>5 DEF Beat
<1>6. CASE Claim(n)
  <2>1. NodeInv' BY <1>6, <1>2 DEF Claim, Statuses
  <2>2. job' \in [Clients -> Job] /\ SameWork(job, job')
    BY <1>6, <1>0 DEF Claim, SameWork, Job, JobStatuses
  <2> QED BY <1>6, <2>1, <2>2, WorkKept DEF Claim
<1>7. CASE Result(n)
  <2>1. NodeInv'
    BY <1>7, <1>0, <1>2 DEF Result, Statuses
  <2>2. PICK c \in Running(n), s \in Terminal :
          job' = Scheduled(node', [job EXCEPT ![c].status = s])
    BY <1>7 DEF Result
  <2>3. [job EXCEPT ![c].status = s] \in [Clients -> Job]
        /\ SameWork(job, [job EXCEPT ![c].status = s])
    BY <1>0 DEF Running, Terminal, SameWork, Job, JobStatuses
  <2> QED BY <1>7, <2>1, <2>2, <2>3, <1>3 DEF Result
<1>8. CASE Drain(n)
  <2>1. NodeInv' BY <1>8, <1>2 DEF Drain, Statuses
  <2>2. JobInv' BY <1>8 DEF Drain, JobInv, ToolsReachToolModel, ToolCapable, EntryOf
  <2> QED BY <1>8, <2>1, <2>2 DEF Drain
<1>9. CASE Leave(n)
  <2>1. Gone(n) \in Row BY DEF Gone, Row, Statuses, Presence
  <2>2. NodeInv' BY <1>9, <2>1 DEF Leave, NodeInv
  <2>3. job' \in [Clients -> Job] /\ SameWork(job, job')
    BY <1>9, <1>0, FailTyped DEF Leave
  <2> QED BY <1>9, <2>2, <2>3, WorkKept DEF Leave
<1>10. CASE Expire(n)
  <2>1. NodeInv' BY <1>10, <1>2 DEF Expire, Statuses
  <2>2. FailOn(n, {"pending", "running"}) \in [Clients -> Job]
        /\ SameWork(job, FailOn(n, {"pending", "running"}))
    BY <1>0, FailTyped
  <2> QED BY <1>10, <2>1, <2>2, <1>3 DEF Expire
<1> QED BY <1>4, <1>5, <1>6, <1>7, <1>8, <1>9, <1>10 DEF Fleet

-----------------------------------------------------------------------------
\* DispatchInv holds in every reachable state: types, and the handlers' locals
\* between the choice of a model and Create.
THEOREM DispatchInductive == Spec => []DispatchInv
<1>1. Init => DispatchInv
  <2> SUFFICES ASSUME Init PROVE DispatchInv OBVIOUS
  <2>1. NodeInv
    BY DEF Init, NodeInv, Gone, Row, Statuses, Presence
  <2>2. ReqInv
    BY IdleTyped DEF Init, ReqInv, Chosen, Idle
  <2>3. JobInv
    BY IdleTyped DEF Init, JobInv, ToolsReachToolModel, NoJob
  <2> QED BY <2>1, <2>2, <2>3, InvParts
<1>2. DispatchInv /\ [Next]_vars => DispatchInv'
  <2> SUFFICES ASSUME NodeInv, ReqInv, JobInv, [Next]_vars
      PROVE NodeInv' /\ ReqInv' /\ JobInv'
    BY DEF DispatchInv, TypeOK, NodeInv, ReqInv, JobInv
  <2>1. ASSUME NEW c \in Clients, Handle(c) PROVE NodeInv' /\ ReqInv' /\ JobInv'
    BY <2>1, HandleReq, HandleJob DEF NodeInv
  <2>2. ASSUME NEW n \in Nodes, Fleet(n) PROVE NodeInv' /\ ReqInv' /\ JobInv'
    BY <2>2, FleetJob DEF ReqInv, Chosen, ToolCapable, EntryOf
  <2>3. CASE UNCHANGED vars
    BY <2>3 DEF vars, NodeInv, ReqInv, JobInv, ToolsReachToolModel, Chosen, ToolCapable, EntryOf
  <2> QED BY <2>1, <2>2, <2>3 DEF Next
<1> QED BY <1>1, <1>2, PTL DEF Spec

\* Every variable keeps its type, and every job names a model (openai_chat.go,
\* server.go handleRoute).
THEOREM DispatchTypes == Spec => []TypeOK
<1>1. DispatchInv => TypeOK BY DEF DispatchInv
<1> QED BY <1>1, DispatchInductive, PTL

\* However its model was found, a job that carries tools runs a model that takes
\* them (handleChatCompletions, Route, PickFittingModel).
THEOREM ToolsKept == Spec => []ToolsReachToolModel
<1>1. DispatchInv => ToolsReachToolModel BY DEF DispatchInv
<1> QED BY <1>1, DispatchInductive, PTL

-----------------------------------------------------------------------------
(* What the two programs agree on, and right-sizing: both follow from the  *)
(* types alone, whatever the registry says.                                *)

\* The memory the router sees on the first GPU is memory the scheduler sees.
LEMMA GateFits ==
  ASSUME NEW row \in Row, NEW m \in Catalog, VRAMGate(m, row), SeesFreeMemory(row),
         row.status = "READY", row.serves, NEW present, present => HasModel(row, m)
  PROVE  Fits(row, m, Entry[m].vram, present)
<1> DEFINE g == row.gpus[1]
<1>1. row.gpus \in Seq(GPU) /\ row.gpus # <<>> BY DEF Row, SeesFreeMemory
<1>2. 1 \in DOMAIN row.gpus /\ g \in GPU BY <1>1
<1>3. g.total \in Nat /\ g.used \in Nat BY <1>2 DEF GPU
<1>4. Free(g) > 0 BY DEF SeesFreeMemory
<1>5. FitVRAM(g) = Free(g) /\ RoutableVRAM(row) = Free(g)
  BY <1>1, <1>3, <1>4 DEF FitVRAM, Free, RoutableVRAM
<1>6. Entry[m].vram \in Nat BY VramTyped
<1>7. Entry[m].vram > 0 => FitVRAM(g) >= Entry[m].vram
  BY <1>4, <1>5, <1>6 DEF VRAMGate
<1> QED BY <1>1, <1>2, <1>7 DEF Fits

\* For every fleet and catalogue, the router's best pair on a READY node is one
\* the scheduler would place there at once (scorePair, nodesToViews, Fits).
THEOREM RouterSchedulerAgree == Spec => []RouterAgreesWithScheduler
<1>1. NodeInv => RouterAgreesWithScheduler
  <2> SUFFICES ASSUME NodeInv, NEW p \in Prompts, NEW o \in Options, NEW s \in Top(node, p, o),
                      node[s[2]].status = "READY", SeesFreeMemory(node[s[2]])
               PROVE  Fits(node[s[2]], s[1], Entry[s[1]].vram, o.present)
    BY DEF RouterAgreesWithScheduler
  <2>1. /\ s \in Catalog \X Nodes
        /\ node[s[2]].serves
        /\ VRAMGate(s[1], node[s[2]])
        /\ o.present => HasModel(node[s[2]], s[1])
    BY DEF Top, Pairs
  <2>2. s[1] \in Catalog /\ node[s[2]] \in Row BY <2>1 DEF NodeInv
  <2> QED BY <2>1, <2>2, GateFits
<1>2. DispatchInv => NodeInv BY InvParts
<1> QED BY <1>1, <1>2, DispatchInductive, PTL

\* Four things are finitely many.
LEMMA FourFinite ==
  ASSUME NEW w, NEW x, NEW y, NEW z
  PROVE  IsFiniteSet({w, x, y, z})
<1>1. IsFiniteSet({w}) /\ IsFiniteSet({x}) /\ IsFiniteSet({y}) /\ IsFiniteSet({z})
  BY FS_Singleton
<1>2. IsFiniteSet({w} \cup {x}) /\ IsFiniteSet({y} \cup {z})
  BY <1>1, FS_Union
<1>3. IsFiniteSet(({w} \cup {x}) \cup ({y} \cup {z}))
  BY <1>2, FS_Union
<1>4. {w, x, y, z} = ({w} \cup {x}) \cup ({y} \cup {z})
  OBVIOUS
<1> QED BY <1>3, <1>4

\* So are the capabilities.
LEMMA CapsFinite == IsFiniteSet(Caps)
<1> DEFINE L == {"chat", "code", "reasoning", "simple"}
           R == {"tools", "vision", "ocr", "document"}
<1>1. IsFiniteSet(L) /\ IsFiniteSet(R) BY FourFinite
<1>2. Caps = L \cup R BY DEF Caps
<1> HIDE DEF L, R
<1> QED BY <1>1, <1>2, FS_Union

\* A pair whose model offers no more gets no more points for what it offers.
LEMMA CapScoreMonotone ==
  ASSUME NEW a \in Catalog, NEW b \in Catalog, NEW p \in Profile, NEW o \in Options,
         Offers(a, p) \subseteq Offers(b, p), ToolCapable(a) => ToolCapable(b)
  PROVE  /\ CapScore(a, p, o) \in Int
         /\ CapScore(b, p, o) \in Int
         /\ CapScore(a, p, o) <= CapScore(b, p, o)
<1> DEFINE A == p.caps \cap Entry[a].caps
           B == p.caps \cap Entry[b].caps
<1>1. A \subseteq B BY DEF Offers
<1>2. IsFiniteSet(Caps) BY CapsFinite
<1>3. B \subseteq Caps BY DEF Profile
<1>4. IsFiniteSet(B) BY <1>2, <1>3, FS_Subset
<1>5. /\ Cardinality(A) \in Nat /\ Cardinality(B) \in Nat
      /\ Cardinality(A) <= Cardinality(B)
  BY <1>1, <1>4, FS_Subset, FS_CardinalityType
<1>6. "code" \in Entry[a].caps => "code" \in Entry[b].caps BY DEF Offers
<1>7. "simple" \in Entry[a].caps => "simple" \in Entry[b].caps BY DEF Offers
<1> HIDE DEF A, B
<1> DEFINE code(m) == Points(p.modality = "code" /\ "code" \in Entry[m].caps, 25)
           simple(m) == Points(p.tier = 1 /\ "simple" \in Entry[m].caps, 20)
           tools(m) == Points(o.tools /\ ToolCapable(m), 35)
<1>8. \A m : code(m) \in Nat /\ simple(m) \in Nat /\ tools(m) \in Nat BY DEF Points
<1>9. code(a) <= code(b) BY <1>6 DEF Points
<1>10. simple(a) <= simple(b) BY <1>7 DEF Points
<1>11. tools(a) <= tools(b) BY DEF Points
<1>12. /\ CapScore(a, p, o) = 12 * Cardinality(A) + code(a) + simple(a) + tools(a)
       /\ CapScore(b, p, o) = 12 * Cardinality(B) + code(b) + simple(b) + tools(b)
  BY DEF CapScore, A, B
<1> HIDE DEF code, simple, tools
<1> QED BY <1>5, <1>8, <1>9, <1>10, <1>11, <1>12

\* What a pair gets for tier, presence and load: at least 55 for an installed
\* model of the exact tier, at most 40 for a larger one, loaded or not.
HostPart(c, ns, p) ==
  LET diff == Entry[c[1]].tier - p.tier
  IN TierScore(diff) + HostScore(diff, c[1], ns[c[2]])

Busy(row) == Points(row.status = "BUSY", 50)

LEMMA HostPartBounds ==
  ASSUME NEW ns, NEW c \in Catalog \X Nodes, NEW p \in Profile
  PROVE  /\ HostPart(c, ns, p) \in Int
         /\ Entry[c[1]].tier = p.tier /\ HasModel(ns[c[2]], c[1])
              => HostPart(c, ns, p) >= 55 - Busy(ns[c[2]])
         /\ Entry[c[1]].tier > p.tier => HostPart(c, ns, p) <= 40 - Busy(ns[c[2]])
<1> DEFINE diff == Entry[c[1]].tier - p.tier
           row == ns[c[2]]
<1>1. Entry[c[1]].tier \in 1..3 /\ p.tier \in 1..3
  BY CatalogAssumption DEF EntryRec, Profile, Tiers
<1>2. diff \in Int /\ (Entry[c[1]].tier > p.tier => diff \in {1, 2})
      /\ (Entry[c[1]].tier = p.tier => diff = 0)
  BY <1>1
<1>3. Busy(row) \in {0, 50} BY DEF Busy, Points
<1>4. HostPart(c, ns, p) = TierScore(diff) + HostScore(diff, c[1], row)
  BY DEF HostPart
<1> HIDE DEF diff, row
<1>5. TierScore(diff) \in Int /\ (diff = 0 => TierScore(diff) = 40)
      /\ (diff = 1 => TierScore(diff) = 15) /\ (diff = 2 => TierScore(diff) = 5)
  BY DEF TierScore
<1>6. Warmth(diff) \in Int /\ (diff = 0 => Warmth(diff) = 80)
      /\ (diff = 1 => Warmth(diff) = 25) /\ (diff = 2 => Warmth(diff) = 15)
  BY <1>2 DEF Warmth
<1> DEFINE hand == IF IsLoaded(row, c[1]) THEN Warmth(diff)
                   ELSE IF HasModel(row, c[1]) THEN 15 ELSE -5
<1>7. HostScore(diff, c[1], row) = hand - Busy(row)
  BY DEF HostScore, Busy
<1>8. hand \in Int /\ (diff = 0 /\ HasModel(row, c[1]) => hand >= 15)
      /\ (diff = 1 => hand <= 25) /\ (diff = 2 => hand <= 15)
  BY <1>6
<1> HIDE DEF hand
<1>9. HostPart(c, ns, p) = TierScore(diff) + hand - Busy(row)
  BY <1>3, <1>4, <1>5, <1>7, <1>8
<1>10. HostPart(c, ns, p) \in Int
  BY <1>3, <1>5, <1>8, <1>9
<1>11. diff = 0 /\ HasModel(row, c[1]) => HostPart(c, ns, p) >= 55 - Busy(row)
  BY <1>3, <1>5, <1>8, <1>9
<1>12. diff \in {1, 2} => HostPart(c, ns, p) <= 40 - Busy(row)
  BY <1>3, <1>5, <1>8, <1>9
<1> QED BY <1>2, <1>10, <1>11, <1>12 DEF row

\* For every fleet and catalogue: a larger model that offers nothing more never
\* outbids an installed one of the exact tier, however warm it is, unless its
\* entry's priority is higher by the edge (scorePair).
THEOREM RightSizing == Spec => []RightSized
<1>1. RightSized
  <2> SUFFICES ASSUME NEW p \in Prompts, NEW o \in Options,
                      NEW a \in Top(node, p, o), NEW b \in Pairs(node, p, o),
                      Entry[a[1]].prio < Entry[b[1]].prio + Edge,
                      Oversized(a, b, p, node)
               PROVE  FALSE
    BY DEF RightSized
  <2>1. a \in Catalog \X Nodes /\ b \in Catalog \X Nodes /\ ~Beats(b, a, node, p, o)
    BY DEF Top, Pairs
  <2>2. a[1] \in Catalog /\ b[1] \in Catalog /\ p \in Profile
    BY <2>1, IdleTyped
  <2>3. Entry[a[1]].prio \in Nat /\ Entry[b[1]].prio \in Nat
    BY <2>2, CatalogAssumption DEF EntryRec
  <2>4. /\ CapScore(a[1], p, o) \in Int /\ CapScore(b[1], p, o) \in Int
        /\ CapScore(a[1], p, o) <= CapScore(b[1], p, o)
    BY <2>2, CapScoreMonotone DEF Oversized
  <2>5. Busy(node[b[2]]) <= Busy(node[a[2]])
        /\ Busy(node[a[2]]) \in Int /\ Busy(node[b[2]]) \in Int
    BY DEF Oversized, Busy, Points
  <2>6. HostPart(b, node, p) >= 55 - Busy(node[b[2]]) /\ HostPart(b, node, p) \in Int
    BY <2>1, <2>2, HostPartBounds DEF Oversized
  <2>7. HostPart(a, node, p) <= 40 - Busy(node[a[2]]) /\ HostPart(a, node, p) \in Int
    BY <2>1, <2>2, HostPartBounds DEF Oversized
  <2>8. /\ Score(a, node, p, o) = HostPart(a, node, p) + CapScore(a[1], p, o) + Entry[a[1]].prio
        /\ Score(b, node, p, o) = HostPart(b, node, p) + CapScore(b[1], p, o) + Entry[b[1]].prio
    BY DEF Score, HostPart
  <2>9. Score(b, node, p, o) > Score(a, node, p, o)
    BY <2>3, <2>4, <2>5, <2>6, <2>7, <2>8 DEF Edge
  <2> QED BY <2>1, <2>9 DEF Beats
<1> QED BY <1>1, PTL

-----------------------------------------------------------------------------
(* A job waits for a reason.  selectNode answers only with the best of the *)
(* nodes that fit, and the best of some is there only because scores and   *)
(* node ids are numbers.                                                   *)

\* Some number of every set of numbers is the least.
LEMMA LeastNumber ==
  ASSUME NEW S \in SUBSET Nat, S # {}
  PROVE  \E n \in S : \A k \in S : n <= k
<1> DEFINE R == {ss \in Nat \X Nat : ss[1] < ss[2]}
<1>1. IsWellFoundedOn(R, Nat)
  BY NatLessThanWellFounded DEF OpToRel
<1>2. \A k, n \in S : <<k, n>> \notin R => n <= k
  OBVIOUS
<1> HIDE DEF R
<1>3. \E n \in S : \A k \in S : <<k, n>> \notin R
  BY <1>1, WFMin
<1> QED BY <1>2, <1>3

\* selectNode finds a node whenever one fits: the highest score, then the lowest
\* id, is attained.
LEMMA SomeoneIsBest ==
  ASSUME NEW ns, NEW prefs, NEW m, NEW vram, NEW present,
         SelectNode(ns, prefs, m, vram, present) = {}
  PROVE  Takers(ns, prefs, m, vram, present) = {}
<1> DEFINE S == Takers(ns, prefs, m, vram, present)
           short(n) == 110 - ModelScore(ns[n], m)
<1> SUFFICES ASSUME S # {} PROVE FALSE
  OBVIOUS
<1>1. S \subseteq Nat
  BY NodesAssumption DEF Takers
<1>2. \A n : ModelScore(ns[n], m) \in {0, 10, 50, 60, 100, 110}
  BY DEF ModelScore, Points
<1>3. \A n : short(n) \in Nat
  BY <1>2
<1>4. \A n, k : short(n) <= short(k) =>
        \/ ModelScore(ns[n], m) > ModelScore(ns[k], m)
        \/ ModelScore(ns[n], m) = ModelScore(ns[k], m) /\ short(n) = short(k)
  BY <1>2
<1>5. \A n \in S : \E k \in S : ~ \/ ModelScore(ns[n], m) > ModelScore(ns[k], m)
                                  \/ ModelScore(ns[n], m) = ModelScore(ns[k], m) /\ n <= k
  BY DEF SelectNode
<1> HIDE DEF S, short
<1> DEFINE shorts == {short(n) : n \in S}
<1>6. PICK least \in shorts : \A k \in shorts : least <= k
  <2>1. shorts \in SUBSET Nat /\ shorts # {}
    BY <1>3
  <2> HIDE DEF shorts
  <2> QED BY <2>1, LeastNumber
<1> DEFINE tops == {n \in S : short(n) = least}
<1>7. PICK n \in tops : \A k \in tops : n <= k
  <2>1. tops \in SUBSET Nat /\ tops # {}
    BY <1>1
  <2> HIDE DEF tops
  <2> QED BY <2>1, LeastNumber
<1>8. \A k \in S : short(n) <= short(k) /\ (short(k) = short(n) => n <= k)
  BY <1>6, <1>7
<1> QED BY <1>4, <1>5, <1>7, <1>8

\* tryScheduleQueued leaves in the queue only what no node can take.
LEMMA ScheduledClears ==
  ASSUME NEW ns, NEW js \in [Clients -> Job], NEW c \in Clients,
         Scheduled(ns, js)[c].status = "queued"
  PROVE  Placements(ns, Scheduled(ns, js)[c]) = {}
<1> DEFINE S == Placements(ns, js[c])
<1>1. Scheduled(ns, js)[c] = IF js[c].status = "queued" /\ S # {}
        THEN [js[c] EXCEPT !.status = "pending", !.node = CHOOSE n \in S : TRUE]
        ELSE js[c]
  BY DEF Scheduled
<1>2. js[c] \in Job
  OBVIOUS
<1> HIDE DEF S
<1>3. CASE js[c].status = "queued" /\ S # {}
  BY <1>1, <1>2, <1>3 DEF Job
<1>4. CASE ~(js[c].status = "queued" /\ S # {})
  BY <1>1, <1>4 DEF S
<1> QED BY <1>3, <1>4

\* A node that is not READY takes nothing; the others stay as they were.
LEMMA FewerTake ==
  ASSUME NEW n, \A m \in Nodes \ {n} : node'[m] = node[m],
         n \in Nodes => node'[n].status # "READY",
         NEW j, Placements(node, j) = {}
  PROVE  Placements(node', j) = {}
<1>1. Takers(node, Prefs(j), j.model, j.vram, j.present) = {}
  BY SomeoneIsBest DEF Placements
<1>2. Takers(node', Prefs(j), j.model, j.vram, j.present) = {}
  BY <1>1 DEF Takers, Fits
<1> QED BY <1>2 DEF Placements, SelectNode

\* QueuedForAReason of one job.
Waits(ns, r, j) == j.status = "queued" /\ r.pc # "schedule" => Placements(ns, j) = {}

\* A step of a handler keeps it: only Create adds to the queue, and the handler
\* goes on to tryScheduleQueued.
LEMMA HandleWaits ==
  ASSUME job \in [Clients -> Job], req \in [Clients -> Turn], NEW c \in Clients, Handle(c),
         NEW d \in Clients, Waits(node, req[d], job[d])
  PROVE  Waits(node', req'[d], job'[d])
<1>1. CASE Create(c)
  <2>1. node' = node /\ (d # c => req'[d] = req[d] /\ job'[d] = job[d])
    BY <1>1 DEF Create, Goto
  <2>2. d = c => req'[d].pc = "schedule"
    BY <1>1 DEF Create, Goto, Turn
  <2> QED BY <2>1, <2>2 DEF Waits
<1>2. CASE ScheduleNew(c)
  <2>1. node' = node /\ job' = Scheduled(node, job)
    BY <1>2 DEF ScheduleNew
  <2>2. job'[d].status = "queued" => Placements(node, job'[d]) = {}
    BY <2>1, ScheduledClears
  <2> QED BY <2>1, <2>2 DEF Waits
<1>3. CASE ~Create(c) /\ ~ScheduleNew(c)
  <2>1. node' = node /\ job' = job
    BY <1>3 DEF Handle, ReceiveAuto, ReceiveNamed, ReceiveRoute, RouteAuto, RouteWithoutTools,
       Pick, SelectNamed, DecideRoute, WaitDone, WaitTimeout
  <2>2. ~At(c, "schedule")
    BY <1>3 DEF At, Handle, ReceiveAuto, ReceiveNamed, ReceiveRoute, RouteAuto,
       RouteWithoutTools, Pick, SelectNamed, DecideRoute, WaitDone, WaitTimeout
  <2>3. d # c => req'[d] = req[d]
    BY <1>3 DEF Handle, ReceiveAuto, ReceiveNamed, ReceiveRoute, RouteAuto, RouteWithoutTools,
       Pick, SelectNamed, DecideRoute, WaitDone, WaitTimeout, Chat, Choose, Goto, Answer,
       NothingSelected
  <2> QED BY <2>1, <2>2, <2>3 DEF Waits, At
<1> QED BY <1>1, <1>2, <1>3

\* So does a request of a node: it looks at the queue, or only takes a node away.
LEMMA FleetWaits ==
  ASSUME job \in [Clients -> Job], node \in [Nodes -> Row], NEW n \in Nodes, Fleet(n),
         NEW d \in Clients, Waits(node, req[d], job[d])
  PROVE  Waits(node', req'[d], job'[d])
<1>0. req' = req
  BY DEF Fleet, Join, Beat, Claim, Result, Drain, Leave, Expire
<1>1. ASSUME NEW js \in [Clients -> Job], job' = Scheduled(node', js)
      PROVE  Waits(node', req'[d], job'[d])
  BY <1>1, ScheduledClears DEF Waits
<1>2. ASSUME \A m \in Nodes \ {n} : node'[m] = node[m], node'[n].status # "READY",
             job'[d].status = "queued" => job'[d] = job[d]
      PROVE  Waits(node', req'[d], job'[d])
  BY <1>0, <1>2, FewerTake DEF Waits
<1>3. \A S : /\ "none" \notin S => FailOn(n, S) \in [Clients -> Job]
             /\ FailOn(n, S)[d].status = "queued" => FailOn(n, S)[d] = job[d]
  <2>1. \A S : FailOn(n, S)[d] = job[d] \/ FailOn(n, S)[d].status = "failed"
    BY DEF FailOn, Job
  <2> QED BY <2>1, FailTyped
<1>4. CASE Join(n)
  BY <1>1, <1>3, <1>4 DEF Join
<1>5. CASE Beat(n)
  <2> DEFINE status == IF node[n].status = "DRAINING" THEN "DRAINING"
                       ELSE IF Running(n) # {} THEN "BUSY" ELSE "READY"
  <2>1. CASE status = "READY"
    <3>1. job' = Scheduled(node', job)
      BY <1>5, <2>1 DEF Beat
    <3> QED BY <1>1, <3>1
  <2>2. CASE status # "READY"
    <3>1. PICK h \in Reports : node' = [node EXCEPT ![n] = WithHost(status, h)]
      BY <1>5 DEF Beat
    <3>2. job' = job
      BY <1>5, <2>2 DEF Beat
    <3> HIDE DEF status
    <3>3. node'[n].status = status
      BY <3>1 DEF WithHost
    <3> QED BY <1>2, <2>2, <3>1, <3>2, <3>3
  <2> QED BY <2>1, <2>2
<1>6. CASE Claim(n)
  <2>1. job'[d].status = "queued" => job'[d] = job[d]
    BY <1>6 DEF Claim, Job
  <2>2. node'[n].status = "BUSY" /\ \A m \in Nodes \ {n} : node'[m] = node[m]
    BY <1>6 DEF Claim, Row
  <2> QED BY <1>2, <2>1, <2>2
<1>7. CASE Result(n)
  <2>1. PICK c \in Running(n), s \in Terminal :
          job' = Scheduled(node', [job EXCEPT ![c].status = s])
    BY <1>7 DEF Result
  <2>2. [job EXCEPT ![c].status = s] \in [Clients -> Job]
    BY DEF Running, Terminal, Job, JobStatuses
  <2> QED BY <1>1, <2>1, <2>2
<1>8. CASE Drain(n)
  <2>1. node'[n].status = "DRAINING" /\ \A m \in Nodes \ {n} : node'[m] = node[m]
    BY <1>8 DEF Drain, Row
  <2> QED BY <1>2, <1>8, <2>1 DEF Drain
<1>9. CASE Leave(n)
  <2>1. node'[n].status = "absent" /\ \A m \in Nodes \ {n} : node'[m] = node[m]
    BY <1>9 DEF Leave, Gone
  <2> QED BY <1>2, <1>3, <1>9, <2>1 DEF Leave
<1>10. CASE Expire(n)
  BY <1>1, <1>3, <1>10 DEF Expire
<1> QED BY <1>4, <1>5, <1>6, <1>7, <1>8, <1>9, <1>10 DEF Fleet

\* For every fleet and any number of requests: between two handlers a job is in
\* the queue only if no node it may go to can take it, which takes a best node to
\* be there whenever some node fits (tryScheduleQueued, selectNode).
THEOREM WaitsForAReason == Spec => []QueuedForAReason
<1>1. Init => QueuedForAReason
  BY DEF Init, QueuedForAReason, NoJob
<1>2. DispatchInv /\ QueuedForAReason /\ [Next]_vars => QueuedForAReason'
  <2> SUFFICES ASSUME DispatchInv, QueuedForAReason, [Next]_vars, NEW d \in Clients
               PROVE  Waits(node', req'[d], job'[d])
    BY DEF QueuedForAReason, Waits, At
  <2>1. /\ job \in [Clients -> Job] /\ req \in [Clients -> Turn] /\ node \in [Nodes -> Row]
        /\ Waits(node, req[d], job[d])
    BY DEF DispatchInv, TypeOK, QueuedForAReason, Waits, At
  <2>2. CASE \E c \in Clients : Handle(c)
    BY <2>1, <2>2, HandleWaits
  <2>3. CASE \E n \in Nodes : Fleet(n)
    BY <2>1, <2>3, FleetWaits
  <2>4. CASE UNCHANGED vars
    BY <2>1, <2>4 DEF vars
  <2> QED BY <2>2, <2>3, <2>4 DEF Next
<1> QED BY <1>1, <1>2, DispatchInductive, PTL DEF Spec
=============================================================================
