--------------------------- MODULE DispatchProperties ---------------------------
(***************************************************************************)
(* What routing and dispatch keep, and what the code says of them.         *)
(***************************************************************************)
EXTENDS Dispatch

\* Every variable has its type, and every job names a model (Node and Job of the
\* server package, and the locals of handleChatCompletions and handleRoute).
TypeOK ==
  /\ node \in [Nodes -> Row]
  /\ req \in [Clients -> Turn]
  /\ job \in [Clients -> Job]
  /\ \A c \in Clients : job[c].status # "none" => job[c].model \in Models

\* A chat job that carries tools runs a model that accepts them, whichever of
\* the four ways its model was found: the scored pairs, the router's fallback,
\* the handler's own pick, or by name (EntrySupportsTools and its callers).
ToolsReachToolModel ==
  \A c \in Clients : job[c].status # "none" /\ job[c].tools => ToolCapable(job[c].model)

\* A request that names a model has it from the start; a handler about to create
\* a job has chosen one, which takes the tools the request still carries.
Chosen(r) ==
  /\ r.pc \in {"select", "create"} => r.model \in Models
  /\ r.pc = "create" /\ r.tools => ToolCapable(r.model)

\* The inductive invariant behind TypeOK and ToolsReachToolModel (the locals of
\* handleChatCompletions and handleRoute between choice and Create).
DispatchInv == TypeOK /\ ToolsReachToolModel /\ \A c \in Clients : Chosen(req[c])

\* The first GPU reports some free memory, so the router's view is not a guess.
SeesFreeMemory(row) == row.gpus # <<>> /\ Free(row.gpus[1]) > 0

\* Two programs agree on what fits: whatever pair the router scores best, the
\* scheduler would place at once on that node if it is READY, although the
\* router looks at the first GPU only and the scheduler at all of them
\* (scorePair and nodesToViews against Fits).
RouterAgreesWithScheduler ==
  \A p \in Prompts, o \in Options : \A s \in Top(node, p, o) :
    LET row == node[s[2]]
    IN row.status = "READY" /\ SeesFreeMemory(row)
         => Fits(row, s[1], Entry[s[1]].vram, o.present)

\* A job waits in the queue for a reason: no node it may go to can take it, in
\* every state between two handlers.  Each event that could make it placeable
\* (a join, a heartbeat, a result, a submission) looks at the queue.
QueuedForAReason ==
  \A c \in Clients :
    job[c].status = "queued" /\ ~At(c, "schedule") => Placements(node, job[c]) = {}

\* The relevant capabilities of a.
Offers(m, p) == Entry[m].caps \cap (p.caps \cup {"code", "simple"})

\* Pair b is the exact tier and installed, pair a is larger and offers nothing
\* more, and a's node is not the freer one.
Oversized(a, b, p, ns) ==
  /\ Entry[b[1]].tier = p.tier
  /\ Entry[a[1]].tier > p.tier
  /\ HasModel(ns[b[2]], b[1])
  /\ Offers(a[1], p) \subseteq Offers(b[1], p)
  /\ ToolCapable(a[1]) => ToolCapable(b[1])
  /\ ns[b[2]].status = "BUSY" => ns[a[2]].status = "BUSY"

\* The edge an installed model of the exact tier has over a warm larger one.
Edge == 15

\* Right-sizing: the router never selects an oversized pair, loaded or not,
\* unless its entry's priority outweighs the edge (the warmth bonus of
\* scorePair, which is scaled by tier).
RightSized ==
  \A p \in Prompts, o \in Options :
    \A a \in Top(node, p, o), b \in Pairs(node, p, o) :
      Entry[a[1]].prio < Entry[b[1]].prio + Edge => ~Oversized(a, b, p, node)
=============================================================================
