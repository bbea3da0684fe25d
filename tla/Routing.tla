-------------------------------- MODULE Routing --------------------------------
(***************************************************************************)
(* How a request is matched with a model and a node: the task profile      *)
(* (internal/routing/analyze.go), the router (router.go, catalog.go) over  *)
(* the views of route.go, and the scheduler's own test of a node           *)
(* (internal/server/resources.go, scheduler.go).  Everything here is a     *)
(* function of one copy of the registry.                                   *)
(*                                                                         *)
(* A choice the code leaves to the order of Store.List, which ranges over  *)
(* a Go map, or of the catalogue file is a set of possible answers.        *)
(***************************************************************************)
EXTENDS Integers, FiniteSets, Sequences

CONSTANTS
  Nodes,       \* node ids; the order of numbers is the order of ids
  Models,      \* logical models, each a name with its tag
  Catalog,     \* the models with an entry in model-catalog.json
  Entry,       \* the entry of each of those
  NamedTools,  \* the models EntrySupportsTools knows by their name alone
  SizeBytes    \* the size of each model on disk

Caps == {"chat", "code", "reasoning", "simple", "tools", "vision", "ocr", "document"}
Tiers == 1..3     \* ComplexityRank of low, medium, high
EntryRec == [caps : SUBSET Caps, tier : Tiers, vram : Nat, prio : Nat]

ASSUME NodesAssumption == Nodes \subseteq Nat
ASSUME CatalogAssumption ==
  /\ Catalog # {}
  /\ Catalog \subseteq Models
  /\ NamedTools \subseteq Models
  /\ Entry \in [Catalog -> EntryRec]
  /\ SizeBytes \in [Models -> Nat]

\* A GPU as BuildProfile reports it, and a row of the registry reduced to
\* what routing reads.  serves: the node has a model runtime.
GPU == [total : Nat, used : Nat]
Presence == {"absent", "available", "loaded"}
Statuses == {"absent", "READY", "BUSY", "DRAINING", "OFFLINE"}
Row == [status : Statuses, gpus : Seq(GPU), serves : BOOLEAN,
        models : [Models -> Presence]]

Free(g) == IF g.total >= g.used THEN g.total - g.used ELSE 0

HasModel(row, m) == row.models[m] # "absent"
IsLoaded(row, m) == row.models[m] = "loaded"

-----------------------------------------------------------------------------
(* Task profiles.                                                          *)

Visual == {"vision", "document"}
Profile == [modality : {"text", "code"} \cup Visual, tier : Tiers, caps : SUBSET Caps]

\* What Analyze can answer, over every prompt: the two visual pipelines at 45
\* points, or text and code at any tier; the low tier always adds "simple".
Analyzed ==
  {[modality |-> "vision", tier |-> 2, caps |-> {"vision", "ocr"}],
   [modality |-> "document", tier |-> 2, caps |-> {"document"}]}
  \cup {[modality |-> mod, tier |-> t,
         caps |-> {"chat"} \cup more \cup (IF mod = "code" THEN {"code"} ELSE {})
                           \cup (IF t = 1 THEN {"simple"} ELSE {})] :
          mod \in {"text", "code"}, t \in Tiers, more \in {{}, {"reasoning"}}}

\* Route raises the profile of a request that carries tools.
ForTools(p) == [p EXCEPT !.caps = @ \cup {"tools"},
                         !.tier = IF @ < 2 THEN 2 ELSE @]

-----------------------------------------------------------------------------
(* The router.                                                             *)

\* The entry of a model that no catalogue describes.
Bare == [caps |-> {}, tier |-> 1, vram |-> 0, prio |-> 0]

EntryOf(m) == IF m \in Catalog THEN Entry[m] ELSE Bare

\* EntrySupportsTools.
ToolCapable(m) == "tools" \in EntryOf(m).caps \/ m \in NamedTools

EntrySupports(m, p) ==
  LET caps == Entry[m].caps
  IN /\ Entry[m].tier >= p.tier
     /\ IF p.modality \in Visual THEN "vision" \in caps
        ELSE /\ "tools" \in p.caps => ToolCapable(m)
             /\ IF p.modality = "code" THEN caps \cap {"code", "chat"} # {}
                ELSE caps \cap ((p.caps \ {"tools"}) \cup {"chat"}) # {}

\* What a request asks of the router: a model that is installed, tools, and
\* whether a BUSY node will do.
Options == [present : BOOLEAN, tools : BOOLEAN, busy : BOOLEAN]

Eligible(row, o) == row.status = "READY" \/ (o.busy /\ row.status = "BUSY")

\* Mutant of RoutableVRAM: what the card has, not what is free.
TotalVRAM(row) == IF row.gpus = <<>> THEN 0 ELSE row.gpus[1].total

\* The memory of a node view: its first GPU's, where 0 reads as unknown.
RoutableVRAM(row) ==
  IF row.gpus = <<>> THEN 0
  ELSE LET g == row.gpus[1] IN IF Free(g) = 0 THEN g.total ELSE Free(g)

VRAMGate(m, row) ==
  Entry[m].vram = 0 \/ RoutableVRAM(row) = 0 \/ RoutableVRAM(row) >= Entry[m].vram

\* The pairs scorePair is reached for and does not refuse.
Pairs(ns, p, o) ==
  {c \in Catalog \X Nodes :
     LET m == c[1]  row == ns[c[2]]
     IN /\ o.tools => ToolCapable(m)
        /\ EntrySupports(m, p)
        /\ Eligible(row, o)
        /\ row.serves
        /\ VRAMGate(m, row)
        /\ o.present => HasModel(row, m)}

\* Mutant of Warmth: the loaded model always gets the full bonus.
WarmthFlat(diff) == 80

\* The bonus of a loaded model, by the tiers it has to spare.
Warmth(diff) == IF diff >= 2 THEN 15 ELSE IF diff = 1 THEN 25 ELSE 80

TierScore(diff) == IF diff = 0 THEN 40 ELSE IF diff = 1 THEN 15 ELSE 5

Points(cond, k) == IF cond THEN k ELSE 0

\* The points of a pair that depend on the entry's capabilities alone.
CapScore(m, p, o) ==
  LET caps == Entry[m].caps
  IN 12 * Cardinality(p.caps \cap caps)
     + Points(p.modality = "code" /\ "code" \in caps, 25)
     + Points(p.tier = 1 /\ "simple" \in caps, 20)
     + Points(o.tools /\ ToolCapable(m), 35)

\* The points for having the model at hand, and for a node that is not busy.
\* PreferLoaded is always set; a model may be pulled unless it must be present.
HostScore(diff, m, row) ==
  (IF IsLoaded(row, m) THEN Warmth(diff)
   ELSE IF HasModel(row, m) THEN 25 - 10 ELSE 5 - 10)
  - Points(row.status = "BUSY", 50)

Score(c, ns, p, o) ==
  LET m == c[1]
      diff == Entry[m].tier - p.tier
  IN TierScore(diff) + HostScore(diff, m, ns[c[2]]) + CapScore(m, p, o) + Entry[m].prio

\* The order of Route's sort.
Beats(a, b, ns, p, o) ==
  LET sa == Score(a, ns, p, o)  sb == Score(b, ns, p, o)
      pa == Entry[a[1]].prio    pb == Entry[b[1]].prio
  IN \/ sa > sb
     \/ sa = sb /\ pa > pb
     \/ sa = sb /\ pa = pb /\ a[2] < b[2]

Top(ns, p, o) ==
  {a \in Pairs(ns, p, o) : \A b \in Pairs(ns, p, o) : ~Beats(b, a, ns, p, o)}

\* fallbackPresent: any installed chat model on an eligible node.
FallbackPairs(ns, o) ==
  {c \in Catalog \X Nodes :
     /\ o.tools => ToolCapable(c[1])
     /\ Entry[c[1]].caps \cap {"chat", "simple"} # {}
     /\ Eligible(ns[c[2]], o)
     /\ HasModel(ns[c[2]], c[1])}

Fallback(ns, o) ==
  {a \in FallbackPairs(ns, o) :
     \A b \in FallbackPairs(ns, o) : Entry[b[1]].prio <= Entry[a[1]].prio}

\* No model of the catalogue can see.
Deferred(p) == p.modality \in Visual /\ \A m \in Catalog : "vision" \notin Entry[m].caps

\* The pairs Route may select for a profile; none when it selects nothing.
Route(ns, prof, o) ==
  LET p == IF o.tools THEN ForTools(prof) ELSE prof
  IN IF Deferred(p) THEN {}
     ELSE IF Pairs(ns, p, o) # {} THEN Top(ns, p, o)
     ELSE IF p.modality \in Visual THEN {}
     ELSE Fallback(ns, o)

\* PickFittingModel: the smallest installed model within the free memory.
MinVRAM(m) == IF EntryOf(m).vram = 0 THEN SizeBytes[m] ELSE EntryOf(m).vram

PickSize(m) == IF SizeBytes[m] = 0 THEN MinVRAM(m) ELSE SizeBytes[m]

Fitting(row, tools) ==
  {m \in Models :
     /\ HasModel(row, m)
     /\ tools => ToolCapable(m)
     /\ \/ RoutableVRAM(row) = 0
        \/ RoutableVRAM(row) >= MinVRAM(m) /\ RoutableVRAM(row) >= SizeBytes[m]}

PickFitting(row, tools) ==
  {m \in Fitting(row, tools) :
     \A k \in Fitting(row, tools) :
       \/ PickSize(m) < PickSize(k)
       \/ PickSize(m) = PickSize(k) /\ MinVRAM(m) <= MinVRAM(k)}

\* catalogMinVRAM.
CatalogMinVRAM(m) == IF m \in Catalog THEN Entry[m].vram ELSE SizeBytes[m]

-----------------------------------------------------------------------------
(* The scheduler.  Every job here is an inference job: it requires a GPU.  *)

\* What Fits takes for the free memory of a GPU.
FitVRAM(g) == IF g.total >= g.used THEN g.total - g.used ELSE g.total

Fits(row, m, vram, present) ==
  /\ row.status = "READY"
  /\ row.gpus # <<>>
  /\ vram > 0 => \E i \in DOMAIN row.gpus : FitVRAM(row.gpus[i]) >= vram
  /\ row.serves
  /\ present => HasModel(row, m)

ModelScore(row, m) ==
  (IF IsLoaded(row, m) THEN 100 ELSE IF HasModel(row, m) THEN 50 ELSE 0) + Points(row.serves, 10)

\* selectNode: the nodes that may take the job, and the best of them, if any.
Takers(ns, prefs, m, vram, present) ==
  {n \in Nodes : n \in prefs /\ Fits(ns[n], m, vram, present)}

SelectNode(ns, prefs, m, vram, present) ==
  LET S == Takers(ns, prefs, m, vram, present)
  IN {n \in S : \A k \in S : \/ ModelScore(ns[n], m) > ModelScore(ns[k], m)
                             \/ ModelScore(ns[n], m) = ModelScore(ns[k], m) /\ n <= k}
=============================================================================
