------------------------------ MODULE ModelRuntime ------------------------------
(***************************************************************************)
(* The Ollama adapter (internal/modelruntime): which installed model       *)
(* answers to a name, the context window a call asks for, the compaction   *)
(* of large requests, and the calls it makes to the daemon.                *)
(*                                                                         *)
(* The daemon itself, its disk and its user are external: they may do      *)
(* whatever the adapter has to live with.                                  *)
(***************************************************************************)
EXTENDS Integers, FiniteSets, Sequences

CONSTANTS
  Names, Tags,  \* a model is named by a name and a tag
  Latest,       \* the tag the daemon reads into a name without one
  NoTag,        \* a name without a tag
  Refs,         \* the models there are
  Window,       \* what each was trained for; 0 when its metadata do not say
  Override,     \* HOUDRY_OLLAMA_NUM_CTX: a window, or 0 for none
  Uncapped      \* the variable says "max"

Ref == [name : Names, tag : Tags \cup {NoTag}]

ASSUME TagsAssumption == NoTag \notin Tags /\ Latest \in Tags
ASSUME RefsAssumption == Refs \subseteq [name : Names, tag : Tags]
ASSUME WindowAssumption == Window \in [Refs -> Nat]
ASSUME OverrideAssumption == Override \in Nat /\ Uncapped \in BOOLEAN

\* The processes with an adapter, each with its own cache of windows.
Procs == {"serve", "agent"}

VARIABLES
  ollama,   \* the daemon
  numCtx    \* sharedNumCtx of each process

\* gpu: what is loaded has VRAM; removed: what the user has deleted so far.
Daemon == [up : BOOLEAN, disk : SUBSET Refs, gpu : BOOLEAN,
           removed : SUBSET Refs]

-----------------------------------------------------------------------------
(* Names.                                                                  *)

\* Mutant of Matches: the tag is not compared.
MatchesName(want, have) == want.name = have.name

\* Identity.Matches: a name without a tag is matched by any tag.
Matches(want, have) ==
  want.name = have.name /\ (want.tag = NoTag \/ want.tag = have.tag)

\* The model the daemon runs, shows or pulls for a reference.
Resolved(r) == IF r.tag = NoTag THEN [r EXCEPT !.tag = Latest] ELSE r

Installed(r) == Resolved(r) \in ollama.disk

-----------------------------------------------------------------------------
(* The context window, in units of 4096 tokens.                            *)

SlowNumCtx == 1
FallbackNumCtx == 2
NumCtxCap == 8
Unknown == -1

\* Mutant of ResolveNumCtx: no floor under what detection says.
ResolveNoFloor(requested, detected) ==
  IF requested > 0 THEN requested
  ELSE IF Override > 0 THEN Override
  ELSE IF ~Uncapped /\ detected > NumCtxCap THEN NumCtxCap
  ELSE detected

\* resolveNumCtx, once the window is cached: what the caller asks for, what
\* the operator asks for, what the model has up to the cap, or the floor.
ResolveNumCtx(requested, detected) ==
  IF requested > 0 THEN requested
  ELSE IF Override > 0 THEN Override
  ELSE IF detected <= 0 THEN FallbackNumCtx
  ELSE IF ~Uncapped /\ detected > NumCtxCap THEN NumCtxCap
  ELSE detected

NeedsProbe(p, r, requested) ==
  requested = 0 /\ Override = 0 /\ numCtx[p][r] = Unknown

\* Mutant of CacheKeys: the answer is cached for every model of the daemon.
CacheAll(r) == DOMAIN numCtx["serve"]

\* The entries an answer for r is cached under.
CacheKeys(r) == {r}

\* showContextLength has answered, or has failed for whatever reason (the
\* short timeout, the end of the request's context): a failure is cached too.
Remember(p, r, answered) ==
  LET detected == IF answered THEN Window[Resolved(r)] ELSE 0
  IN numCtx' = [numCtx EXCEPT ![p] =
       [k \in DOMAIN @ |-> IF k \in CacheKeys(r) THEN detected ELSE @[k]]]

MayAnswer(r) == ollama.up /\ Installed(r)

-----------------------------------------------------------------------------
(* Compaction.                                                             *)

\* What a request is made of: tools, the size of hugeAgentDump, whether its
\* last user message reads like code.
Shape == [tools : BOOLEAN, huge : BOOLEAN, coding : BOOLEAN]

\* What an answer of /api/ps may say: something is loaded, in VRAM.
InVRAM == ollama.up /\ ollama.gpu

\* Mutant of OnCPU: no model loaded counts as a model on the CPU.
OnCPUIfIdle == ollama.up

\* What another may say: something is loaded, and none of it in VRAM.
OnCPU == ollama.up /\ ~ollama.gpu

\* compactSlowInference keeps the tools of what looks like coding.
KeepsTools(s) == s.tools /\ s.coding

-----------------------------------------------------------------------------
(* The daemon and its user.                                                *)

OllamaStops == ollama.up /\ ollama' = [ollama EXCEPT !.up = FALSE]

OllamaStarts == ~ollama.up /\ ollama' = [ollama EXCEPT !.up = TRUE]

UserRemoves(r) ==
  /\ r \in ollama.disk
  /\ ollama' = [ollama EXCEPT !.disk = @ \ {r}, !.removed = @ \cup {r}]
=============================================================================
