---------------------------- MODULE LocalInvariant ----------------------------
(***************************************************************************)
(* The inductive invariant of LocalInference: what the handlers, the jobs, *)
(* the caches and the files of a machine owe each other between any two    *)
(* steps.                                                                  *)
(***************************************************************************)
EXTENDS LocalProperties

\* A cached window is the model's own, or the 0 of a failed detection.
Cached ==
  \A p \in Procs : \A r \in Ref :
    \/ numCtx[p][r] \in {Unknown, 0}
    \/ Resolved(r) \in Refs /\ numCtx[p][r] = Window[Resolved(r)]

\* Before its request comes a handler has done nothing.
Untouched(c) == At(c, "idle") => chat[c] = NewChat

\* The candidates are distinct and few, and the handler is at one of them.
Walks(c) ==
  /\ Len(chat[c].order) <= MaxAttempts
  /\ \A i, k \in 1..Len(chat[c].order) :
       chat[c].order[i] = chat[c].order[k] => i = k
  /\ chat[c].at <= Len(chat[c].order)
  /\ chat[c].pc \in {"show", "infer"} => chat[c].at > 0

\* A reader of a stream has been told who speaks, and no text is left of a
\* candidate that is not speaking.
Speaks(c) ==
  /\ chat[c].text \in {"none", "own"}
  /\ chat[c].pc \in {"attempt", "show", "infer"} /\ chat[c].stream =>
       chat[c].label = IF chat[c].at = 0 THEN 1 ELSE chat[c].at
  /\ chat[c].out = "answer" /\ ~chat[c].cad => chat[c].label = chat[c].at

\* Chats that leave the router for the pipeline do not come back, and only
\* those that are over have an outcome.
Branches(c) ==
  /\ chat[c].pc \in {"nodes", "attempt", "show", "infer"} => ~chat[c].cad
  /\ chat[c].pc \in {"draw", "cad", "stat"} => chat[c].cad
  /\ ~At(c, "done") => chat[c].out = ""
  /\ chat[c].pc \in {"local", "nodes"} => chat[c].at = 0
  /\ At(c, "infer") => chat[c].window \in Windows(Current(c))

\* A drawing is named by the second it came in.
Drawn(c) ==
  /\ chat[c].stamp = chat[c].began
  /\ chat[c].began \in 0..LastSecond
  /\ chat[c].pc \in {"local", "nodes", "draw"} => chat[c].began = 0
  /\ chat[c].pc \in {"cad", "stat"} => chat[c].began > 0
  /\ chat[c].began > 0 => shelf[chat[c].began].drawing # NoChat
  /\ chat[c].cad /\ chat[c].out = "answer" =>
       chat[c].began > 0 /\ shelf[chat[c].began].model # NoChat

\* The files of a second are of requests of that second.
Filed ==
  \A s \in 1..LastSecond :
    /\ shelf[s].drawing # NoChat => chat[shelf[s].drawing].began = s
    /\ shelf[s].model # NoChat => chat[shelf[s].model].began = s

\* A job asks for no window before compaction, and then for the small one, of
\* a huge request or a machine on its CPU, or for what its model has.
Asks(j) ==
  LET small == work[j].window = SlowNumCtx /\ (work[j].shape.huge \/ ~ollama.gpu)
  IN /\ work[j].pc \in {"find", "ensure", "pull", "compact", "cpu", "show"} =>
          work[j].window = 0
     /\ Doing(j, "options") => work[j].window = 0 \/ small
     /\ Doing(j, "infer") => work[j].window \in Windows(work[j].ref) \/ small

\* What has been ensured is there, unless the user removed it.
Ensured(j) ==
  /\ work[j].pc \in WorkPcs \ {"idle"} => work[j].ref \in Wanted
  /\ /\ \/ work[j].pc \in {"compact", "cpu", "options", "show", "infer"}
        \/ work[j].result = "missing"
     /\ work[j].ref.tag # NoTag
     => work[j].ref \in ollama.disk \cup ollama.removed
  /\ work[j].result = "missing" /\ work[j].ref.tag # NoTag =>
       work[j].ref \in ollama.removed
  /\ ~Doing(j, "done") => work[j].result = ""

\* The tools are the request's until compaction takes them.
Tooled(j) ==
  work[j].tools # work[j].shape.tools => work[j].shape.huge \/ ~ollama.gpu

\* The inductive invariant.
IInv ==
  /\ TypeOK
  /\ Cached
  /\ Filed
  /\ \A c \in Chats : Untouched(c) /\ Walks(c) /\ Speaks(c) /\ Branches(c) /\ Drawn(c)
  /\ \A j \in Jobs : Asks(j) /\ Ensured(j) /\ Tooled(j)
=============================================================================
