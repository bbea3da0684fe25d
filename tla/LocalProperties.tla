---------------------------- MODULE LocalProperties ----------------------------
(***************************************************************************)
(* What the users of a machine's own models may rely on.                   *)
(***************************************************************************)
EXTENDS LocalInference

\* The variables hold values of their types; a clock and a counter stay
\* within their bounds.
TypeOK ==
  /\ ollama \in Daemon
  /\ numCtx \in [Procs -> [Ref -> Nat \cup {Unknown}]]
  /\ chat \in [Chats -> Chat]
  /\ shelf \in [1..LastSecond -> Shelf]
  /\ second \in 1..LastSecond
  /\ work \in [Jobs -> Work]

\* An answer is the text of one model, the one the client is told about, even
\* when earlier candidates had streamed text before they failed
\* (routerchat/service.go:207-212, routeropenai/openai.go:125-130).
OneVoice ==
  \A c \in Chats :
    chat[c].out = "answer" /\ ~chat[c].cad =>
      chat[c].text \in {"none", "own"} /\ chat[c].label = chat[c].at

\* A request tries a candidate once and at most MaxAttempts in all, although
\* the selected one heads the list it is put before (service.go:301-323).
NoneTwice ==
  \A c \in Chats :
    /\ chat[c].at <= MaxAttempts
    /\ \A i, k \in 1..chat[c].at : chat[c].order[i] = chat[c].order[k] => i = k

\* The windows a call to the daemon may ask for: the model's own up to the
\* cap, or the floor after a failed detection.
Windows(r) == {ResolveNumCtx(0, Window[Resolved(r)]), ResolveNumCtx(0, 0)}

\* Whatever calls probe and fill the cache at once, a call asks for the window
\* of its own model or for the floor, and for the small window only of a
\* huge request or a machine that runs on its CPU (ollama_context.go:158-182).
WindowAsked ==
  /\ \A c \in Chats :
       At(c, "infer") => chat[c].window \in Windows(Current(c))
  /\ \A j \in Jobs :
       Doing(j, "infer") =>
         \/ work[j].window \in Windows(work[j].ref)
         \/ work[j].window = SlowNumCtx /\ (work[j].shape.huge \/ ~ollama.gpu)

\* What EnsureModel has ensured for a full name the daemon does not answer
\* with 404, unless its user removed the model (runtime.go:101-103).
EnsuredRuns ==
  \A j \in Jobs :
    work[j].result = "missing" /\ work[j].ref.tag # NoTag =>
      work[j].ref \in ollama.removed

\* On a machine with a GPU only a huge request loses its tools, however the
\* two questions to the daemon are answered or lost (ollama.go:217-228).
ToolsSurvive ==
  \A j \in Jobs :
    work[j].tools # work[j].shape.tools => work[j].shape.huge \/ ~ollama.gpu

\* A client that gets a generated model gets the one of its own drawing, as
\* long as no other drawing arrived in the same second (cad.go:125-131).
ArtifactIsOwn ==
  \A c \in Chats :
    /\ chat[c].cad /\ chat[c].out = "answer"
    /\ \A d \in Chats \ {c} : chat[d].began # chat[c].began
    => shelf[chat[c].stamp].model = c

\* Once the caller's context has ended, no further candidate is tried
\* (service.go:230-232, 248-253).
GoneIsGone ==
  [][\A c \in Chats : ~chat[c].live => chat'[c].at = chat[c].at]_vars
=============================================================================
