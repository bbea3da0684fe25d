------------------------------- MODULE RouterChat -------------------------------
(***************************************************************************)
(* The local chat of houdry serve, for when there is no GPU worker:        *)
(* handleLocalChat (internal/server/openai_chat.go), ServeChat and         *)
(* streamOpenAI (internal/routeropenai), and under them AnswerStream with  *)
(* its failover (internal/routerchat).                                     *)
(*                                                                         *)
(* Each request has a Service of its own, so the snapshot a decision is    *)
(* made on is the request's own copy.  What is shared is the daemon, the   *)
(* cache of context windows and the directory of generated files.          *)
(***************************************************************************)
EXTENDS ModelRuntime

CONSTANTS
  Chats,        \* the requests
  Forms,        \* what they are: streamed, for a CAD model, with a picture
  MaxAttempts,  \* candidates a request may use up
  NoChat        \* nobody's drawing or model

ASSUME AttemptsAssumption == MaxAttempts \in Nat \ {0}
ASSUME ChatsAssumption == NoChat \notin Chats
ASSUME FormsAssumption ==
  Forms \subseteq [stream : BOOLEAN, cad : BOOLEAN, image : BOOLEAN]

VARIABLES
  chat,    \* the handler of each request
  shelf,   \* the files of each second
  second   \* the wall clock, as file names show it

ChatPcs == {"idle", "local", "nodes", "attempt", "show", "infer",
            "draw", "cad", "stat", "done"}
Outcomes == {"", "elsewhere", "refused", "answer", "error", "gone"}

\* What the consumer holds: nothing, text of the current candidate, text of
\* an earlier one, or both.
Texts == {"none", "own", "stale", "mixed"}

\* order is the failover order, at the candidate being tried, label the one
\* the consumer believes to be speaking (0 is "auto"), window the num_ctx of
\* the last call, stamp and began the second of a CAD request (0 before).
Chat == [pc : ChatPcs, stream : BOOLEAN, cad : BOOLEAN, image : BOOLEAN,
         live : BOOLEAN, order : Seq(Refs), at : Nat, label : Nat,
         text : Texts, window : Nat, stamp : Nat, began : Nat, out : Outcomes]

NewChat == [pc |-> "idle", stream |-> FALSE, cad |-> FALSE, image |-> FALSE,
            live |-> TRUE, order |-> <<>>, at |-> 0, label |-> 0,
            text |-> "none", window |-> 0, stamp |-> 0, began |-> 0, out |-> ""]

\* The files of one second: whose drawing, whose model.
Shelf == [drawing : Chats \cup {NoChat}, model : Chats \cup {NoChat}]

-----------------------------------------------------------------------------
(* The order of failover.                                                  *)

\* What Route may answer on a snapshot: the models it scores, best first.
Rankings(models) ==
  {s \in UNION {[1..k -> models] : k \in 0..Cardinality(models)} :
     \A i, j \in DOMAIN s : s[i] = s[j] => i = j}

\* The selected candidate is put before the list it heads itself.
Ordered(ranking) == <<ranking[1]>> \o ranking

\* Mutant of Fresh: duplicates stay.
FreshAlways(s, i) == TRUE

\* The i-th candidate has not been seen before.
Fresh(s, i) == \A j \in 1..(i - 1) : s[j] # s[i]

\* t is what failoverOrder makes of s: its fresh candidates in their order,
\* at most MaxAttempts.
IsFailover(t, s) ==
  LET fresh == {i \in DOMAIN s : Fresh(s, i)}
  IN \E pick \in [DOMAIN t -> fresh] :
       /\ \A k \in DOMAIN t : t[k] = s[pick[k]]
       /\ \A k \in DOMAIN t :
            Cardinality({i \in fresh : i < pick[k]}) = k - 1
       /\ Len(t) <= MaxAttempts
       /\ Len(t) < MaxAttempts => Len(t) = Cardinality(fresh)

FailoverOrders(models) ==
  {t \in UNION {[1..k -> models] : k \in 1..MaxAttempts} :
     \E r \in Rankings(models) : r # <<>> /\ IsFailover(t, Ordered(r))}

-----------------------------------------------------------------------------
At(c, pc) == chat[c].pc = pc

Current(c) == chat[c].order[chat[c].at]

End(c, out) == chat' = [chat EXCEPT ![c].pc = "done", ![c].out = out]

\* Mutant of CallerGone: nobody looks.
NeverGone(c) == FALSE

\* The request's context has ended.
CallerGone(c) == ~chat[c].live

\* A valid POST /v1/chat/completions while there is no worker.  A picture in a
\* request that asks for no model only narrows what Route ranks.
Receive(c) ==
  /\ At(c, "idle")
  /\ \E form \in Forms :
       chat' = [chat EXCEPT ![c] =
         [NewChat EXCEPT !.pc = "local", !.stream = form.stream,
                         !.cad = form.cad, !.image = form.image]]
  /\ UNCHANGED <<ollama, numCtx, shelf, second>>

\* handleLocalChat: within three seconds the daemon answers and has models,
\* or the request goes on to the job path.  A CAD request without a drawing
\* is refused, one with a drawing leaves the router.
TryLocal(c) ==
  /\ At(c, "local")
  /\ \/ End(c, "elsewhere")
     \/ /\ ollama.up /\ ollama.disk # {}
        /\ IF chat[c].cad /\ ~chat[c].image THEN End(c, "refused")
           ELSE chat' = [chat EXCEPT ![c].pc = IF chat[c].cad THEN "draw" ELSE "nodes"]
  /\ UNCHANGED <<ollama, numCtx, shelf, second>>

\* refresh and decide: the snapshot, the decision and its event.
Decide(c) ==
  /\ At(c, "nodes")
  /\ \/ End(c, "error")
     \/ /\ ollama.up
        /\ \E order \in FailoverOrders(ollama.disk) :
             chat' = [chat EXCEPT ![c].pc = "attempt", ![c].order = order,
                                  ![c].label = IF chat[c].stream THEN 1 ELSE 0]
  /\ UNCHANGED <<ollama, numCtx, shelf, second>>

NextAttempt(c) == chat[c].at + 1

\* The retry event: the consumer drops its text, or tells its reader that
\* another model starts over.
Discard(c) == "none"

\* Mutant of Relabel: the chunks go on under the first model's name.
OldLabel(c) == chat[c].label

Relabel(c) == IF chat[c].stream THEN NextAttempt(c) ELSE 0

\* The first attempt needs neither: the decision event has named its model.
Speaker(c) == IF chat[c].at = 0 THEN chat[c].label ELSE Relabel(c)
TextLeft(c) == IF chat[c].at = 0 THEN chat[c].text ELSE Discard(c)

\* The head of the loop over the candidates.
Attempt(c) ==
  /\ At(c, "attempt")
  /\ IF chat[c].at = Len(chat[c].order) THEN End(c, "error")
     ELSE IF CallerGone(c) THEN End(c, "gone")
     ELSE LET next == chat[c].order[NextAttempt(c)]
          IN chat' = [chat EXCEPT ![c] =
               [chat[c] EXCEPT
                  !.pc = IF NeedsProbe("serve", next, 0) THEN "show" ELSE "infer",
                  !.at = NextAttempt(c), !.label = Speaker(c), !.text = TextLeft(c),
                  !.window = ResolveNumCtx(0, numCtx["serve"][next])]]
  /\ UNCHANGED <<ollama, numCtx, shelf, second>>

\* showContextLength on the attempt's context, and the call that follows it.
ShowChat(c) ==
  /\ At(c, "show")
  /\ \E answered \in BOOLEAN :
       /\ answered => MayAnswer(Current(c)) /\ ~CallerGone(c)
       /\ Remember("serve", Current(c), answered)
       /\ chat' = [chat EXCEPT ![c].pc = "infer",
            ![c].window = ResolveNumCtx(0, IF answered THEN Window[Current(c)] ELSE 0)]
  /\ UNCHANGED <<ollama, shelf, second>>

\* A piece of text arrives.
Delta(c) ==
  /\ At(c, "infer")
  /\ MayAnswer(Current(c))
  /\ chat' = [chat EXCEPT ![c].text = IF @ \in {"none", "own"} THEN "own" ELSE "mixed"]
  /\ UNCHANGED <<ollama, numCtx, shelf, second>>

\* A consumer that collects learns at the end who has spoken, and takes the
\* answer of the done event for its text, unless that is empty.
SpeakerAtEnd(c) == IF chat[c].stream THEN chat[c].label ELSE chat[c].at
TextAtEnd(c) ==
  IF ~chat[c].stream /\ chat[c].text \in {"own", "mixed"} THEN "own" ELSE chat[c].text

\* The stream ends well.
Finish(c) ==
  /\ At(c, "infer")
  /\ MayAnswer(Current(c))
  /\ chat' = [chat EXCEPT ![c] =
       [chat[c] EXCEPT !.pc = "done", !.out = "answer",
                       !.label = SpeakerAtEnd(c), !.text = TextAtEnd(c)]]
  /\ UNCHANGED <<ollama, numCtx, shelf, second>>

\* The daemon refuses or breaks off, the attempt's time is up, or the
\* caller's context has ended.
Fail(c) ==
  /\ At(c, "infer")
  /\ IF CallerGone(c) THEN End(c, "gone")
     ELSE chat' = [chat EXCEPT ![c].pc = "attempt"]
  /\ UNCHANGED <<ollama, numCtx, shelf, second>>

\* The client disconnects, or stops waiting.
Hangup(c) ==
  /\ chat[c].live /\ chat[c].pc \notin {"idle", "done"}
  /\ chat' = [chat EXCEPT ![c].live = FALSE]
  /\ UNCHANGED <<ollama, numCtx, shelf, second>>

-----------------------------------------------------------------------------
(* The drawing pipeline (cad.go): files named by the second.               *)

\* Mutant of Stamp: the name says the minute only.
StampMinute(t) == 1

Stamp(t) == t

\* The script is found and the drawing written; without the script, an
\* interpreter or a disk, the request fails.
Draw(c) ==
  /\ At(c, "draw")
  /\ \/ End(c, "error") /\ UNCHANGED shelf
     \/ /\ chat' = [chat EXCEPT ![c] = [chat[c] EXCEPT !.pc = "cad", !.began = second,
                                                       !.stamp = Stamp(second)]]
        /\ shelf' = [shelf EXCEPT ![Stamp(second)].drawing = c]
  /\ UNCHANGED <<ollama, numCtx, second>>

\* The pipeline reads the drawing and writes the model, or fails; it is
\* killed after twenty minutes or with its caller.
Build(c) ==
  /\ At(c, "cad")
  /\ chat' = [chat EXCEPT ![c].pc = "stat"]
  /\ \/ shelf' = [shelf EXCEPT ![chat[c].stamp].model = shelf[chat[c].stamp].drawing]
     \/ UNCHANGED shelf
  /\ UNCHANGED <<ollama, numCtx, second>>

\* Success is that the file is there.
Stat(c) ==
  /\ At(c, "stat")
  /\ IF shelf[chat[c].stamp].model # NoChat THEN End(c, "answer") ELSE End(c, "error")
  /\ UNCHANGED <<ollama, numCtx, shelf, second>>

Tick ==
  /\ second + 1 \in DOMAIN shelf
  /\ second' = second + 1
  /\ UNCHANGED <<ollama, numCtx, chat, shelf>>

-----------------------------------------------------------------------------
\* What the handler of c does once it has the request.
ChatStep(c) ==
  \/ TryLocal(c) \/ Decide(c) \/ Attempt(c) \/ ShowChat(c)
  \/ Finish(c) \/ Fail(c) \/ Draw(c) \/ Build(c) \/ Stat(c)
=============================================================================
