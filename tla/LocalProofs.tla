------------------------------ MODULE LocalProofs ------------------------------
(***************************************************************************)
(* Proofs about local inference, for every set of models, requests and     *)
(* jobs, and every bound.                                                  *)
(***************************************************************************)
EXTENDS LocalInvariant, TLAPS

-----------------------------------------------------------------------------
(* The order of failover.                                                  *)

\* The candidates of a failover order are distinct models of the snapshot,
\* although the list it is made from names the selected one twice
\* (failoverOrder's seen).
LEMMA FailoverIsFresh ==
  ASSUME NEW models, NEW order \in FailoverOrders(models)
  PROVE  /\ order \in Seq(models) /\ Len(order) <= MaxAttempts
         /\ \A i, k \in 1..Len(order) : order[i] = order[k] => i = k
<1>1. PICK n \in 1..MaxAttempts : order \in [1..n -> models]
  BY AttemptsAssumption DEF FailoverOrders
<1>2. order \in Seq(models) /\ Len(order) = n /\ DOMAIN order = 1..n
  BY <1>1, AttemptsAssumption
<1>3. PICK r \in Rankings(models) : r # <<>> /\ IsFailover(order, Ordered(r))
  BY DEF FailoverOrders
<1> DEFINE s == Ordered(r)
           fresh == {i \in DOMAIN s : Fresh(s, i)}
           Before(i) == {x \in fresh : x < i}
<1>4. DOMAIN s \subseteq Nat \ {0}
  <2>1. PICK m \in 0..Cardinality(models) : r \in [1..m -> models]
    BY <1>3 DEF Rankings
  <2>2. CASE m \in Nat
    <3>1. r \in Seq(models)
      BY <2>1, <2>2
    <3>2. m > 0
      BY <1>3, <2>1, <2>2
    <3> QED BY <2>1, <2>2, <3>1, <3>2 DEF Ordered
  <2> QED BY <2>1, <2>2
<1>5. PICK pick \in [DOMAIN order -> fresh] :
        /\ \A k \in DOMAIN order : order[k] = s[pick[k]]
        /\ \A k \in DOMAIN order : Cardinality(Before(pick[k])) = k - 1
  BY <1>3 DEF IsFailover
<1>6. ASSUME NEW i \in 1..n, NEW k \in 1..n, order[i] = order[k]
      PROVE  i = k
  <2>1. pick[i] \in fresh /\ pick[k] \in fresh /\ s[pick[i]] = s[pick[k]]
    BY <1>2, <1>5, <1>6
  <2>2. pick[i] \in Nat \ {0} /\ pick[k] \in Nat \ {0}
    BY <1>4, <2>1
  <2>3. ~(pick[i] < pick[k]) /\ ~(pick[k] < pick[i])
    BY <2>1, <2>2 DEF Fresh
  <2>4. pick[i] = pick[k]
    BY <2>2, <2>3
  <2> HIDE DEF Before
  <2>5. i - 1 = k - 1
    BY <1>2, <1>5, <2>4
  <2> QED BY <2>5
<1> QED BY <1>2, <1>6, AttemptsAssumption

-----------------------------------------------------------------------------
(* One chat moves.                                                         *)

\* What the invariant says of the handler of one chat.
ChatOK(c) == Untouched(c) /\ Walks(c) /\ Speaks(c) /\ Branches(c) /\ Drawn(c)

\* What it says of one job.
WorkOK(j) == Asks(j) /\ Ensured(j) /\ Tooled(j)

\* A step of one chat that touches no file keeps the invariant if it keeps
\* that chat's own part of it.
LEMMA ChatMoves ==
  ASSUME IInv, NEW c \in Chats, NEW r \in Chat,
         chat' = [chat EXCEPT ![c] = r],
         UNCHANGED <<ollama, shelf, second, work>>,
         numCtx' \in [Procs -> [Ref -> Nat \cup {Unknown}]], Cached',
         r.began = chat[c].began,
         ChatOK(c)'
  PROVE  IInv'
<1>1. TypeOK'
  BY DEF IInv, TypeOK
<1>2. chat'[c] = r /\ \A d \in Chats \ {c} : chat'[d] = chat[d]
  BY DEF IInv, TypeOK
<1>3. \A d \in Chats : chat'[d].began = chat[d].began
  BY <1>2
<1>4. Filed'
  <2>1. \A s \in 1..LastSecond :
          /\ shelf[s].drawing \in Chats \cup {NoChat}
          /\ shelf[s].model \in Chats \cup {NoChat}
    BY DEF IInv, TypeOK, Shelf
  <2> QED BY <1>3, <2>1 DEF IInv, Filed
<1>5. ASSUME NEW d \in Chats PROVE ChatOK(d)'
  <2>1. CASE d = c
    BY <2>1
  <2>2. CASE d # c
    <3>1. chat'[d] = chat[d]
      BY <1>2, <2>2
    <3>2. ChatOK(d)
      BY DEF IInv, ChatOK
    <3>3. Untouched(d)' /\ Walks(d)' /\ Speaks(d)'
      BY <3>1, <3>2 DEF ChatOK, Untouched, Walks, Speaks, At
    <3>4. Branches(d)'
      BY <3>1, <3>2 DEF ChatOK, Branches, At, Current, Windows, ResolveNumCtx
    <3>5. Drawn(d)'
      BY <3>1, <3>2 DEF ChatOK, Drawn
    <3> QED BY <3>3, <3>4, <3>5 DEF ChatOK
  <2> QED BY <2>1, <2>2
<1>6. \A j \in Jobs : WorkOK(j)'
  BY DEF IInv, WorkOK, Asks, Ensured, Tooled, Doing
<1> QED BY <1>1, <1>4, <1>5, <1>6 DEF IInv, ChatOK, WorkOK

\* The same when the caches stay as they are.
LEMMA ChatMovesAlone ==
  ASSUME IInv, NEW c \in Chats, NEW r \in Chat,
         chat' = [chat EXCEPT ![c] = r],
         UNCHANGED <<ollama, numCtx, shelf, second, work>>,
         r.began = chat[c].began,
         ChatOK(c)'
  PROVE  IInv'
<1>1. numCtx' \in [Procs -> [Ref -> Nat \cup {Unknown}]]
  BY DEF IInv, TypeOK
<1>2. Cached'
  BY DEF IInv, Cached
<1> QED BY <1>1, <1>2, ChatMoves

\* What a chat of the invariant is.
LEMMA ChatTyped ==
  ASSUME IInv, NEW c \in Chats
  PROVE  /\ chat[c] \in Chat /\ ChatOK(c)
         /\ chat[c].pc \in ChatPcs /\ chat[c].order \in Seq(Refs)
         /\ chat[c].at \in Nat /\ chat[c].label \in Nat /\ chat[c].window \in Nat
         /\ chat[c].began \in Nat /\ chat[c].stamp \in Nat
         /\ chat[c].stream \in BOOLEAN /\ chat[c].cad \in BOOLEAN
<1>1. chat[c] \in Chat /\ ChatOK(c)
  BY DEF IInv, TypeOK, ChatOK
<1> QED BY <1>1 DEF Chat

\* The handler of c is over, with an outcome that is no answer.
LEMMA EndsWithout ==
  ASSUME IInv, NEW c \in Chats, ~At(c, "idle"),
         NEW out \in Outcomes \ {"answer"}, End(c, out),
         UNCHANGED <<ollama, numCtx, shelf, second, work>>
  PROVE  IInv'
<1> DEFINE r == [chat[c] EXCEPT !.pc = "done", !.out = out]
<1>1. chat[c] \in Chat /\ ChatOK(c)
  BY ChatTyped
<1>2. r \in Chat
  BY <1>1 DEF Chat, ChatPcs
<1>3. /\ r.pc = "done" /\ r.out = out /\ r.stream = chat[c].stream
      /\ r.cad = chat[c].cad /\ r.order = chat[c].order /\ r.at = chat[c].at
      /\ r.label = chat[c].label /\ r.text = chat[c].text
      /\ r.stamp = chat[c].stamp /\ r.began = chat[c].began
  BY <1>1 DEF Chat
<1>4. chat' = [chat EXCEPT ![c] = r]
  BY <1>1 DEF End, IInv, TypeOK
<1> HIDE DEF r
<1>5. chat'[c] = r
  BY <1>4 DEF IInv, TypeOK
<1>6. ChatOK(c)'
  BY <1>1, <1>3, <1>5
    DEF ChatOK, Untouched, Walks, Speaks, Branches, Drawn, At
<1> QED BY <1>2, <1>3, <1>4, <1>6, ChatMovesAlone

-----------------------------------------------------------------------------
(* The steps of a chat.                                                    *)

LEMMA ReceiveKeeps ==
  ASSUME IInv, NEW c \in Chats, Receive(c), UNCHANGED work
  PROVE  IInv'
<1>1. PICK form \in Forms :
        chat' = [chat EXCEPT ![c] =
          [NewChat EXCEPT !.pc = "local", !.stream = form.stream,
                          !.cad = form.cad, !.image = form.image]]
  BY DEF Receive
<1>2. form.stream \in BOOLEAN /\ form.cad \in BOOLEAN /\ form.image \in BOOLEAN
  BY FormsAssumption
<1> DEFINE r == [NewChat EXCEPT !.pc = "local", !.stream = form.stream,
                                !.cad = form.cad, !.image = form.image]
<1>3. NewChat \in Chat
  BY DEF NewChat, Chat, ChatPcs, Texts, Outcomes
<1>4. r \in Chat
  BY <1>2, <1>3 DEF Chat, ChatPcs
<1>5. /\ r.pc = "local" /\ Len(r.order) = 0 /\ r.at = 0 /\ r.text = "none"
      /\ r.stamp = 0 /\ r.began = 0 /\ r.out = ""
  <2>1. /\ r.pc = "local" /\ r.order = NewChat.order /\ r.at = NewChat.at
        /\ r.text = NewChat.text /\ r.stamp = NewChat.stamp
        /\ r.began = NewChat.began /\ r.out = NewChat.out
    BY <1>3 DEF Chat
  <2>2. NewChat.order = <<>>
    BY DEF NewChat
  <2>3. Len(r.order) = 0
    BY <2>1, <2>2
  <2>4. /\ NewChat.at = 0 /\ NewChat.text = "none" /\ NewChat.stamp = 0
        /\ NewChat.began = 0 /\ NewChat.out = ""
    BY DEF NewChat
  <2> QED BY <2>1, <2>3, <2>4
<1>6. chat[c].began = 0
  <2>1. chat[c] = NewChat
    BY ChatTyped DEF ChatOK, Untouched, Receive
  <2>2. NewChat.began = 0
    BY DEF NewChat
  <2> QED BY <2>1, <2>2
<1> HIDE DEF r
<1>7. chat'[c] = r
  BY <1>1 DEF r, IInv, TypeOK
<1>8. ChatOK(c)'
  <2>1. Untouched(c)' /\ Speaks(c)' /\ Branches(c)'
    BY <1>5, <1>7 DEF Untouched, Speaks, Branches, At
  <2>2. Walks(c)'
    <3>1. Len(r.order) = 0 /\ r.at = 0 /\ r.pc = "local"
      BY <1>5
    <3> QED BY <1>7, <3>1, AttemptsAssumption DEF Walks
  <2>3. Drawn(c)'
    <3>1. r.began = 0 /\ r.stamp = 0 /\ r.pc = "local" /\ r.out = ""
      BY <1>5
    <3>2. 0 \in 0..LastSecond
      BY BoundsAssumption
    <3>3. r.began = 0
      BY <3>1
    <3>4. r.began \in 0..LastSecond
      BY <3>2, <3>3
    <3>5. ~(r.began > 0)
      BY <3>3
    <3> QED BY <1>7, <3>1, <3>4, <3>5 DEF Drawn
  <2> QED BY <2>1, <2>2, <2>3 DEF ChatOK
<1>9. chat' = [chat EXCEPT ![c] = r]
  BY <1>1 DEF r
<1> QED BY <1>4, <1>5, <1>6, <1>8, <1>9, ChatMovesAlone DEF Receive

LEMMA TryLocalKeeps ==
  ASSUME IInv, NEW c \in Chats, TryLocal(c), UNCHANGED work
  PROVE  IInv'
<1>1. CASE End(c, "elsewhere") \/ End(c, "refused")
  BY <1>1, EndsWithout DEF TryLocal, At, Outcomes
<1>2. CASE ~(End(c, "elsewhere") \/ End(c, "refused"))
  <2> DEFINE pc == IF chat[c].cad THEN "draw" ELSE "nodes"
             r == [chat[c] EXCEPT !.pc = pc]
  <2>1. chat[c] \in Chat /\ ChatOK(c) /\ At(c, "local")
    BY ChatTyped DEF TryLocal
  <2>2. chat' = [chat EXCEPT ![c] = r]
    BY <1>2, <2>1 DEF TryLocal, IInv, TypeOK
  <2>3. r \in Chat
    BY <2>1 DEF Chat, ChatPcs
  <2>4. /\ r.pc = pc /\ r.out = chat[c].out /\ r.stream = chat[c].stream
        /\ r.cad = chat[c].cad /\ r.order = chat[c].order /\ r.at = chat[c].at
        /\ r.label = chat[c].label /\ r.text = chat[c].text
        /\ r.stamp = chat[c].stamp /\ r.began = chat[c].began
    BY <2>1 DEF Chat
  <2> HIDE DEF r
  <2>5. chat'[c] = r
    BY <2>2 DEF IInv, TypeOK
  <2>6. ChatOK(c)'
    <3>1. Untouched(c)' /\ Speaks(c)' /\ Branches(c)'
      BY <2>1, <2>4, <2>5 DEF ChatOK, Untouched, Speaks, Branches, At
    <3>2. Walks(c)'
      BY <2>1, <2>4, <2>5 DEF ChatOK, Walks
    <3>3. Drawn(c)'
      BY <2>1, <2>4, <2>5 DEF ChatOK, Drawn, At, TryLocal
    <3> QED BY <3>1, <3>2, <3>3 DEF ChatOK
  <2> QED BY <2>2, <2>3, <2>4, <2>6, ChatMovesAlone DEF TryLocal
<1> QED BY <1>1, <1>2

LEMMA DecideKeeps ==
  ASSUME IInv, NEW c \in Chats, Decide(c), UNCHANGED work
  PROVE  IInv'
<1>1. CASE End(c, "error")
  BY <1>1, EndsWithout DEF Decide, At, Outcomes
<1>2. CASE ~End(c, "error")
  <2>1. PICK order \in FailoverOrders(ollama.disk) :
          chat' = [chat EXCEPT ![c].pc = "attempt", ![c].order = order,
                               ![c].label = IF chat[c].stream THEN 1 ELSE 0]
    BY <1>2 DEF Decide
  <2> DEFINE label == IF chat[c].stream THEN 1 ELSE 0
             r == [chat[c] EXCEPT !.pc = "attempt", !.order = order, !.label = label]
  <2>2. chat[c] \in Chat /\ ChatOK(c) /\ At(c, "nodes")
    BY ChatTyped DEF Decide
  <2>3. /\ order \in Seq(Refs) /\ Len(order) <= MaxAttempts
        /\ \A i, k \in 1..Len(order) : order[i] = order[k] => i = k
    <3>1. ollama.disk \subseteq Refs
      BY DEF IInv, TypeOK, Daemon
    <3>2. order \in Seq(ollama.disk)
      BY FailoverIsFresh
    <3> QED BY <3>1, <3>2, FailoverIsFresh
  <2>4. r \in Chat
    BY <2>2, <2>3 DEF Chat, ChatPcs
  <2>5. chat' = [chat EXCEPT ![c] = r]
    BY <2>1, <2>2 DEF IInv, TypeOK
  <2>6. /\ r.pc = "attempt" /\ r.out = chat[c].out /\ r.stream = chat[c].stream
        /\ r.cad = chat[c].cad /\ r.order = order /\ r.at = chat[c].at
        /\ r.label = label /\ r.text = chat[c].text
        /\ r.stamp = chat[c].stamp /\ r.began = chat[c].began
    BY <2>2 DEF Chat
  <2>7. chat[c].at = 0
    BY <2>2 DEF ChatOK, At, Branches
  <2> HIDE DEF r
  <2>8. chat'[c] = r
    BY <2>5 DEF IInv, TypeOK
  <2>9. ChatOK(c)'
    <3>1. Untouched(c)' /\ Speaks(c)' /\ Branches(c)'
      BY <2>2, <2>6, <2>7, <2>8 DEF ChatOK, Untouched, Speaks, Branches, At
    <3>2. Walks(c)'
      BY <2>3, <2>6, <2>7, <2>8 DEF Walks
    <3>3. Drawn(c)'
      BY <2>2, <2>6, <2>8 DEF ChatOK, Drawn, At, Decide
    <3> QED BY <3>1, <3>2, <3>3 DEF ChatOK
  <2> QED BY <2>4, <2>5, <2>6, <2>9, ChatMovesAlone DEF Decide
<1> QED BY <1>1, <1>2

LEMMA HangupKeeps ==
  ASSUME IInv, NEW c \in Chats, Hangup(c), UNCHANGED work
  PROVE  IInv'
<1> DEFINE r == [chat[c] EXCEPT !.live = FALSE]
<1>1. chat[c] \in Chat /\ ChatOK(c) /\ ~At(c, "idle")
  BY ChatTyped DEF Hangup, At
<1>2. chat' = [chat EXCEPT ![c] = r]
  BY <1>1 DEF Hangup, IInv, TypeOK
<1>3. r \in Chat
  BY <1>1 DEF Chat
<1>4. /\ r.pc = chat[c].pc /\ r.out = chat[c].out /\ r.stream = chat[c].stream
      /\ r.cad = chat[c].cad /\ r.order = chat[c].order /\ r.at = chat[c].at
      /\ r.label = chat[c].label /\ r.text = chat[c].text
      /\ r.window = chat[c].window
      /\ r.stamp = chat[c].stamp /\ r.began = chat[c].began
  BY <1>1 DEF Chat
<1> HIDE DEF r
<1>5. chat'[c] = r
  BY <1>2 DEF IInv, TypeOK
<1>6. ChatOK(c)'
  <2>1. Untouched(c)' /\ Speaks(c)'
    BY <1>1, <1>4, <1>5 DEF ChatOK, Untouched, Speaks, At
  <2>2. Walks(c)'
    BY <1>1, <1>4, <1>5 DEF ChatOK, Walks
  <2>3. Branches(c)'
    BY <1>1, <1>4, <1>5
      DEF ChatOK, Branches, At, Current, Windows, ResolveNumCtx
  <2>4. Drawn(c)'
    BY <1>1, <1>4, <1>5 DEF ChatOK, Drawn, Hangup
  <2> QED BY <2>1, <2>2, <2>3, <2>4 DEF ChatOK
<1> QED BY <1>2, <1>3, <1>4, <1>6, ChatMovesAlone DEF Hangup

LEMMA DeltaKeeps ==
  ASSUME IInv, NEW c \in Chats, Delta(c), UNCHANGED work
  PROVE  IInv'
<1> DEFINE r == [chat[c] EXCEPT !.text = "own"]
<1>1. chat[c] \in Chat /\ ChatOK(c) /\ At(c, "infer")
  BY ChatTyped DEF Delta
<1>2. chat' = [chat EXCEPT ![c] = r]
  BY <1>1 DEF Delta, IInv, TypeOK, ChatOK, Speaks
<1>3. r \in Chat
  BY <1>1 DEF Chat, Texts
<1>4. /\ r.pc = chat[c].pc /\ r.out = chat[c].out /\ r.stream = chat[c].stream
      /\ r.cad = chat[c].cad /\ r.order = chat[c].order /\ r.at = chat[c].at
      /\ r.label = chat[c].label /\ r.text = "own"
      /\ r.window = chat[c].window
      /\ r.stamp = chat[c].stamp /\ r.began = chat[c].began
  BY <1>1 DEF Chat
<1> HIDE DEF r
<1>5. chat'[c] = r
  BY <1>2 DEF IInv, TypeOK
<1>6. ChatOK(c)'
  <2>1. Untouched(c)' /\ Speaks(c)'
    BY <1>1, <1>4, <1>5 DEF ChatOK, Untouched, Speaks, At
  <2>2. Walks(c)'
    BY <1>1, <1>4, <1>5 DEF ChatOK, Walks
  <2>3. Branches(c)'
    BY <1>1, <1>4, <1>5
      DEF ChatOK, Branches, At, Current, Windows, ResolveNumCtx
  <2>4. Drawn(c)'
    BY <1>1, <1>4, <1>5 DEF ChatOK, Drawn, Delta
  <2> QED BY <2>1, <2>2, <2>3, <2>4 DEF ChatOK
<1> QED BY <1>2, <1>3, <1>4, <1>6, ChatMovesAlone DEF Delta

LEMMA FinishKeeps ==
  ASSUME IInv, NEW c \in Chats, Finish(c), UNCHANGED work
  PROVE  IInv'
<1> DEFINE r == [chat[c] EXCEPT !.pc = "done", !.out = "answer",
                                !.label = SpeakerAtEnd(c), !.text = TextAtEnd(c)]
<1>1. chat[c] \in Chat /\ ChatOK(c) /\ At(c, "infer")
  BY ChatTyped DEF Finish
<1>2. chat' = [chat EXCEPT ![c] = r]
  BY <1>1 DEF Finish
<1>3. TextAtEnd(c) = chat[c].text /\ SpeakerAtEnd(c) \in Nat
  BY <1>1, ChatTyped DEF ChatOK, Speaks, TextAtEnd, SpeakerAtEnd
<1>4. /\ r \in Chat
      /\ r.pc = "done" /\ r.out = "answer" /\ r.stream = chat[c].stream
      /\ r.cad = chat[c].cad /\ r.order = chat[c].order /\ r.at = chat[c].at
      /\ r.label = SpeakerAtEnd(c) /\ r.text = chat[c].text
      /\ r.stamp = chat[c].stamp /\ r.began = chat[c].began
  BY <1>1, <1>3 DEF Chat, ChatPcs, Outcomes
<1>5. ~chat[c].cad /\ SpeakerAtEnd(c) = chat[c].at
  <2>1. chat[c].at > 0 /\ chat[c].at \in Nat
    BY <1>1, ChatTyped DEF ChatOK, Walks, At
  <2>2. ~chat[c].cad
    BY <1>1 DEF ChatOK, Branches, At
  <2>3. chat[c].stream => chat[c].label = chat[c].at
    BY <1>1, <2>1 DEF ChatOK, Speaks, At
  <2> QED BY <2>2, <2>3 DEF SpeakerAtEnd
<1> HIDE DEF r
<1>6. chat'[c] = r
  BY <1>2 DEF IInv, TypeOK
<1>7. ChatOK(c)'
  <2>1. Untouched(c)' /\ Speaks(c)' /\ Branches(c)'
    BY <1>1, <1>4, <1>5, <1>6 DEF ChatOK, Untouched, Speaks, Branches, At
  <2>2. Walks(c)'
    BY <1>1, <1>4, <1>6 DEF ChatOK, Walks
  <2>3. Drawn(c)'
    BY <1>1, <1>4, <1>5, <1>6 DEF ChatOK, Drawn, Finish
  <2> QED BY <2>1, <2>2, <2>3 DEF ChatOK
<1> QED BY <1>2, <1>4, <1>7, ChatMovesAlone DEF Finish

LEMMA FailKeeps ==
  ASSUME IInv, NEW c \in Chats, Fail(c), UNCHANGED work
  PROVE  IInv'
<1>1. CASE CallerGone(c)
  BY <1>1, EndsWithout DEF Fail, At, Outcomes
<1>2. CASE ~CallerGone(c)
  <2> DEFINE r == [chat[c] EXCEPT !.pc = "attempt"]
  <2>1. chat[c] \in Chat /\ ChatOK(c) /\ At(c, "infer")
    BY ChatTyped DEF Fail
  <2>2. chat' = [chat EXCEPT ![c] = r]
    BY <1>2, <2>1 DEF Fail, IInv, TypeOK
  <2>3. r \in Chat
    BY <2>1 DEF Chat, ChatPcs
  <2>4. /\ r.pc = "attempt" /\ r.out = chat[c].out /\ r.stream = chat[c].stream
        /\ r.cad = chat[c].cad /\ r.order = chat[c].order /\ r.at = chat[c].at
        /\ r.label = chat[c].label /\ r.text = chat[c].text
        /\ r.stamp = chat[c].stamp /\ r.began = chat[c].began
    BY <2>1 DEF Chat
  <2> HIDE DEF r
  <2>5. chat'[c] = r
    BY <2>2 DEF IInv, TypeOK
  <2>6. ChatOK(c)'
    <3>1. Untouched(c)' /\ Speaks(c)' /\ Branches(c)'
      BY <2>1, <2>4, <2>5 DEF ChatOK, Untouched, Speaks, Branches, At
    <3>2. Walks(c)'
      BY <2>1, <2>4, <2>5 DEF ChatOK, Walks
    <3>3. Drawn(c)'
      BY <2>1, <2>4, <2>5 DEF ChatOK, Drawn, Fail
    <3> QED BY <3>1, <3>2, <3>3 DEF ChatOK
  <2> QED BY <2>2, <2>3, <2>4, <2>6, ChatMovesAlone DEF Fail
<1> QED BY <1>1, <1>2

LEMMA StatKeeps ==
  ASSUME IInv, NEW c \in Chats, Stat(c), UNCHANGED work
  PROVE  IInv'
<1>1. CASE End(c, "error")
  BY <1>1, EndsWithout DEF Stat, At, Outcomes
<1>2. CASE shelf[chat[c].stamp].model # NoChat
  <2> DEFINE r == [chat[c] EXCEPT !.pc = "done", !.out = "answer"]
  <2>1. chat[c] \in Chat /\ ChatOK(c) /\ At(c, "stat")
    BY ChatTyped DEF Stat
  <2>2. chat' = [chat EXCEPT ![c] = r]
    BY <1>2, <2>1 DEF Stat, End, IInv, TypeOK
  <2>3. r \in Chat
    BY <2>1 DEF Chat, ChatPcs, Outcomes
  <2>4. /\ r.pc = "done" /\ r.out = "answer" /\ r.stream = chat[c].stream
        /\ r.cad = chat[c].cad /\ r.order = chat[c].order /\ r.at = chat[c].at
        /\ r.label = chat[c].label /\ r.text = chat[c].text
        /\ r.stamp = chat[c].stamp /\ r.began = chat[c].began
    BY <2>1 DEF Chat
  <2>5. chat[c].cad
    BY <2>1 DEF ChatOK, Branches, At
  <2> HIDE DEF r
  <2>6. chat'[c] = r
    BY <2>2 DEF IInv, TypeOK
  <2>7. ChatOK(c)'
    <3>1. Untouched(c)' /\ Speaks(c)' /\ Branches(c)'
      BY <2>1, <2>4, <2>5, <2>6 DEF ChatOK, Untouched, Speaks, Branches, At
    <3>2. Walks(c)'
      BY <2>1, <2>4, <2>6 DEF ChatOK, Walks
    <3>3. Drawn(c)'
      BY <1>2, <2>1, <2>4, <2>6 DEF ChatOK, Drawn, Stat, At
    <3> QED BY <3>1, <3>2, <3>3 DEF ChatOK
  <2> QED BY <2>2, <2>3, <2>4, <2>7, ChatMovesAlone DEF Stat
<1> QED BY <1>1, <1>2 DEF Stat

-----------------------------------------------------------------------------
(* The context windows.                                                    *)

\* A model of the daemon is what its name resolves to.
LEMMA FullNames ==
  ASSUME NEW r \in Refs
  PROVE  r \in Ref /\ Resolved(r) = r
BY RefsAssumption, TagsAssumption DEF Ref, Resolved

\* A window that is asked for is a number, whatever has been detected.
LEMMA WindowTyped ==
  ASSUME NEW requested \in Nat, NEW detected \in Nat \cup {Unknown}
  PROVE  ResolveNumCtx(requested, detected) \in Nat
BY OverrideAssumption DEF ResolveNumCtx, Unknown, FallbackNumCtx, NumCtxCap

\* Without a need to ask, the window is the model's own or the floor.
LEMMA WindowKnown ==
  ASSUME IInv, NEW p \in Procs, NEW r \in Ref, ~NeedsProbe(p, r, 0)
  PROVE  ResolveNumCtx(0, numCtx[p][r]) \in Windows(r)
<1>1. CASE Override > 0
  BY <1>1 DEF ResolveNumCtx, Windows
<1>2. CASE ~(Override > 0)
  <2>1. Override = 0
    BY <1>2, OverrideAssumption
  <2>2. numCtx[p][r] = 0 \/ numCtx[p][r] = Window[Resolved(r)]
    BY <2>1 DEF IInv, Cached, NeedsProbe
  <2> QED BY <2>2 DEF Windows
<1> QED BY <1>1, <1>2

\* Remembering keeps the cache true to the models, or to its failures.
LEMMA RememberKeeps ==
  ASSUME IInv, NEW p \in Procs, NEW r \in Ref, NEW answered \in BOOLEAN,
         answered => Resolved(r) \in Refs, Remember(p, r, answered)
  PROVE  numCtx' \in [Procs -> [Ref -> Nat \cup {Unknown}]] /\ Cached'
<1> DEFINE detected == IF answered THEN Window[Resolved(r)] ELSE 0
<1>1. numCtx \in [Procs -> [Ref -> Nat \cup {Unknown}]] /\ Cached
  BY DEF IInv, TypeOK
<1>2. detected \in Nat
  BY WindowAssumption
<1>3. /\ answered => Resolved(r) \in Refs /\ detected = Window[Resolved(r)]
      /\ ~answered => detected = 0
  OBVIOUS
<1>4. numCtx' = [numCtx EXCEPT ![p] =
        [k \in Ref |-> IF k = r THEN detected ELSE numCtx[p][k]]]
  BY <1>1 DEF Remember, CacheKeys
<1> HIDE DEF detected
<1>5. \A q \in Procs : \A k \in Ref :
        numCtx'[q][k] = IF q = p /\ k = r THEN detected ELSE numCtx[q][k]
  BY <1>1, <1>4
<1>6. numCtx' \in [Procs -> [Ref -> Nat \cup {Unknown}]]
  BY <1>1, <1>2, <1>4
<1>7. Cached'
  <2> SUFFICES ASSUME NEW q \in Procs, NEW k \in Ref
               PROVE  \/ numCtx'[q][k] \in {Unknown, 0}
                      \/ Resolved(k) \in Refs /\ numCtx'[q][k] = Window[Resolved(k)]
    BY DEF Cached
  <2>1. CASE q = p /\ k = r
    <3>1. numCtx'[q][k] = detected
      BY <1>5, <2>1
    <3>2. CASE answered
      BY <1>3, <2>1, <3>1, <3>2
    <3>3. CASE ~answered
      BY <1>3, <3>1, <3>3
    <3> QED BY <3>2, <3>3
  <2>2. CASE ~(q = p /\ k = r)
    BY <1>1, <1>5, <2>2 DEF Cached
  <2> QED BY <2>1, <2>2
<1> QED BY <1>6, <1>7

LEMMA AttemptKeeps ==
  ASSUME IInv, NEW c \in Chats, Attempt(c), UNCHANGED work
  PROVE  IInv'
<1>1. CASE chat[c].at = Len(chat[c].order)
  BY <1>1, EndsWithout DEF Attempt, At, Outcomes
<1>2. CASE chat[c].at # Len(chat[c].order) /\ CallerGone(c)
  BY <1>2, EndsWithout DEF Attempt, At, Outcomes
<1>3. CASE chat[c].at # Len(chat[c].order) /\ ~CallerGone(c)
  <2> DEFINE at == NextAttempt(c)
             next == chat[c].order[at]
             pc == IF NeedsProbe("serve", next, 0) THEN "show" ELSE "infer"
             window == ResolveNumCtx(0, numCtx["serve"][next])
             r == [chat[c] EXCEPT !.pc = pc, !.at = at, !.label = Speaker(c),
                                  !.text = TextLeft(c), !.window = window]
  <2>1. chat[c] \in Chat /\ ChatOK(c) /\ At(c, "attempt")
    BY ChatTyped DEF Attempt
  <2>2. chat' = [chat EXCEPT ![c] = r]
    BY <1>3, <2>1 DEF Attempt
  <2>3. at \in 1..Len(chat[c].order) /\ at = chat[c].at + 1 /\ at \in Nat /\ at > 0
    <3>1. chat[c].at <= Len(chat[c].order)
      BY <2>1 DEF ChatOK, Walks
    <3>2. chat[c].at \in Nat /\ Len(chat[c].order) \in Nat
      BY ChatTyped
    <3> QED BY <1>3, <3>1, <3>2 DEF NextAttempt
  <2>4. next \in Refs /\ next \in Ref /\ Resolved(next) = next
    <3>1. next \in Refs
      BY <2>3, ChatTyped
    <3> QED BY <3>1, FullNames
  <2>5. window \in Nat /\ (~NeedsProbe("serve", next, 0) => window \in Windows(next))
    <3>1. numCtx["serve"][next] \in Nat \cup {Unknown}
      BY <2>4 DEF IInv, TypeOK, Procs
    <3> QED BY <2>4, <3>1, WindowTyped, WindowKnown DEF Procs
  <2>6. /\ Speaker(c) \in Nat /\ TextLeft(c) \in {"none", "own"}
        /\ chat[c].stream => Speaker(c) = at
    <3>1. chat[c].text \in {"none", "own"} /\ chat[c].at \in Nat
      BY <2>1, ChatTyped DEF ChatOK, Speaks
    <3>2. chat[c].label \in Nat /\ chat[c].stream \in BOOLEAN
      BY ChatTyped
    <3>3. chat[c].stream =>
            chat[c].label = IF chat[c].at = 0 THEN 1 ELSE chat[c].at
      BY <2>1 DEF ChatOK, Speaks, At
    <3> QED BY <2>3, <3>1, <3>2, <3>3 DEF Speaker, TextLeft, Relabel, Discard
  <2> HIDE DEF at, next, window
  <2>7. r \in Chat
    BY <2>1, <2>3, <2>5, <2>6 DEF Chat, ChatPcs, Texts
  <2>8. /\ r.pc = pc /\ r.out = chat[c].out /\ r.stream = chat[c].stream
        /\ r.cad = chat[c].cad /\ r.order = chat[c].order /\ r.at = at
        /\ r.label = Speaker(c) /\ r.text = TextLeft(c) /\ r.window = window
        /\ r.stamp = chat[c].stamp /\ r.began = chat[c].began
    BY <2>1 DEF Chat
  <2>9. r.pc \in {"show", "infer"} /\ (r.pc = "infer" => window \in Windows(next))
    BY <2>5, <2>8
  <2>10. next = r.order[r.at]
    BY <2>8 DEF next
  <2> HIDE DEF r
  <2>11. chat'[c] = r
    BY <2>2 DEF IInv, TypeOK
  <2>12. ChatOK(c)'
    <3>1. Untouched(c)'
      BY <2>9, <2>11 DEF Untouched, At
    <3>2. Speaks(c)'
      <4>1. chat[c].out = ""
        BY <2>1 DEF ChatOK, Branches, At
      <4>2. r.out # "answer"
        BY <2>8, <4>1
      <4>3. r.text \in {"none", "own"}
        BY <2>6, <2>8
      <4>4. r.stream => r.label = r.at /\ r.at # 0
        BY <2>3, <2>6, <2>8
      <4> QED BY <2>11, <4>2, <4>3, <4>4 DEF Speaks
    <3>3. Branches(c)'
      <4>1. chat[c].out = "" /\ ~chat[c].cad
        BY <2>1 DEF ChatOK, Branches, At
      <4>2. At(c, "infer")' => chat'[c].window \in Windows(Current(c)')
        BY <2>8, <2>9, <2>10, <2>11 DEF At, Current
      <4> QED BY <2>8, <2>9, <2>11, <4>1, <4>2
        DEF Branches, At, Windows, ResolveNumCtx
    <3>4. Walks(c)'
      <4>1. r.at <= Len(r.order) /\ r.at > 0
        BY <2>3, <2>8, ChatTyped
      <4> QED BY <2>1, <2>8, <2>11, <4>1 DEF ChatOK, Walks
    <3>5. Drawn(c)'
      BY <2>1, <2>8, <2>9, <2>11 DEF ChatOK, Drawn, Attempt, Branches, At
    <3> QED BY <3>1, <3>2, <3>3, <3>4, <3>5 DEF ChatOK
  <2> QED BY <2>2, <2>7, <2>8, <2>12, ChatMovesAlone DEF Attempt
<1> QED BY <1>1, <1>2, <1>3

LEMMA ShowChatKeeps ==
  ASSUME IInv, NEW c \in Chats, ShowChat(c), UNCHANGED work
  PROVE  IInv'
<1>1. PICK answered \in BOOLEAN :
        /\ answered => MayAnswer(Current(c)) /\ ~CallerGone(c)
        /\ Remember("serve", Current(c), answered)
        /\ chat' = [chat EXCEPT ![c].pc = "infer",
             ![c].window = ResolveNumCtx(0, IF answered THEN Window[Current(c)] ELSE 0)]
  BY DEF ShowChat
<1> DEFINE detected == IF answered THEN Window[Current(c)] ELSE 0
           window == ResolveNumCtx(0, detected)
           r == [chat[c] EXCEPT !.pc = "infer", !.window = window]
<1>2. chat[c] \in Chat /\ ChatOK(c) /\ At(c, "show")
  BY ChatTyped DEF ShowChat
<1>3. chat' = [chat EXCEPT ![c] = r]
  BY <1>1, <1>2 DEF IInv, TypeOK
<1>4. Current(c) \in Refs /\ Current(c) \in Ref /\ Resolved(Current(c)) = Current(c)
  <2>1. chat[c].at \in 1..Len(chat[c].order)
    BY <1>2, ChatTyped DEF ChatOK, Walks, At
  <2>2. Current(c) \in Refs
    BY <2>1, ChatTyped DEF Current
  <2> QED BY <2>2, FullNames
<1>5. window \in Nat /\ window \in Windows(Current(c))
  <2>1. detected \in Nat
    BY <1>4, WindowAssumption
  <2>2. detected = 0 \/ detected = Window[Current(c)]
    <3>1. CASE answered
      BY <3>1
    <3>2. CASE ~answered
      BY <3>2
    <3> QED BY <3>1, <3>2
  <2> HIDE DEF detected
  <2>3. window \in Nat
    BY <2>1, WindowTyped
  <2> QED BY <1>4, <2>2, <2>3 DEF Windows
<1>6. numCtx' \in [Procs -> [Ref -> Nat \cup {Unknown}]] /\ Cached'
  BY <1>1, <1>4, RememberKeeps DEF Procs
<1> HIDE DEF window
<1>7. r \in Chat
  BY <1>2, <1>5 DEF Chat, ChatPcs
<1>8. /\ r.pc = "infer" /\ r.out = chat[c].out /\ r.stream = chat[c].stream
      /\ r.cad = chat[c].cad /\ r.order = chat[c].order /\ r.at = chat[c].at
      /\ r.label = chat[c].label /\ r.text = chat[c].text /\ r.window = window
      /\ r.stamp = chat[c].stamp /\ r.began = chat[c].began
  BY <1>2 DEF Chat
<1> HIDE DEF r
<1>9. chat'[c] = r
  BY <1>3 DEF IInv, TypeOK
<1>10. ChatOK(c)'
  <2>1. Untouched(c)' /\ Speaks(c)'
    BY <1>2, <1>8, <1>9 DEF ChatOK, Untouched, Speaks, Branches, At
  <2>2. Walks(c)'
    BY <1>2, <1>8, <1>9 DEF ChatOK, Walks, At
  <2>3. Branches(c)'
    <3>1. chat[c].out = "" /\ ~chat[c].cad
      BY <1>2 DEF ChatOK, Branches, At
    <3>2. Current(c)' = Current(c)
      BY <1>8, <1>9 DEF Current
    <3>3. chat'[c].window \in Windows(Current(c)')
      BY <1>5, <1>8, <1>9, <3>2
    <3> QED BY <1>8, <1>9, <3>1, <3>3 DEF Branches, At, Windows, ResolveNumCtx
  <2>4. Drawn(c)'
    BY <1>2, <1>8, <1>9 DEF ChatOK, Drawn, ShowChat, Branches, At
  <2> QED BY <2>1, <2>2, <2>3, <2>4 DEF ChatOK
<1> QED BY <1>3, <1>6, <1>7, <1>8, <1>10, ChatMoves DEF ShowChat

-----------------------------------------------------------------------------
(* The drawings.                                                           *)

\* The files of a second are nobody's or a chat's.
LEMMA ShelfTyped ==
  ASSUME IInv, NEW s \in 1..LastSecond
  PROVE  /\ shelf[s] \in Shelf
         /\ shelf[s].drawing \in Chats \cup {NoChat}
         /\ shelf[s].model \in Chats \cup {NoChat}
BY DEF IInv, TypeOK, Shelf

\* A drawing chat of which only the place, the second and the stamp change
\* says as much as before about its candidates and its text.
LEMMA DrawMoves ==
  ASSUME IInv, NEW c \in Chats, NEW r \in Chat, chat' = [chat EXCEPT ![c] = r],
         chat[c].pc \in {"draw", "cad"}, r.pc \in {"cad", "stat"},
         r.stream = chat[c].stream, r.cad = chat[c].cad,
         r.order = chat[c].order, r.at = chat[c].at, r.label = chat[c].label,
         r.text = chat[c].text, r.out = chat[c].out
  PROVE  /\ Untouched(c)' /\ Walks(c)' /\ Speaks(c)' /\ Branches(c)'
         /\ \A d \in Chats \ {c} :
              /\ chat'[d] = chat[d]
              /\ Untouched(d)' /\ Walks(d)' /\ Speaks(d)' /\ Branches(d)'
<1>1. chat'[c] = r /\ \A d \in Chats \ {c} : chat'[d] = chat[d]
  BY DEF IInv, TypeOK
<1>2. ChatOK(c)
  BY ChatTyped
<1>3. Untouched(c)' /\ Speaks(c)' /\ Branches(c)'
  BY <1>1, <1>2 DEF ChatOK, Untouched, Speaks, Branches, At
<1>4. Walks(c)'
  BY <1>1, <1>2 DEF ChatOK, Walks
<1>5. ASSUME NEW d \in Chats \ {c}
      PROVE  Untouched(d)' /\ Walks(d)' /\ Speaks(d)' /\ Branches(d)'
  <2>1. chat'[d] = chat[d] /\ ChatOK(d)
    BY <1>1, ChatTyped
  <2>2. Untouched(d)' /\ Walks(d)' /\ Speaks(d)'
    BY <2>1 DEF ChatOK, Untouched, Walks, Speaks, At
  <2>3. Branches(d)'
    BY <2>1 DEF ChatOK, Branches, At, Current, Windows, ResolveNumCtx
  <2> QED BY <2>2, <2>3
<1> QED BY <1>1, <1>3, <1>4, <1>5

LEMMA DrawKeeps ==
  ASSUME IInv, NEW c \in Chats, Draw(c), UNCHANGED work
  PROVE  IInv'
<1>1. CASE End(c, "error") /\ UNCHANGED shelf
  BY <1>1, EndsWithout DEF Draw, At, Outcomes
<1>2. CASE ~(End(c, "error") /\ UNCHANGED shelf)
  <2> DEFINE r == [chat[c] EXCEPT !.pc = "cad", !.began = second, !.stamp = second]
  <2>1. /\ chat[c] \in Chat /\ ChatOK(c) /\ At(c, "draw")
        /\ second \in 1..LastSecond /\ second \in Nat /\ second > 0
    BY ChatTyped, BoundsAssumption DEF Draw, IInv, TypeOK
  <2>2. /\ chat' = [chat EXCEPT ![c] = r]
        /\ shelf' = [shelf EXCEPT ![second].drawing = c]
    BY <1>2 DEF Draw, Stamp
  <2>3. r \in Chat
    BY <2>1 DEF Chat, ChatPcs
  <2>4. /\ r.pc = "cad" /\ r.out = chat[c].out /\ r.stream = chat[c].stream
        /\ r.cad = chat[c].cad /\ r.order = chat[c].order /\ r.at = chat[c].at
        /\ r.label = chat[c].label /\ r.text = chat[c].text
        /\ r.stamp = second /\ r.began = second
    BY <2>1 DEF Chat
  <2> HIDE DEF r
  <2>5. /\ chat'[c] = r
        /\ Untouched(c)' /\ Walks(c)' /\ Speaks(c)' /\ Branches(c)'
        /\ \A d \in Chats \ {c} :
             /\ chat'[d] = chat[d]
             /\ Untouched(d)' /\ Walks(d)' /\ Speaks(d)' /\ Branches(d)'
    BY <2>1, <2>2, <2>3, <2>4, DrawMoves DEF IInv, TypeOK, At
  <2>6. /\ \A s \in 1..LastSecond :
             /\ shelf'[s].model = shelf[s].model
             /\ shelf'[s].drawing = IF s = second THEN c ELSE shelf[s].drawing
        /\ shelf' \in [1..LastSecond -> Shelf]
    <3>1. shelf \in [1..LastSecond -> Shelf]
      BY DEF IInv, TypeOK
    <3> QED BY <2>1, <2>2, <3>1 DEF Shelf
  <2>7. chat[c].began = 0 /\ chat[c].out = ""
    BY <2>1 DEF ChatOK, Drawn, Branches, At
  <2>8. Filed'
    <3> SUFFICES ASSUME NEW s \in 1..LastSecond
                 PROVE  /\ shelf'[s].drawing # NoChat =>
                             chat'[shelf'[s].drawing].began = s
                        /\ shelf'[s].model # NoChat =>
                             chat'[shelf'[s].model].began = s
      BY DEF Filed
    <3>1. ASSUME NEW d \in Chats, chat[d].began = s PROVE chat'[d].began = s
      <4>1. s # 0
        OBVIOUS
      <4>2. chat[c].began = 0
        BY <2>7
      <4>3. d # c
        BY <3>1, <4>1, <4>2
      <4> QED BY <2>5, <3>1, <4>3
    <3>2. shelf[s].model # NoChat => chat'[shelf[s].model].began = s
      BY <3>1, ShelfTyped DEF IInv, Filed
    <3>3. shelf[s].drawing # NoChat => chat'[shelf[s].drawing].began = s
      BY <3>1, ShelfTyped DEF IInv, Filed
    <3> QED BY <2>4, <2>5, <2>6, <3>2, <3>3
  <2>9. ASSUME NEW d \in Chats PROVE Drawn(d)'
    <3>1. CASE d = c
      <4>1. chat'[c].stamp = second /\ chat'[c].began = second
        BY <2>4, <2>5
      <4>2. chat'[c].out = "" /\ chat'[c].pc = "cad"
        BY <2>4, <2>5, <2>7
      <4>3. shelf'[second].drawing # NoChat
        BY <2>1, <2>6, ChatsAssumption
      <4>4. second \in 0..LastSecond
        BY <2>1, BoundsAssumption
      <4> QED BY <2>1, <3>1, <4>1, <4>2, <4>3, <4>4 DEF Drawn
    <3>2. CASE d # c
      <4>1. chat'[d] = chat[d] /\ Drawn(d) /\ chat[d].began \in 0..LastSecond
        BY <2>5, <3>2, ChatTyped DEF ChatOK, Drawn
      <4>2. CASE chat[d].began = 0
        BY <4>1, <4>2 DEF Drawn
      <4>3. CASE chat[d].began \in 1..LastSecond
        BY <2>6, <4>1, <4>3, ChatsAssumption DEF Drawn
      <4> QED BY <4>1, <4>2, <4>3, BoundsAssumption
    <3> QED BY <3>1, <3>2
  <2>10. TypeOK'
    BY <2>2, <2>3, <2>6 DEF IInv, TypeOK, Draw
  <2>11. Cached' /\ \A j \in Jobs : WorkOK(j)'
    BY DEF IInv, Cached, WorkOK, Asks, Ensured, Tooled, Doing, Draw
  <2> QED BY <2>5, <2>8, <2>9, <2>10, <2>11 DEF IInv, WorkOK
<1> QED BY <1>1, <1>2

LEMMA BuildKeeps ==
  ASSUME IInv, NEW c \in Chats, Build(c), UNCHANGED work
  PROVE  IInv'
<1> DEFINE r == [chat[c] EXCEPT !.pc = "stat"]
           t == chat[c].stamp
<1>1. chat[c] \in Chat /\ ChatOK(c) /\ At(c, "cad")
  BY ChatTyped DEF Build
<1>2. chat' = [chat EXCEPT ![c] = r]
  BY <1>1 DEF Build, IInv, TypeOK
<1>3. r \in Chat
  BY <1>1 DEF Chat, ChatPcs
<1>4. /\ r.pc = "stat" /\ r.out = chat[c].out /\ r.stream = chat[c].stream
      /\ r.cad = chat[c].cad /\ r.order = chat[c].order /\ r.at = chat[c].at
      /\ r.label = chat[c].label /\ r.text = chat[c].text
      /\ r.stamp = chat[c].stamp /\ r.began = chat[c].began
  BY <1>1 DEF Chat
<1>5. t \in 1..LastSecond
  BY <1>1, BoundsAssumption DEF ChatOK, Drawn, At
<1> HIDE DEF r, t
<1>6. /\ chat'[c] = r
      /\ Untouched(c)' /\ Walks(c)' /\ Speaks(c)' /\ Branches(c)'
      /\ \A d \in Chats \ {c} :
           /\ chat'[d] = chat[d]
           /\ Untouched(d)' /\ Walks(d)' /\ Speaks(d)' /\ Branches(d)'
  BY <1>1, <1>2, <1>3, <1>4, DrawMoves DEF IInv, TypeOK, At
<1>7. /\ \A s \in 1..LastSecond :
           /\ shelf'[s].drawing = shelf[s].drawing
           /\ \/ shelf'[s].model = shelf[s].model
              \/ shelf'[s].model = shelf[s].drawing
      /\ shelf' \in [1..LastSecond -> Shelf]
  <2>1. shelf \in [1..LastSecond -> Shelf]
    BY DEF IInv, TypeOK
  <2>2. CASE UNCHANGED shelf
    BY <2>1, <2>2
  <2>3. CASE shelf' = [shelf EXCEPT ![t].model = shelf[t].drawing]
    BY <1>5, <2>1, <2>3 DEF Shelf
  <2> QED BY <2>2, <2>3 DEF Build, t
<1>8. \A d \in Chats : chat'[d].began = chat[d].began
  BY <1>4, <1>6
<1>9. Filed'
  <2> SUFFICES ASSUME NEW s \in 1..LastSecond
               PROVE  /\ shelf'[s].drawing # NoChat =>
                           chat'[shelf'[s].drawing].began = s
                      /\ shelf'[s].model # NoChat =>
                           chat'[shelf'[s].model].began = s
    BY DEF Filed
  <2>1. shelf[s].model # NoChat => chat'[shelf[s].model].began = s
    BY <1>8, ShelfTyped DEF IInv, Filed
  <2>2. shelf[s].drawing # NoChat => chat'[shelf[s].drawing].began = s
    BY <1>8, ShelfTyped DEF IInv, Filed
  <2> QED BY <1>7, <2>1, <2>2
<1>10. ASSUME NEW d \in Chats PROVE Drawn(d)'
  <2>1. Drawn(d) /\ chat[d].began \in 0..LastSecond
    BY ChatTyped DEF ChatOK, Drawn
  <2>2. /\ chat'[d].stamp = chat[d].stamp /\ chat'[d].began = chat[d].began
        /\ chat'[d].cad = chat[d].cad /\ chat'[d].out = chat[d].out
        /\ \/ chat'[d].pc = chat[d].pc
           \/ chat'[d].pc = "stat" /\ chat[d].pc = "cad"
    BY <1>1, <1>4, <1>6 DEF At
  <2>3. CASE chat[d].began = 0
    BY <2>1, <2>2, <2>3 DEF Drawn
  <2>4. CASE chat[d].began \in 1..LastSecond
    BY <1>7, <2>1, <2>2, <2>4 DEF Drawn
  <2> QED BY <2>1, <2>3, <2>4, BoundsAssumption
<1>11. TypeOK'
  BY <1>2, <1>3, <1>7 DEF IInv, TypeOK, Build
<1>12. Cached' /\ \A j \in Jobs : WorkOK(j)'
  BY DEF IInv, Cached, WorkOK, Asks, Ensured, Tooled, Doing, Build
<1> QED BY <1>6, <1>9, <1>10, <1>11, <1>12 DEF IInv, WorkOK

-----------------------------------------------------------------------------
(* The steps of a job and of the daemon.                                   *)

\* The daemon keeps the kind of its machine and what is either there or was
\* removed by its user.
Grows ==
  /\ ollama' \in Daemon /\ ollama'.gpu = ollama.gpu
  /\ ollama.removed \subseteq ollama'.removed
  /\ ollama.disk \cup ollama.removed \subseteq ollama'.disk \cup ollama'.removed

LEMMA SameGrows ==
  ASSUME IInv, UNCHANGED ollama
  PROVE  Grows
BY DEF IInv, TypeOK, Grows

\* Jobs that do not move, and all chats, are safe from such a daemon.
LEMMA OthersSafe ==
  ASSUME IInv, Grows, UNCHANGED <<chat, shelf, second>>
  PROVE  /\ Filed' /\ \A c \in Chats : ChatOK(c)'
         /\ \A j \in Jobs : work'[j] = work[j] => WorkOK(j)'
<1>1. Filed'
  BY DEF IInv, Filed
<1>2. ASSUME NEW c \in Chats PROVE ChatOK(c)'
  <2>1. ChatOK(c)
    BY ChatTyped
  <2>2. Untouched(c)' /\ Walks(c)' /\ Speaks(c)' /\ Drawn(c)'
    BY <2>1 DEF ChatOK, Untouched, Walks, Speaks, Drawn, At
  <2>3. Branches(c)'
    BY <2>1 DEF ChatOK, Branches, At, Current, Windows, ResolveNumCtx
  <2> QED BY <2>2, <2>3 DEF ChatOK
<1>3. ASSUME NEW j \in Jobs, work'[j] = work[j] PROVE WorkOK(j)'
  <2>1. WorkOK(j)
    BY DEF IInv, WorkOK
  <2>2. Asks(j)'
    BY <1>3, <2>1 DEF WorkOK, Asks, Doing, Windows, ResolveNumCtx, Grows
  <2>3. Ensured(j)'
    BY <1>3, <2>1 DEF WorkOK, Ensured, Doing, Grows
  <2>4. Tooled(j)'
    BY <1>3, <2>1 DEF WorkOK, Tooled, Grows
  <2> QED BY <2>2, <2>3, <2>4 DEF WorkOK
<1> QED BY <1>1, <1>2, <1>3

\* A step of one job keeps the invariant if it keeps that job's own part.
LEMMA WorkMoves ==
  ASSUME IInv, NEW j \in Jobs, NEW w \in Work, work' = [work EXCEPT ![j] = w],
         Grows, UNCHANGED <<chat, shelf, second>>,
         numCtx' \in [Procs -> [Ref -> Nat \cup {Unknown}]], Cached',
         WorkOK(j)'
  PROVE  IInv'
<1>1. TypeOK'
  BY DEF IInv, TypeOK, Grows
<1>2. \A i \in Jobs \ {j} : work'[i] = work[i]
  BY DEF IInv, TypeOK
<1>3. \A i \in Jobs : WorkOK(i)'
  BY <1>2, OthersSafe
<1> QED BY <1>1, <1>3, OthersSafe DEF IInv, ChatOK, WorkOK

\* The same when daemon and caches stay as they are.
LEMMA WorkMovesAlone ==
  ASSUME IInv, NEW j \in Jobs, NEW w \in Work, work' = [work EXCEPT ![j] = w],
         UNCHANGED <<chat, shelf, second, ollama, numCtx>>,
         WorkOK(j)'
  PROVE  IInv'
<1>1. numCtx' \in [Procs -> [Ref -> Nat \cup {Unknown}]] /\ Cached'
  BY DEF IInv, TypeOK, Cached
<1> QED BY <1>1, SameGrows, WorkMoves

\* What a job of the invariant is.
LEMMA WorkTyped ==
  ASSUME IInv, NEW j \in Jobs
  PROVE  /\ work[j] \in Work /\ WorkOK(j)
         /\ work[j].window \in Nat /\ work[j].shape \in Shape
         /\ work[j].tools \in BOOLEAN /\ work[j].ref \in Wanted \cup {NoModel}
<1>1. work[j] \in Work /\ WorkOK(j)
  BY DEF IInv, TypeOK, WorkOK
<1> QED BY <1>1 DEF Work

\* What the invariant says of a job whose record becomes w.
LEMMA WorkBecomes ==
  ASSUME IInv, NEW j \in Jobs, NEW w, work' = [work EXCEPT ![j] = w]
  PROVE  work'[j] = w
BY DEF IInv, TypeOK

\* A job that fails has kept to the rules.
LEMMA WorkFails ==
  ASSUME IInv, NEW j \in Jobs, ~Doing(j, "idle"),
         NEW result \in {"failed", "text", "calls"}, EndWork(j, result),
         UNCHANGED <<chat, shelf, second, ollama, numCtx>>
  PROVE  IInv'
<1> DEFINE w == [work[j] EXCEPT !.pc = "done", !.result = result]
<1>1. work[j] \in Work /\ WorkOK(j) /\ work[j].pc # "idle"
  BY WorkTyped DEF Doing
<1>2. work' = [work EXCEPT ![j] = w]
  BY <1>1 DEF EndWork, IInv, TypeOK
<1>3. w \in Work
  BY <1>1 DEF Work, WorkPcs, Results
<1>4. /\ w.pc = "done" /\ w.result = result /\ w.ref = work[j].ref
      /\ w.shape = work[j].shape /\ w.tools = work[j].tools
  BY <1>1 DEF Work
<1> HIDE DEF w
<1>5. work'[j] = w
  BY <1>2, WorkBecomes
<1>6. Asks(j)' /\ Tooled(j)'
  BY <1>1, <1>4, <1>5 DEF WorkOK, Asks, Tooled, Doing
<1>7. work[j].ref \in Wanted
  BY <1>1 DEF WorkOK, Ensured, IInv, TypeOK, Work
<1>8. Ensured(j)'
  BY <1>4, <1>5, <1>7 DEF Ensured, Doing
<1> QED BY <1>2, <1>3, <1>6, <1>8, WorkMovesAlone DEF WorkOK

\* A job that goes on, and has asked for no window yet.
LEMMA WorkGoes ==
  ASSUME IInv, NEW j \in Jobs,
         work[j].pc \in {"find", "ensure", "pull", "compact", "cpu", "options"},
         work[j].window = 0,
         NEW pc \in {"ensure", "pull", "compact", "cpu", "options", "show"}, To(j, pc),
         pc \in {"ensure", "pull"} \/ work[j].ref.tag = NoTag
           \/ work[j].ref \in ollama'.disk \cup ollama'.removed,
         Grows, UNCHANGED <<chat, shelf, second, numCtx>>
  PROVE  IInv'
<1> DEFINE w == [work[j] EXCEPT !.pc = pc]
<1>1. work[j] \in Work /\ WorkOK(j)
  BY WorkTyped
<1>2. work' = [work EXCEPT ![j] = w]
  BY <1>1 DEF To, IInv, TypeOK
<1>3. w \in Work
  BY <1>1 DEF Work, WorkPcs
<1>4. /\ w.pc = pc /\ w.result = work[j].result /\ w.ref = work[j].ref
      /\ w.shape = work[j].shape /\ w.tools = work[j].tools
      /\ w.window = work[j].window
  BY <1>1 DEF Work
<1> HIDE DEF w
<1>5. work'[j] = w
  BY <1>2, WorkBecomes
<1>6. Asks(j)'
  BY <1>4, <1>5 DEF Asks, Doing
<1>7. Tooled(j)'
  BY <1>1, <1>4, <1>5 DEF WorkOK, Tooled, Grows
<1>8. work[j].ref \in Wanted /\ work[j].result = ""
  BY <1>1 DEF WorkOK, Ensured, WorkPcs, Doing
<1>9. Ensured(j)'
  BY <1>4, <1>5, <1>8 DEF Ensured, Doing
<1>10. numCtx' \in [Procs -> [Ref -> Nat \cup {Unknown}]] /\ Cached'
  BY DEF IInv, TypeOK, Cached
<1> QED BY <1>2, <1>3, <1>6, <1>7, <1>9, <1>10, WorkMoves DEF WorkOK

LEMMA StartKeeps ==
  ASSUME IInv, NEW j \in Jobs, Start(j), UNCHANGED <<chat, shelf, second>>
  PROVE  IInv'
<1>1. PICK r \in Wanted, s \in Shapes :
        work' = [work EXCEPT ![j] =
          [NewWork EXCEPT !.pc = "find", !.ref = r, !.shape = s, !.tools = s.tools]]
  BY DEF Start
<1> DEFINE w == [NewWork EXCEPT !.pc = "find", !.ref = r, !.shape = s,
                                !.tools = s.tools]
<1>2. NewWork \in Work
  BY DEF NewWork, NoShape, Work, WorkPcs, Results, Shape
<1>3. s \in Shape /\ s.tools \in BOOLEAN
  BY ShapesAssumption DEF Shape
<1>4. w \in Work
  BY <1>2, <1>3 DEF Work, WorkPcs
<1>5. /\ w.pc = "find" /\ w.ref = r /\ w.shape = s /\ w.tools = s.tools
      /\ w.result = "" /\ w.window = 0
  <2>1. /\ w.pc = "find" /\ w.ref = r /\ w.shape = s /\ w.tools = s.tools
        /\ w.result = NewWork.result /\ w.window = NewWork.window
    BY <1>2 DEF Work
  <2>2. NewWork.result = "" /\ NewWork.window = 0
    BY DEF NewWork
  <2> QED BY <2>1, <2>2
<1>6. work' = [work EXCEPT ![j] = w]
  BY <1>1
<1> HIDE DEF w
<1>7. work'[j] = w
  BY <1>6, WorkBecomes
<1>8. WorkOK(j)'
  BY <1>5, <1>7 DEF WorkOK, Asks, Ensured, Tooled, Doing
<1> QED BY <1>4, <1>6, <1>8, WorkMovesAlone DEF Start

LEMMA FindKeeps ==
  ASSUME IInv, NEW j \in Jobs, Find(j), UNCHANGED <<chat, shelf, second>>
  PROVE  IInv'
<1>1. CASE EndWork(j, "failed")
  BY <1>1, WorkFails DEF Find, Doing
<1>2. CASE To(j, "ensure")
  <2>1. work[j].pc = "find" /\ work[j].window = 0
    BY WorkTyped DEF Find, Doing, WorkOK, Asks
  <2> QED BY <1>2, <2>1, SameGrows, WorkGoes DEF Find
<1> QED BY <1>1, <1>2 DEF Find

LEMMA EnsureKeeps ==
  ASSUME IInv, NEW j \in Jobs, Ensure(j), UNCHANGED <<chat, shelf, second>>
  PROVE  IInv'
<1>1. work[j].pc = "ensure" /\ work[j].window = 0 /\ work[j].ref \in Wanted
  BY WorkTyped DEF Ensure, Doing, WorkOK, Asks, Ensured, WorkPcs
<1>2. CASE To(j, "pull")
  BY <1>1, <1>2, SameGrows, WorkGoes DEF Ensure
<1>3. CASE ~To(j, "pull")
  <2>1. PICK m \in ollama.disk : Matches(work[j].ref, m)
    BY <1>3 DEF Ensure
  <2>2. work[j].ref.tag = NoTag \/ work[j].ref = m
    <3>1. m \in [name : Names, tag : Tags]
      BY RefsAssumption DEF IInv, TypeOK, Daemon
    <3>2. work[j].ref \in [name : Names, tag : Tags \cup {NoTag}]
      BY <1>1, WantedAssumption DEF Ref
    <3> QED BY <2>1, <3>1, <3>2 DEF Matches
  <2> QED BY <1>1, <1>3, <2>2, SameGrows, WorkGoes DEF Ensure
<1> QED BY <1>2, <1>3

LEMMA PullKeeps ==
  ASSUME IInv, NEW j \in Jobs, Pull(j), UNCHANGED <<chat, shelf, second>>
  PROVE  IInv'
<1>1. work[j].pc = "pull" /\ work[j].window = 0 /\ work[j].ref \in Wanted
  BY WorkTyped DEF Pull, Doing, WorkOK, Asks, Ensured, WorkPcs
<1>2. CASE EndWork(j, "failed") /\ UNCHANGED ollama
  BY <1>1, <1>2, WorkFails DEF Pull, Doing
<1>3. CASE ~(EndWork(j, "failed") /\ UNCHANGED ollama)
  <2> DEFINE m == Resolved(work[j].ref)
  <2>1. /\ m \in Refs /\ To(j, "compact")
        /\ ollama' = [ollama EXCEPT !.disk = ollama.disk \cup {m}]
    BY <1>3 DEF Pull
  <2>2. ollama \in Daemon
    BY DEF IInv, TypeOK
  <2>3. Grows /\ m \in ollama'.disk
    BY <2>1, <2>2 DEF Grows, Daemon
  <2>4. work[j].ref.tag = NoTag \/ m = work[j].ref
    BY DEF Resolved
  <2> QED BY <1>1, <2>1, <2>3, <2>4, WorkGoes DEF Pull
<1> QED BY <1>2, <1>3

\* Compaction, of a huge request or on a machine on its CPU.
LEMMA CompactKeeps ==
  ASSUME IInv, NEW j \in Jobs, work[j].pc \in {"compact", "cpu"},
         work[j].shape.huge \/ ~ollama.gpu, Compact(j),
         UNCHANGED <<chat, shelf, second, ollama, numCtx>>
  PROVE  IInv'
<1> DEFINE w == [work[j] EXCEPT !.pc = "options", !.tools = KeepsTools(work[j].shape),
                                !.window = SlowNumCtx]
<1>1. work[j] \in Work /\ WorkOK(j)
  BY WorkTyped
<1>2. work' = [work EXCEPT ![j] = w]
  BY <1>1 DEF Compact, IInv, TypeOK
<1>3. KeepsTools(work[j].shape) \in BOOLEAN /\ SlowNumCtx \in Nat
  BY <1>1 DEF Work, Shape, KeepsTools, SlowNumCtx
<1>4. w \in Work
  BY <1>1, <1>3 DEF Work, WorkPcs
<1>5. /\ w.pc = "options" /\ w.result = work[j].result /\ w.ref = work[j].ref
      /\ w.shape = work[j].shape /\ w.window = SlowNumCtx
  BY <1>1 DEF Work
<1> HIDE DEF w
<1>6. work'[j] = w
  BY <1>2, WorkBecomes
<1>7. Asks(j)' /\ Tooled(j)'
  BY <1>5, <1>6 DEF Asks, Tooled, Doing
<1>8. Ensured(j)'
  <2>1. /\ work[j].ref \in Wanted /\ work[j].result = ""
        /\ work[j].ref.tag # NoTag =>
             work[j].ref \in ollama.disk \cup ollama.removed
    BY <1>1 DEF WorkOK, Ensured, WorkPcs, Doing
  <2> QED BY <1>5, <1>6, <2>1 DEF Ensured, Doing
<1> QED BY <1>2, <1>4, <1>7, <1>8, WorkMovesAlone DEF WorkOK

\* A job at compaction has asked for no window, of a model that is there.
LEMMA AtCompaction ==
  ASSUME IInv, NEW j \in Jobs, work[j].pc \in {"compact", "cpu"}
  PROVE  /\ work[j].window = 0
         /\ \/ work[j].ref.tag = NoTag
            \/ work[j].ref \in ollama.disk \cup ollama.removed
<1>1. WorkOK(j)
  BY WorkTyped
<1>2. work[j].window = 0
  BY <1>1 DEF WorkOK, Asks
<1>3. work[j].ref.tag = NoTag \/ work[j].ref \in ollama.disk \cup ollama.removed
  BY <1>1 DEF WorkOK, Ensured
<1> QED BY <1>2, <1>3

LEMMA CompactHugeKeeps ==
  ASSUME IInv, NEW j \in Jobs, CompactHuge(j), UNCHANGED <<chat, shelf, second>>
  PROVE  IInv'
BY CompactKeeps DEF CompactHuge, Doing

LEMMA AskVRAMKeeps ==
  ASSUME IInv, NEW j \in Jobs, AskVRAM(j), UNCHANGED <<chat, shelf, second>>
  PROVE  IInv'
<1>1. work[j].pc = "compact"
  BY DEF AskVRAM, Doing
<1>2. CASE To(j, "options")
  BY <1>1, <1>2, AtCompaction, SameGrows, WorkGoes DEF AskVRAM
<1>3. CASE To(j, "cpu")
  BY <1>1, <1>3, AtCompaction, SameGrows, WorkGoes DEF AskVRAM
<1> QED BY <1>2, <1>3 DEF AskVRAM

LEMMA AskCPUKeeps ==
  ASSUME IInv, NEW j \in Jobs, AskCPU(j), UNCHANGED <<chat, shelf, second>>
  PROVE  IInv'
<1>1. work[j].pc = "cpu"
  BY DEF AskCPU, Doing
<1>2. CASE To(j, "options")
  BY <1>1, <1>2, AtCompaction, SameGrows, WorkGoes DEF AskCPU
<1>3. CASE OnCPU /\ Compact(j)
  BY <1>1, <1>3, CompactKeeps DEF AskCPU, OnCPU
<1> QED BY <1>2, <1>3 DEF AskCPU

\* A job whose window has been settled asks the daemon.
LEMMA WorkAsks ==
  ASSUME IInv, NEW j \in Jobs, work[j].pc \in {"options", "show"},
         NEW window \in Nat,
         work' = [work EXCEPT ![j] = [work[j] EXCEPT !.pc = "infer", !.window = window]],
         \/ window \in Windows(work[j].ref)
         \/ window = SlowNumCtx /\ (work[j].shape.huge \/ ~ollama.gpu),
         UNCHANGED <<chat, shelf, second, ollama>>,
         numCtx' \in [Procs -> [Ref -> Nat \cup {Unknown}]], Cached'
  PROVE  IInv'
<1> DEFINE w == [work[j] EXCEPT !.pc = "infer", !.window = window]
<1>1. work[j] \in Work /\ WorkOK(j)
  BY WorkTyped
<1>2. work' = [work EXCEPT ![j] = w]
  OBVIOUS
<1>3. w \in Work
  BY <1>1 DEF Work, WorkPcs
<1>4. /\ w.pc = "infer" /\ w.result = work[j].result /\ w.ref = work[j].ref
      /\ w.shape = work[j].shape /\ w.tools = work[j].tools /\ w.window = window
  BY <1>1 DEF Work
<1> HIDE DEF w
<1>5. work'[j] = w
  BY <1>2, WorkBecomes
<1>6. Asks(j)'
  <2>1. \/ work'[j].window \in Windows(work'[j].ref)
        \/ work'[j].window = SlowNumCtx /\ (work'[j].shape.huge \/ ~ollama'.gpu)
    BY <1>4, <1>5
  <2>2. work'[j].pc = "infer"
    BY <1>4, <1>5
  <2> QED BY <2>1, <2>2 DEF Asks, Doing, Windows, ResolveNumCtx
<1>7. Tooled(j)'
  BY <1>1, <1>4, <1>5 DEF WorkOK, Tooled
<1>8. Ensured(j)'
  <2>1. /\ work[j].ref \in Wanted /\ work[j].result = ""
        /\ work[j].ref.tag # NoTag =>
             work[j].ref \in ollama.disk \cup ollama.removed
    BY <1>1 DEF WorkOK, Ensured, WorkPcs, Doing
  <2> QED BY <1>4, <1>5, <2>1 DEF Ensured, Doing
<1> QED BY <1>2, <1>3, <1>6, <1>7, <1>8, SameGrows, WorkMoves DEF WorkOK

LEMMA OptionsKeeps ==
  ASSUME IInv, NEW j \in Jobs, Options(j), UNCHANGED <<chat, shelf, second>>
  PROVE  IInv'
<1> DEFINE r == work[j].ref
           asked == work[j].window
           window == ResolveNumCtx(asked, numCtx["agent"][r])
<1>1. /\ work[j] \in Work /\ WorkOK(j) /\ Doing(j, "options")
      /\ asked \in Nat /\ r \in Wanted
  BY WorkTyped DEF Options, WorkOK, Ensured, WorkPcs, Doing
<1>2. r \in Ref
  BY <1>1, WantedAssumption
<1>3. CASE NeedsProbe("agent", r, asked)
  <2>1. To(j, "show") /\ work[j].window = 0
    BY <1>3 DEF Options, NeedsProbe
  <2>2. r.tag = NoTag \/ r \in ollama.disk \cup ollama.removed
    BY <1>1 DEF WorkOK, Ensured, Doing
  <2> QED BY <1>1, <2>1, <2>2, SameGrows, WorkGoes DEF Options, Doing
<1>4. CASE ~NeedsProbe("agent", r, asked)
  <2>1. work' = [work EXCEPT ![j] = [work[j] EXCEPT !.pc = "infer", !.window = window]]
    BY <1>1, <1>4 DEF Options, IInv, TypeOK
  <2>2. numCtx["agent"][r] \in Nat \cup {Unknown}
    BY <1>2 DEF IInv, TypeOK, Procs
  <2>3. window \in Nat
    BY <1>1, <2>2, WindowTyped
  <2>4. CASE asked = 0
    <3>1. window \in Windows(r)
      BY <1>2, <1>4, <2>4, WindowKnown DEF Procs
    <3> HIDE DEF window
    <3>2. numCtx' \in [Procs -> [Ref -> Nat \cup {Unknown}]] /\ Cached'
      BY DEF IInv, TypeOK, Cached, Options
    <3> QED BY <1>1, <2>1, <2>3, <3>1, <3>2, WorkAsks DEF Options, Doing
  <2>5. CASE asked # 0
    <3>1. asked = SlowNumCtx /\ (work[j].shape.huge \/ ~ollama.gpu)
      BY <1>1, <2>5 DEF WorkOK, Asks
    <3>2. window = SlowNumCtx
      BY <3>1 DEF ResolveNumCtx, SlowNumCtx
    <3> HIDE DEF window
    <3>3. numCtx' \in [Procs -> [Ref -> Nat \cup {Unknown}]] /\ Cached'
      BY DEF IInv, TypeOK, Cached, Options
    <3> QED BY <1>1, <2>1, <2>3, <3>1, <3>2, <3>3, WorkAsks DEF Options, Doing
  <2> QED BY <2>4, <2>5
<1> QED BY <1>3, <1>4

LEMMA ShowWorkKeeps ==
  ASSUME IInv, NEW j \in Jobs, ShowWork(j), UNCHANGED <<chat, shelf, second>>
  PROVE  IInv'
<1> DEFINE r == work[j].ref
<1>1. PICK answered \in BOOLEAN :
        /\ answered => MayAnswer(r)
        /\ Remember("agent", r, answered)
        /\ work' = [work EXCEPT ![j] =
             [work[j] EXCEPT !.pc = "infer",
                             !.window = ResolveNumCtx(0, IF answered
                                          THEN Window[Resolved(r)] ELSE 0)]]
  BY DEF ShowWork, IInv, TypeOK
<1> DEFINE detected == IF answered THEN Window[Resolved(r)] ELSE 0
           window == ResolveNumCtx(0, detected)
<1>2. work[j].pc = "show" /\ r \in Ref
  BY WorkTyped, WantedAssumption DEF ShowWork, WorkOK, Ensured, WorkPcs, Doing
<1>3. answered => Resolved(r) \in Refs
  BY <1>1 DEF MayAnswer, Installed, IInv, TypeOK, Daemon
<1>4. window \in Nat /\ window \in Windows(r)
  <2>1. detected \in Nat
    BY <1>3, WindowAssumption
  <2>2. detected = 0 \/ detected = Window[Resolved(r)]
    <3>1. CASE answered
      BY <3>1
    <3>2. CASE ~answered
      BY <3>2
    <3> QED BY <3>1, <3>2
  <2> HIDE DEF detected
  <2>3. window \in Nat
    BY <2>1, WindowTyped
  <2> QED BY <2>2, <2>3 DEF Windows
<1>5. numCtx' \in [Procs -> [Ref -> Nat \cup {Unknown}]] /\ Cached'
  BY <1>1, <1>2, <1>3, RememberKeeps DEF Procs
<1>6. work' = [work EXCEPT ![j] = [work[j] EXCEPT !.pc = "infer", !.window = window]]
  BY <1>1
<1> HIDE DEF window
<1> QED BY <1>2, <1>4, <1>5, <1>6, WorkAsks DEF ShowWork

LEMMA InferKeeps ==
  ASSUME IInv, NEW j \in Jobs, Infer(j), UNCHANGED <<chat, shelf, second>>
  PROVE  IInv'
<1>1. CASE \E result \in {"text", "calls", "failed"} : EndWork(j, result)
  BY <1>1, WorkFails DEF Infer, Doing
<1>2. CASE ollama.up /\ ~Installed(work[j].ref) /\ EndWork(j, "missing")
  <2> DEFINE w == [work[j] EXCEPT !.pc = "done", !.result = "missing"]
  <2>1. work[j] \in Work /\ WorkOK(j) /\ work[j].pc = "infer"
    BY WorkTyped DEF Infer, Doing
  <2>2. work' = [work EXCEPT ![j] = w]
    BY <1>2, <2>1 DEF EndWork, IInv, TypeOK
  <2>3. w \in Work
    BY <2>1 DEF Work, WorkPcs, Results
  <2>4. /\ w.pc = "done" /\ w.result = "missing" /\ w.ref = work[j].ref
        /\ w.shape = work[j].shape /\ w.tools = work[j].tools
    BY <2>1 DEF Work
  <2> HIDE DEF w
  <2>5. work'[j] = w
    BY <2>2, WorkBecomes
  <2>6. Asks(j)' /\ Tooled(j)'
    BY <2>1, <2>4, <2>5 DEF WorkOK, Asks, Tooled, Doing, Infer
  <2>7. /\ work[j].ref \in Wanted
        /\ work[j].ref.tag # NoTag => work[j].ref \in ollama.removed
    BY <1>2, <2>1 DEF WorkOK, Ensured, WorkPcs, Installed, Resolved
  <2>8. Ensured(j)'
    BY <2>4, <2>5, <2>7 DEF Ensured, Doing, Infer
  <2> QED BY <2>2, <2>3, <2>6, <2>8, WorkMovesAlone DEF WorkOK, Infer
<1> QED BY <1>1, <1>2 DEF Infer

\* The daemon stops and starts, and its user removes models.
LEMMA DaemonKeeps ==
  ASSUME IInv, DaemonNext
  PROVE  IInv'
<1>1. ollama \in Daemon
  BY DEF IInv, TypeOK
<1>2. Grows
  <2>1. CASE OllamaStops \/ OllamaStarts
    BY <1>1, <2>1 DEF OllamaStops, OllamaStarts, Grows, Daemon
  <2>2. CASE UserNext
    <3>1. PICK r \in Refs : UserRemoves(r)
      BY <2>2 DEF UserNext
    <3> QED BY <1>1, <3>1 DEF UserRemoves, Grows, Daemon
  <2> QED BY <2>1, <2>2 DEF DaemonNext
<1>3. TypeOK' /\ Cached'
  BY <1>2 DEF IInv, TypeOK, Cached, Grows, DaemonNext
<1>4. \A j \in Jobs : work'[j] = work[j]
  BY DEF DaemonNext
<1> QED BY <1>2, <1>3, <1>4, OthersSafe DEF IInv, ChatOK, WorkOK, DaemonNext

LEMMA TickKeeps ==
  ASSUME IInv, Tick, UNCHANGED work
  PROVE  IInv'
<1>1. TypeOK'
  <2>1. second' \in 1..LastSecond
    BY DEF IInv, TypeOK, Tick
  <2> QED BY <2>1 DEF IInv, TypeOK, Tick
<1>2. Cached' /\ Filed'
  BY DEF IInv, Cached, Filed, Tick
<1>3. ASSUME NEW c \in Chats PROVE ChatOK(c)'
  <2>1. ChatOK(c)
    BY ChatTyped
  <2>2. Untouched(c)' /\ Walks(c)' /\ Speaks(c)' /\ Drawn(c)'
    BY <2>1 DEF ChatOK, Untouched, Walks, Speaks, Drawn, At, Tick
  <2>3. Branches(c)'
    BY <2>1 DEF ChatOK, Branches, At, Current, Windows, ResolveNumCtx, Tick
  <2> QED BY <2>2, <2>3 DEF ChatOK
<1>4. \A j \in Jobs : WorkOK(j)'
  BY DEF IInv, WorkOK, Asks, Ensured, Tooled, Doing, Windows, ResolveNumCtx, Tick
<1> QED BY <1>1, <1>2, <1>3, <1>4 DEF IInv, ChatOK, WorkOK

-----------------------------------------------------------------------------
(* The theorems.                                                           *)

LEMMA InitHolds == Init => IInv
<1> SUFFICES ASSUME Init PROVE IInv
  OBVIOUS
<1>1. /\ NewChat \in Chat /\ NewChat.pc = "idle" /\ Len(NewChat.order) = 0
      /\ NewChat.at = 0 /\ NewChat.text = "none" /\ NewChat.out = ""
      /\ NewChat.stamp = 0 /\ NewChat.began = 0
  BY DEF NewChat, Chat, ChatPcs, Texts, Outcomes
<1>2. /\ NewWork \in Work /\ NewWork.pc = "idle" /\ NewWork.result = ""
      /\ NewWork.tools = NewWork.shape.tools
  BY DEF NewWork, NoShape, Work, WorkPcs, Results, Shape
<1>3. TypeOK
  <2>1. ollama \in Daemon
    BY DEF Init, Daemon
  <2>2. numCtx \in [Procs -> [Ref -> Nat \cup {Unknown}]]
    BY DEF Init
  <2>3. shelf \in [1..LastSecond -> Shelf] /\ second \in 1..LastSecond
    BY BoundsAssumption DEF Init, Shelf
  <2>4. chat \in [Chats -> Chat] /\ work \in [Jobs -> Work]
    BY <1>1, <1>2 DEF Init
  <2> QED BY <2>1, <2>2, <2>3, <2>4 DEF TypeOK
<1>4. Cached /\ Filed
  BY DEF Init, Cached, Filed
<1>5. ASSUME NEW c \in Chats PROVE ChatOK(c)
  <2>1. chat[c] = NewChat
    BY DEF Init
  <2>2. Untouched(c) /\ Speaks(c) /\ Branches(c)
    BY <1>1, <2>1 DEF Untouched, Speaks, Branches, At
  <2>3. Walks(c)
    <3>1. Len(NewChat.order) = 0 /\ NewChat.at = 0 /\ NewChat.pc = "idle"
      BY <1>1
    <3> QED BY <2>1, <3>1, AttemptsAssumption DEF Walks
  <2>4. Drawn(c)
    <3>1. NewChat.began = 0
      BY <1>1
    <3>2. NewChat.began \in 0..LastSecond
      BY <3>1, BoundsAssumption
    <3>3. ~(NewChat.began > 0)
      BY <3>1
    <3>4. NewChat.stamp = NewChat.began /\ NewChat.pc = "idle" /\ NewChat.out = ""
      BY <1>1
    <3> QED BY <2>1, <3>2, <3>3, <3>4 DEF Drawn
  <2> QED BY <2>2, <2>3, <2>4 DEF ChatOK
<1>6. ASSUME NEW j \in Jobs PROVE WorkOK(j)
  BY <1>2 DEF Init, WorkOK, Asks, Ensured, Tooled, Doing
<1> QED BY <1>3, <1>4, <1>5, <1>6 DEF IInv, ChatOK, WorkOK

LEMMA StepKeeps == IInv /\ [Next]_vars => IInv'
<1> SUFFICES ASSUME IInv, [Next]_vars PROVE IInv'
  OBVIOUS
<1>1. ASSUME NEW c \in Chats, ChatNext(c) PROVE IInv'
  BY <1>1, ReceiveKeeps, HangupKeeps, DeltaKeeps, TryLocalKeeps, DecideKeeps,
     AttemptKeeps, ShowChatKeeps, FinishKeeps, FailKeeps, DrawKeeps, BuildKeeps,
     StatKeeps
    DEF ChatNext, ChatStep
<1>2. ASSUME NEW j \in Jobs, WorkNext(j) PROVE IInv'
  BY <1>2, StartKeeps, FindKeeps, EnsureKeeps, PullKeeps, CompactHugeKeeps,
     AskVRAMKeeps, AskCPUKeeps, OptionsKeeps, ShowWorkKeeps, InferKeeps
    DEF WorkNext, WorkStep
<1>3. CASE Tick /\ UNCHANGED work
  BY <1>3, TickKeeps
<1>4. CASE DaemonNext
  BY <1>4, DaemonKeeps
<1>5. CASE UNCHANGED vars
  <2>1. UNCHANGED <<ollama, numCtx, chat, shelf, second, work>>
    BY <1>5 DEF vars
  <2>2. TypeOK' /\ Cached'
    BY <2>1 DEF IInv, TypeOK, Cached
  <2>3. \A j \in Jobs : work'[j] = work[j]
    BY <2>1
  <2> QED BY <2>1, <2>2, <2>3, SameGrows, OthersSafe DEF IInv, ChatOK, WorkOK
<1> QED BY <1>1, <1>2, <1>3, <1>4, <1>5 DEF Next

\* The invariant holds of every reachable state.
THEOREM LocalInductive == Spec => []IInv
<1>1. Init => IInv
  BY InitHolds
<1>2. IInv /\ [Next]_vars => IInv'
  BY StepKeeps
<1> QED BY <1>1, <1>2, PTL DEF Spec

\* Every variable keeps its type.
THEOREM LocalTypeCorrect == Spec => []TypeOK
<1>1. IInv => TypeOK
  BY DEF IInv
<1> QED BY <1>1, LocalInductive, PTL

\* An answer is the text of the model the client is told about, whichever
\* candidates had begun before (OneVoice).
THEOREM AnswersWithOneVoice == Spec => []OneVoice
<1>1. IInv => OneVoice
  <2> SUFFICES ASSUME IInv, NEW c \in Chats, chat[c].out = "answer", ~chat[c].cad
               PROVE  chat[c].text \in {"none", "own"} /\ chat[c].label = chat[c].at
    BY DEF OneVoice
  <2> QED BY DEF IInv, Speaks
<1> QED BY <1>1, LocalInductive, PTL

\* No candidate is tried twice, and no more than MaxAttempts are tried
\* (NoneTwice).
THEOREM CandidatesTriedOnce == Spec => []NoneTwice
<1>1. IInv => NoneTwice
  <2> SUFFICES ASSUME IInv, NEW c \in Chats
               PROVE  /\ chat[c].at <= MaxAttempts
                      /\ \A i, k \in 1..chat[c].at :
                           chat[c].order[i] = chat[c].order[k] => i = k
    BY DEF NoneTwice
  <2>1. /\ Len(chat[c].order) <= MaxAttempts /\ chat[c].at <= Len(chat[c].order)
        /\ \A i, k \in 1..Len(chat[c].order) :
             chat[c].order[i] = chat[c].order[k] => i = k
    BY DEF IInv, Walks
  <2>2. chat[c].at \in Nat /\ Len(chat[c].order) \in Nat
    BY ChatTyped
  <2> QED BY <2>1, <2>2, AttemptsAssumption
<1> QED BY <1>1, LocalInductive, PTL

\* A call asks for the window of its own model, for the floor, or, where that
\* is called for, for the small window (WindowAsked).
THEOREM CallsAskTheirWindow == Spec => []WindowAsked
<1>1. IInv => WindowAsked
  <2> SUFFICES ASSUME IInv PROVE WindowAsked
    OBVIOUS
  <2>1. \A c \in Chats : At(c, "infer") => chat[c].window \in Windows(Current(c))
    BY DEF IInv, Branches
  <2>2. ASSUME NEW j \in Jobs, Doing(j, "infer")
        PROVE  \/ work[j].window \in Windows(work[j].ref)
               \/ work[j].window = SlowNumCtx /\ (work[j].shape.huge \/ ~ollama.gpu)
    BY <2>2 DEF IInv, Asks
  <2> QED BY <2>1, <2>2 DEF WindowAsked
<1> QED BY <1>1, LocalInductive, PTL

\* A model that has been ensured under its full name is missing only if the
\* user removed it (EnsuredRuns).
THEOREM EnsuredModelsRun == Spec => []EnsuredRuns
<1>1. IInv => EnsuredRuns
  BY DEF IInv, Ensured, EnsuredRuns
<1> QED BY <1>1, LocalInductive, PTL

\* Where there is a GPU only a huge request loses its tools (ToolsSurvive).
THEOREM ToolsAreKept == Spec => []ToolsSurvive
<1>1. IInv => ToolsSurvive
  BY DEF IInv, Tooled, ToolsSurvive
<1> QED BY <1>1, LocalInductive, PTL

\* A client gets the model of its own drawing, unless another one came in the
\* same second (ArtifactIsOwn).
THEOREM ArtifactsAreOwn == Spec => []ArtifactIsOwn
<1>1. IInv => ArtifactIsOwn
  <2> SUFFICES ASSUME IInv, NEW c \in Chats, chat[c].cad, chat[c].out = "answer",
                      \A d \in Chats \ {c} : chat[d].began # chat[c].began
               PROVE  shelf[chat[c].stamp].model = c
    BY DEF ArtifactIsOwn
  <2> DEFINE s == chat[c].began
  <2>1. chat[c].stamp = s /\ s \in 0..LastSecond /\ s > 0 /\ shelf[s].model # NoChat
    BY DEF IInv, Drawn
  <2>2. s \in 1..LastSecond
    BY <2>1, BoundsAssumption
  <2>3. shelf[s].model \in Chats /\ chat[shelf[s].model].began = s
    BY <2>1, <2>2, ShelfTyped DEF IInv, Filed
  <2> QED BY <2>1, <2>3
<1> QED BY <1>1, LocalInductive, PTL

\* Once the caller is gone no further candidate is tried (GoneIsGone).
THEOREM GoneCallersEndIt == Spec => GoneIsGone
<1>1. IInv /\ [Next]_vars =>
        [\A c \in Chats : ~chat[c].live => chat'[c].at = chat[c].at]_vars
  <2> SUFFICES ASSUME IInv, Next, NEW c \in Chats, ~chat[c].live
               PROVE  chat'[c].at = chat[c].at
    OBVIOUS
  <2>1. chat \in [Chats -> Chat] /\ chat[c] \in Chat
    BY DEF IInv, TypeOK
  <2>2. ~At(c, "idle")
    <3>1. NewChat.live = TRUE
      BY DEF NewChat
    <3>2. Untouched(c)
      BY DEF IInv
    <3> QED BY <3>1, <3>2 DEF Untouched
  <2>3. CASE UNCHANGED chat
    BY <2>3
  <2>4. ASSUME NEW d \in Chats, ChatNext(d), d # c PROVE chat'[c] = chat[c]
    <3> USE <2>1, <2>4
    <3>1. CASE Receive(d)
      BY <3>1 DEF Receive
    <3>2. CASE Hangup(d) \/ Delta(d)
      BY <3>2 DEF Hangup, Delta
    <3>3. CASE TryLocal(d) \/ Decide(d)
      BY <3>3 DEF TryLocal, Decide, End
    <3>4. CASE Attempt(d) \/ ShowChat(d)
      BY <3>4 DEF Attempt, ShowChat, End
    <3>5. CASE Finish(d) \/ Fail(d)
      BY <3>5 DEF Finish, Fail, End
    <3>6. CASE Draw(d) \/ Build(d) \/ Stat(d)
      BY <3>6 DEF Draw, Build, Stat, End
    <3> QED BY <3>1, <3>2, <3>3, <3>4, <3>5, <3>6 DEF ChatNext, ChatStep
  <2>5. CASE ChatNext(c)
    <3> USE <2>1
    <3>1. CASE Hangup(c) \/ Delta(c)
      BY <3>1 DEF Hangup, Delta, Chat
    <3>2. CASE TryLocal(c) \/ Decide(c)
      <4>1. \A out : End(c, out) => chat'[c].at = chat[c].at
        BY DEF End, Chat
      <4>2. CASE TryLocal(c)
        BY <4>1, <4>2 DEF TryLocal, Chat
      <4>3. CASE Decide(c)
        <5>1. CASE End(c, "error")
          BY <4>1, <5>1
        <5>2. CASE ~End(c, "error")
          <6>1. PICK order \in FailoverOrders(ollama.disk) :
                  chat' = [chat EXCEPT ![c].pc = "attempt", ![c].order = order,
                             ![c].label = IF chat[c].stream THEN 1 ELSE 0]
            BY <4>3, <5>2 DEF Decide
          <6> QED BY <6>1 DEF Chat
        <5> QED BY <5>1, <5>2
      <4> QED BY <3>2, <4>2, <4>3
    <3>3. CASE Attempt(c)
      BY <3>3 DEF Attempt, CallerGone, End, Chat
    <3>4. CASE ShowChat(c)
      BY <3>4 DEF ShowChat, Chat
    <3>5. CASE Finish(c) \/ Fail(c)
      BY <3>5 DEF Finish, Fail, End, Chat
    <3>6. CASE Draw(c) \/ Build(c) \/ Stat(c)
      BY <3>6 DEF Draw, Build, Stat, End, Chat
    <3> QED BY <2>2, <2>5, <3>1, <3>2, <3>3, <3>4, <3>5, <3>6
      DEF ChatNext, ChatStep, Receive
  <2> QED BY <2>3, <2>4, <2>5 DEF Next, WorkNext, DaemonNext, Tick
<1> QED BY <1>1, LocalInductive, PTL DEF Spec, GoneIsGone
=============================================================================
