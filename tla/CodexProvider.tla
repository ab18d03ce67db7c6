--------------------------- MODULE CodexProvider ---------------------------
(***************************************************************************)
(* The openai-codex provider: the browser login that writes the token      *)
(* file, Generate, and the parser of the server-sent events a response     *)
(* consists of (internal/auth/codex.go, providers/codex/codex.go).         *)
(*                                                                         *)
(* The vendor is external.  It streams a text of TextParts parts and the   *)
(* function calls Calls, whose arguments have ArgParts parts, in any       *)
(* interleaving, leaving out events that repeat what others say, and the   *)
(* connection may end or break anywhere.  Items have an id and a name; a   *)
(* call has a call_id of its own or, throughout the response, none.  An    *)
(* item announced with the arguments "" repeats them whole when it is      *)
(* done; what response.completed repeats may lack arguments sent before.   *)
(*                                                                         *)
(* Tool calls are pointers in the code: buf is the heap of ToolCall values *)
(* (toolOrder lists all of them) and the maps and out.calls hold indices.  *)
(***************************************************************************)
EXTENDS Integers, Sequences, SequencesExt

CONSTANTS
  Calls,      \* the function calls of one response; each has an item
  CallIDs,    \* the call ids a response may give to its calls
  ArgParts,   \* parts the arguments of a call are streamed in
  TextParts,  \* parts the text is streamed in
  MaxLogins,  \* bound: login commands the user runs
  MaxStreams  \* bound: responses streamed

\* A call_id is a number: n > 0 is "call_n", the form the parser makes up itself,
\* n < 0 any other, and 0 is none.
NoID == 0

ASSUME CallsAssumption ==
  /\ IsFiniteSet(Calls)
  /\ "" \notin Calls
  /\ CallIDs \subseteq [Calls -> Int]
  /\ \A id \in CallIDs : \A c, d \in Calls : id[c] = id[d] /\ id[c] # NoID => c = d

ASSUME CodexAssumption ==
  /\ ArgParts \in Nat \ {0}
  /\ TextParts \in Nat \ {0}
  /\ MaxLogins \in Nat
  /\ MaxStreams \in Nat

VARIABLES
  login,      \* the login command: its phase, number (its oauth state) and code
  tokenFile,  \* auth/codex.json: absent, cut short, or the token of a login
  gen,        \* Generate: idle, token, streaming, ok, failed
  streams,    \* number of streams begun
  vendor,     \* what the vendor has sent of the current response
  buf,        \* the tool calls of the parser
  byItem,     \* toolByItemID
  byCall,     \* toolByCallID, by the call that has the id
  out         \* the response: length of its text, indices of its tool calls

loginVars  == <<login, tokenFile>>
parserVars == <<buf, byItem, byCall, out>>
streamVars == <<gen, streams, vendor, buf, byItem, byCall, out>>
codexVars  == <<loginVars, streamVars>>

NoCode == 0

Absent == [kind |-> "absent"]
Cut    == [kind |-> "cut"]

-----------------------------------------------------------------------------
(* auth/codex.go: the login command                                        *)

\* A login draws a fresh state; the local server may fail to listen.
StartLogin ==
  /\ login.phase \in {"idle", "done", "failed"}
  /\ login.n < MaxLogins
  /\ \E listening \in BOOLEAN :
       login' = [phase |-> IF listening THEN "waiting" ELSE "failed",
                 n |-> login.n + 1, code |-> NoCode]
  /\ UNCHANGED <<tokenFile, streamVars>>

\* Mutant of AcceptsState: the callback takes a code of any login.
AcceptsAnyState(state) == TRUE

AcceptsState(state) == state = login.n

\* The browser calls back, perhaps from a tab an earlier login opened.  The
\* code channel holds one code; a second one is dropped.
Callback(state) ==
  /\ login.phase = "waiting"
  /\ AcceptsState(state)
  /\ login' = [login EXCEPT !.code = IF @ = NoCode THEN state ELSE @]
  /\ UNCHANGED <<tokenFile, streamVars>>

\* The command takes the code and exchanges it; it ends on a timeout, a
\* cancellation or a refused exchange.
ExchangeCode ==
  /\ login.phase = "waiting"
  /\ login.code # NoCode
  /\ login' = [login EXCEPT !.phase = "saving"]
  /\ UNCHANGED <<tokenFile, streamVars>>

LoginFails ==
  /\ login.phase = "waiting"
  /\ login' = [login EXCEPT !.phase = "failed"]
  /\ UNCHANGED <<tokenFile, streamVars>>

\* SaveToken opens the file with O_TRUNC and then encodes the token into it.
TruncateToken ==
  /\ login.phase = "saving"
  /\ tokenFile' = Cut
  /\ login' = [login EXCEPT !.phase = "truncated"]
  /\ UNCHANGED streamVars

EncodeToken ==
  /\ login.phase = "truncated"
  /\ tokenFile' = [kind |-> "token", login |-> login.n, code |-> login.code]
  /\ login' = [login EXCEPT !.phase = "done"]
  /\ UNCHANGED streamVars

\* The command is killed before the token is written.
KillLogin ==
  /\ login.phase \in {"saving", "truncated"}
  /\ login' = [login EXCEPT !.phase = "failed"]
  /\ UNCHANGED <<tokenFile, streamVars>>

Login ==
  \/ StartLogin
  \/ \E state \in 1..login.n : Callback(state)
  \/ ExchangeCode
  \/ LoginFails
  \/ TruncateToken
  \/ EncodeToken
  \/ KillLogin

-----------------------------------------------------------------------------
(* Arguments as the parser sees them: the pieces it has concatenated.      *)

Part(c, k)  == [call |-> c, part |-> k]
Quotes      == [call |-> "", part |-> 0]     \* the JSON string ""
Whole(c)    == [k \in 1..ArgParts |-> Part(c, k)]
Braces      == <<[call |-> "{}", part |-> 0]>>

\* What is not a whole JSON document becomes the empty object.
normalizeCodexToolInput(input) ==
  IF \E c \in Calls : input = Whole(c) THEN input ELSE Braces

NoToolCall == 0

\* The buffer of an event: by call id, else by item id, else a new one.
bufferOf(item, callID) ==
  IF callID # NoID /\ byCall[item] # NoToolCall THEN byCall[item]
  ELSE IF byItem[item] # NoToolCall THEN byItem[item]
  ELSE Len(buf) + 1

\* ensureCodexToolBuffer: the heap with that buffer named and identified.
ensured(item, callID, name) ==
  LET i   == bufferOf(item, callID)
      old == IF i <= Len(buf) THEN buf[i] ELSE [id |-> NoID, name |-> "", input |-> <<>>]
      tc  == [old EXCEPT !.id = IF callID # NoID THEN callID ELSE @,
                         !.name = IF @ = "" THEN name ELSE @]
  IN IF i <= Len(buf) THEN [buf EXCEPT ![i] = tc] ELSE Append(buf, tc)

forget(map, i) == [c \in Calls |-> IF map[c] = i THEN NoToolCall ELSE map[c]]

\* A tool call about to be listed; one without an id gets one made up.
prepared(heap, calls, i) ==
  [heap EXCEPT ![i].input = normalizeCodexToolInput(@),
               ![i].id = IF @ = NoID THEN Len(calls) + 1 ELSE @]

\* Mutant of appendCodexToolCall: a call that is already there is listed again.
appendAgain(heap, calls, i) ==
  IF heap[i].name = ""
  THEN [heap |-> heap, calls |-> calls]
  ELSE [heap |-> prepared(heap, calls, i), calls |-> Append(calls, i)]

\* appendCodexToolCall: heap and out.calls after tool call i is emitted.  A call
\* with the id of an earlier one overwrites it.
appendCodexToolCall(heap, calls, i) ==
  IF heap[i].name = ""
  THEN [heap |-> heap, calls |-> calls]
  ELSE LET h    == prepared(heap, calls, i)
           same == {j \in DOMAIN calls : h[calls[j]].id = h[i].id}
       IN IF same = {}
          THEN [heap |-> h, calls |-> Append(calls, i)]
          ELSE LET e == calls[CHOOSE j \in same : \A k \in same : j <= k]
               IN [heap |-> [h EXCEPT ![e].name = h[i].name, ![e].input = h[i].input],
                   calls |-> calls]

\* The end of consumeCodexSSE emits every buffer in the order of toolOrder.
flushed(heap, calls) ==
  LET s[n \in 0..Len(heap)] ==
        IF n = 0 THEN [heap |-> heap, calls |-> calls]
        ELSE appendCodexToolCall(s[n - 1].heap, s[n - 1].calls, n)
  IN s[Len(heap)]

\* applyCodexCompletedFallback: an item of the output gets a new buffer, because
\* those of finished items have been forgotten, and is emitted, with the
\* arguments of the item if it has any.
repeatItem(s, c, bare) ==
  appendCodexToolCall(Append(s.heap, [id |-> vendor.id[c], name |-> c,
                                      input |-> IF c \in bare THEN <<>> ELSE Whole(c)]),
                      s.calls, Len(s.heap) + 1)

repeated(heap, calls, output, bare) ==
  LET s[n \in 0..Len(output)] ==
        IF n = 0 THEN [heap |-> heap, calls |-> calls]
        ELSE repeatItem(s[n - 1], output[n], bare)
  IN s[Len(output)]

-----------------------------------------------------------------------------
(* providers/codex/codex.go: Generate and the stream                       *)

\* Generate begins with the configured token or with the one of the file.
LoadToken(static) ==
  /\ gen = "idle"
  /\ streams < MaxStreams
  /\ gen' = IF static \/ tokenFile.kind = "token" THEN "token" ELSE "failed"
  /\ streams' = streams + 1
  /\ UNCHANGED <<loginVars, vendor, parserVars>>

\* A response whose calls have the ids of id, before its first event; again are
\* the finished calls response.completed repeats, bare those without arguments.
Response(id) ==
  [id |-> id, text |-> 0, textDone |-> FALSE, completed |-> FALSE, again |-> {}, bare |-> {},
   added |-> [c \in Calls |-> "no"], parts |-> [c \in Calls |-> 0],
   argsDone |-> [c \in Calls |-> FALSE], done |-> [c \in Calls |-> FALSE]]

NothingSent == Response([c \in Calls |-> NoID])

DoneCalls == {c \in Calls : vendor.done[c]}

NewParser ==
  /\ buf' = <<>>
  /\ byItem' = [c \in Calls |-> NoToolCall]
  /\ byCall' = [c \in Calls |-> NoToolCall]
  /\ out' = [text |-> 0, calls |-> <<>>]

\* The request is sent: refused, unanswered, or answered by a stream.
SendRequest ==
  /\ gen = "token"
  /\ \/ gen' = "failed" /\ UNCHANGED <<vendor, parserVars>>
     \/ gen' = "streaming" /\ (\E id \in CallIDs : vendor' = Response(id)) /\ NewParser
  /\ UNCHANGED <<loginVars, streams>>

Streaming == gen = "streaming" /\ ~vendor.completed

\* response.output_text.delta
TextDelta ==
  /\ Streaming
  /\ vendor.text < TextParts /\ ~vendor.textDone
  /\ vendor' = [vendor EXCEPT !.text = @ + 1]
  /\ out' = [out EXCEPT !.text = @ + 1]
  /\ UNCHANGED <<loginVars, gen, streams, buf, byItem, byCall>>

\* response.output_text.done, or the message item: the text whole, if none came.
TextDone ==
  /\ Streaming
  /\ vendor.text \in {0, TextParts} /\ ~vendor.textDone
  /\ vendor' = [vendor EXCEPT !.textDone = TRUE]
  /\ out' = [out EXCEPT !.text = IF @ = 0 THEN TextParts ELSE @]
  /\ UNCHANGED <<loginVars, gen, streams, buf, byItem, byCall>>

\* response.output_item.added, without arguments or with the string "".
ItemAdded(c, quoted) ==
  /\ Streaming
  /\ vendor.added[c] = "no" /\ vendor.parts[c] = 0 /\ ~vendor.done[c]
  /\ vendor' = [vendor EXCEPT !.added[c] = IF quoted THEN "quoted" ELSE "bare"]
  /\ LET i == bufferOf(c, vendor.id[c])
         h == ensured(c, vendor.id[c], c)
     IN /\ buf' = IF quoted THEN [h EXCEPT ![i].input = <<Quotes>>] ELSE h
        /\ byItem' = [byItem EXCEPT ![c] = i]
        /\ byCall' = IF vendor.id[c] # NoID THEN [byCall EXCEPT ![c] = i] ELSE byCall
  /\ UNCHANGED <<loginVars, gen, streams, out>>

\* response.function_call_arguments.delta names the item only.
ArgsDelta(c) ==
  /\ Streaming
  /\ vendor.added[c] # "no" /\ ~vendor.argsDone[c] /\ ~vendor.done[c]
  /\ vendor.parts[c] < ArgParts
  /\ vendor' = [vendor EXCEPT !.parts[c] = @ + 1]
  /\ LET i == bufferOf(c, NoID)
     IN /\ buf' = [ensured(c, NoID, "") EXCEPT ![i].input = Append(@, Part(c, vendor.parts[c] + 1))]
        /\ byItem' = [byItem EXCEPT ![c] = i]
  /\ UNCHANGED <<loginVars, gen, streams, byCall, out>>

\* response.function_call_arguments.done repeats the arguments.
ArgsDone(c) ==
  /\ Streaming
  /\ vendor.added[c] # "no" /\ ~vendor.argsDone[c] /\ ~vendor.done[c]
  /\ vendor.parts[c] \in {0, ArgParts}
  /\ vendor' = [vendor EXCEPT !.argsDone[c] = TRUE]
  /\ LET i == bufferOf(c, NoID)
     IN /\ buf' = [ensured(c, NoID, "") EXCEPT ![i].input = Whole(c)]
        /\ byItem' = [byItem EXCEPT ![c] = i]
  /\ UNCHANGED <<loginVars, gen, streams, byCall, out>>

\* The arguments of c have reached the parser before its item is done.
Delivered(c) ==
  vendor.argsDone[c] \/ (vendor.added[c] = "bare" /\ vendor.parts[c] = ArgParts)

\* A finished item is emitted and its buffer forgotten.
Emit(c, whole) ==
  LET i == bufferOf(c, vendor.id[c])
      h == ensured(c, vendor.id[c], c)
      e == appendCodexToolCall(IF whole THEN [h EXCEPT ![i].input = Whole(c)] ELSE h, out.calls, i)
  IN /\ buf' = e.heap
     /\ out' = [out EXCEPT !.calls = e.calls]
     /\ byItem' = forget([byItem EXCEPT ![c] = NoToolCall], i)
     /\ byCall' = forget([byCall EXCEPT ![c] = NoToolCall], i)

\* response.output_item.done, with the arguments or, if they came, without.
ItemDone(c, whole) ==
  /\ Streaming
  /\ ~vendor.done[c]
  /\ whole \/ Delivered(c)
  /\ vendor' = [vendor EXCEPT !.done[c] = TRUE]
  /\ Emit(c, whole)
  /\ UNCHANGED <<loginVars, gen, streams>>

\* response.completed repeats every item of the output in some order
\* (applyCodexCompletedFallback): the text, used if none came, and the calls,
\* those that were finished before perhaps without their arguments.
Completed ==
  /\ Streaming
  /\ \A c \in Calls : vendor.done[c] \/ (vendor.added[c] = "no")
  /\ vendor.text \in {0, TextParts}
  /\ \E output \in SetToSeqs(Calls), bare \in SUBSET DoneCalls :
       LET e == repeated(buf, out.calls, output, bare)
       IN /\ vendor' = [vendor EXCEPT !.completed = TRUE, !.textDone = TRUE,
                           !.done = [c \in Calls |-> TRUE], !.again = DoneCalls, !.bare = bare]
          /\ buf' = e.heap
          /\ out' = [text |-> IF out.text = 0 THEN TextParts ELSE out.text, calls |-> e.calls]
  /\ UNCHANGED <<loginVars, gen, streams, byItem, byCall>>

\* A broken connection, response.failed, error, a failed response.completed or
\* an event that is not JSON.
StreamFails ==
  /\ gen = "streaming"
  /\ gen' = "failed"
  /\ UNCHANGED <<loginVars, streams, vendor, parserVars>>

\* [DONE] or the end of the body, wherever it comes: the buffers left are
\* emitted in order and the response is returned.
StreamEnds ==
  /\ gen = "streaming"
  /\ LET e == flushed(buf, out.calls)
     IN /\ buf' = e.heap
        /\ out' = [out EXCEPT !.calls = e.calls]
  /\ gen' = "ok"
  /\ UNCHANGED <<loginVars, streams, vendor, byItem, byCall>>

\* The caller takes the result; the parser's state was local to Generate.
TakeResult ==
  /\ gen \in {"ok", "failed"}
  /\ gen' = "idle"
  /\ vendor' = NothingSent
  /\ NewParser
  /\ UNCHANGED <<loginVars, streams>>

Stream ==
  \/ SendRequest
  \/ TextDelta
  \/ TextDone
  \/ \E c \in Calls, quoted \in BOOLEAN : ItemAdded(c, quoted)
  \/ \E c \in Calls : ArgsDelta(c)
  \/ \E c \in Calls : ArgsDone(c)
  \/ \E c \in Calls, whole \in BOOLEAN : ItemDone(c, whole)
  \/ Completed
  \/ StreamFails
  \/ StreamEnds

CodexInit ==
  /\ login = [phase |-> "idle", n |-> 0, code |-> NoCode]
  /\ tokenFile = Absent
  /\ gen = "idle"
  /\ streams = 0
  /\ vendor = NothingSent
  /\ buf = <<>>
  /\ byItem = [c \in Calls |-> NoToolCall]
  /\ byCall = [c \in Calls |-> NoToolCall]
  /\ out = [text |-> 0, calls |-> <<>>]

-----------------------------------------------------------------------------
(* Properties *)

Entries(c) == {j \in DOMAIN out.calls : buf[out.calls[j]].name = c}

\* The id of c is not one that the parser makes up for a call without an id.
Distinct(c) ==
  vendor.id[c] < 0 \/ ~\E d, e \in Calls : vendor.id[d] = NoID /\ vendor.id[e] > 0

\* A response Generate returns says what the vendor said, whatever events
\* repeated it and wherever the stream ended (consumeCodexSSE).  The calls it
\* lists have ids, no two the same, and each has its own arguments whole or an
\* empty object, never a part of them or another call's.  Unless its id clashes
\* with one the parser makes up, a call whose item was finished is there, with
\* its arguments, if response.completed did not repeat it without them; it is
\* there under the id the vendor gave it, and once, if it has an id or was not
\* repeated.  The text is what was sent of it, never doubled.
ResponseIsFaithful ==
  gen = "ok" =>
    /\ \A j \in DOMAIN out.calls :
         LET tc == buf[out.calls[j]]
         IN /\ tc.id # NoID
            /\ \A k \in DOMAIN out.calls : buf[out.calls[k]].id = tc.id => k = j
            /\ tc.input \in {Whole(tc.name), Braces}
    /\ \A c \in Calls : Distinct(c) =>
         /\ vendor.done[c] =>
              \E j \in Entries(c) :
                buf[out.calls[j]].input = Whole(c) \/ (vendor.id[c] # NoID /\ c \in vendor.bare)
         /\ vendor.id[c] # NoID =>
              \A j \in Entries(c) : buf[out.calls[j]].id = vendor.id[c]
         /\ vendor.id[c] # NoID \/ c \notin vendor.again =>
              \A i, j \in Entries(c) : i = j
    /\ out.text = IF vendor.textDone THEN TextParts ELSE vendor.text

\* The token on disk was obtained with a code issued for the login command that
\* wrote it, although tabs of earlier, abandoned logins may call back at any
\* time (startLocalServer compares the state).
TokenFromOwnLogin ==
  tokenFile.kind = "token" => tokenFile.code = tokenFile.login

=============================================================================
