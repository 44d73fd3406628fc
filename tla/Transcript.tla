----------------------------- MODULE Transcript -----------------------------
(***************************************************************************)
(* What the web client shows of a conversation                             *)
(* (conversation-transcript.ts): a prefix of committed history items and   *)
(* the chunks of the step under way, folded into blocks as they arrive,    *)
(* against what the daemon said (chat/loop.py, domain/stream.py).  Feed    *)
(* says which versions arrive; here they arrive in order.                  *)
(*                                                                         *)
(* A text is its length, in copies of one letter: of two texts the shorter *)
(* is a prefix of the longer, the worst case for a client that matches by  *)
(* prefix.  Keys, timestamps and the pending message are left out, tool    *)
(* names too: blocks of this stream always have an id in common.           *)
(***************************************************************************)
EXTENDS Naturals, Sequences, SequencesExt, FiniteSetsExt

CONSTANTS
  MaxCalls,  \* bound: tool calls
  MaxPieces, \* bound: pieces of text, reasoning, arguments and output
  MaxRuns,   \* bound: runs
  Window     \* SNAPSHOT_HISTORY_LIMIT and CONVERSATION_HISTORY_PAGE_SIZE

ASSUME TranscriptAssumption ==
  {MaxCalls, MaxPieces, MaxRuns} \subseteq Nat /\ Window \in Nat \ {0}

Calls == 1..MaxCalls
NoCall == 0

VARIABLES
  committed, \* history: the committed items
  streamed,  \* living_chunks
  phase,     \* the run: "idle", "llm" or "tools"
  open,      \* calls of the step that still run
  byUser,    \* the run was started by a message of the user
  runs,      \* bound: runs so far
  pieces,    \* bound: pieces so far
  transcript,\* TranscriptState: prefix, liveBlocks, continues
  page       \* the firstSeq an older page was asked for with (0: none under way)

transcriptVars == <<committed, streamed, phase, open, byUser, runs, pieces, transcript, page>>

-----------------------------------------------------------------------------
(* Blocks and their merging.                                               *)

RenderBlock(type, call, stream, content, args, result, status) ==
  [type |-> type, call |-> call, stream |-> stream, content |-> content,
   args |-> args, result |-> result, status |-> status]

Longer(m, n) == IF m < n THEN n ELSE m

FirstId(m, n) == IF m # NoCall THEN m ELSE n

\* samePendingToolCall, sameToolCall.
SameCall(l, r) ==
  IF l.call # NoCall /\ r.call # NoCall THEN l.call = r.call
  ELSE l.stream # NoCall /\ l.stream = r.stream

\* mergeToolCallBlocks; arguments of one JSON object never start with what precedes them.
MergeCall(l, r) ==
  [l EXCEPT !.args = @ + r.args, !.call = FirstId(@, r.call),
            !.stream = FirstId(@, r.stream), !.status = r.status]

\* appendToolResultToGroup: a running snapshot replaces, and so does the final result of a
\* running tool; otherwise mergeToolResultContent.
AddResult(group, r) ==
  [group EXCEPT
    !.type = "tool_group",
    !.result = IF r.status = "running" \/ group.status # "completed" THEN r.content
               ELSE Longer(@, r.content),
    !.status = r.status]

\* The same for results whose call is not among the blocks.
JoinResults(l, r) ==
  [l EXCEPT !.content = IF l.status # "completed" /\ r.status = "completed" THEN r.content
                        ELSE Longer(@, r.content),
            !.status = r.status]

\* groupToolBlocks, one block.
GroupStep(blocks, b) ==
  LET isCall(x) == x.type \in {"tool_call", "tool_group"}
      callAt   == SelectLastInSeq(blocks, LAMBDA x : isCall(x) /\ SameCall(x, b))
      ownerAt  == SelectLastInSeq(blocks, LAMBDA x :
                    /\ isCall(x)
                    /\ b.call # NoCall /\ x.call # NoCall => b.call = x.call
                    /\ x.type = "tool_group" /\ x.result > 0 => b.call = x.call)
      resultAt == SelectLastInSeq(blocks, LAMBDA x : x.type = "tool_result" /\ x.call = b.call)
  IN CASE b.type = "tool_call" /\ callAt > 0 -> [blocks EXCEPT ![callAt] = MergeCall(@, b)]
       [] b.type = "tool_group" /\ callAt > 0 ->
            [blocks EXCEPT ![callAt] = [MergeCall(@, b) EXCEPT !.result = Longer(@, b.result)]]
       [] b.type = "tool_result" /\ ownerAt > 0 -> [blocks EXCEPT ![ownerAt] = AddResult(@, b)]
       [] b.type = "tool_result" /\ ownerAt = 0 /\ resultAt > 0 ->
            [blocks EXCEPT ![resultAt] = JoinResults(@, b)]
       [] OTHER -> Append(blocks, b)

\* groupToolBlocks: at its end a call without a result is a group of its own.
GroupTools(blocks) ==
  LET asGroup(b) == IF b.type = "tool_call" THEN [b EXCEPT !.type = "tool_group"] ELSE b
  IN FoldLeft(LAMBDA acc, b : Append(acc, asGroup(b)), <<>>, FoldLeft(GroupStep, <<>>, blocks))

\* appendRenderBlocks: adjacent text and reasoning grow.
AppendBlocks(blocks, b) ==
  LET n == Len(blocks) IN
  GroupTools(IF n > 0 /\ blocks[n].type = b.type /\ b.type \in {"text", "thinking"}
             THEN [blocks EXCEPT ![n].content = @ + b.content]
             ELSE Append(blocks, b))

\* renderBlocksFromStreamEvent.
EventBlock(e) ==
  CASE e.kind \in {"text", "thinking"} -> RenderBlock(e.kind, NoCall, NoCall, e.size, 0, 0, "")
    [] e.kind = "tool_name" -> RenderBlock("tool_call", e.call, e.call, 0, 0, 0, "running")
    [] e.kind = "tool_arguments_delta" -> RenderBlock("tool_call", NoCall, e.call, 0, e.size, 0, "running")
    [] e.kind = "tool_result_delta" -> RenderBlock("tool_result", e.call, NoCall, e.size, 0, 0, "running")
    [] e.kind = "tool_result_end" -> RenderBlock("tool_result", e.call, NoCall, e.size, 0, 0, "completed")

AddEvent(blocks, e) == AppendBlocks(blocks, EventBlock(e))

LiveBlocks(chunks) == FoldLeft(AddEvent, <<>>, chunks)

\* historyItemToBlocks.
ItemBlock(item) ==
  CASE item.kind = "gen_tool_call" -> RenderBlock("tool_call", item.call, NoCall, 0, item.size, 0, "running")
    [] item.kind = "tool_result" -> RenderBlock("tool_result", item.call, NoCall, item.size, 0, 0, "completed")
    [] item.kind = "developer" -> RenderBlock("raw", NoCall, NoCall, item.size, 0, 0, "")
    [] OTHER -> RenderBlock(item.kind, NoCall, NoCall, item.size, 0, 0, "")

\* historyItemsFromHistory: one item for each message of the user, one for all that follows it.
AddItem(items, item) ==
  LET n == Len(items) IN
  IF item.kind = "user" THEN Append(items, [role |-> "user", turn |-> item.seq, blocks |-> <<>>])
  ELSE IF n > 0 /\ items[n].role = "actor"
    THEN [items EXCEPT ![n].blocks = AppendBlocks(@, ItemBlock(item))]
    ELSE Append(items, [role |-> "actor", turn |-> IF n = 0 THEN 0 ELSE items[n].turn,
                        blocks |-> AppendBlocks(<<>>, ItemBlock(item))])

HistoryItems(prefix) == FoldLeft(AddItem, <<>>, prefix)

IsTool(b) == b.type \in {"tool_group", "tool_call", "tool_result"}

\* reconcileLiveBlocks, one live block from the cursor on.
Reconcile(acc, b) ==
  LET fits(i) ==
        /\ i >= acc.cursor
        /\ IF IsTool(b) THEN IsTool(acc.blocks[i]) /\ SameCall(acc.blocks[i], b)
           ELSE acc.blocks[i].type = b.type
      at == {i \in DOMAIN acc.blocks : fits(i)}
  IN IF at = {}
     THEN [blocks |-> InsertAt(acc.blocks, acc.cursor, b), cursor |-> acc.cursor + 1]
     ELSE LET i == Min(at) IN
          [blocks |-> [acc.blocks EXCEPT ![i] =
                         IF IsTool(b) THEN GroupTools(<<acc.blocks[i], b>>)[1]
                         ELSE [@ EXCEPT !.content = Longer(@, b.content)]],
           cursor |-> i + 1]

\* mistake: always from the start.
FromTheStart(blocks, live) ==
  GroupTools(FoldLeft(Reconcile, [blocks |-> blocks, cursor |-> 1], live).blocks)

\* reconcileLiveBlocks: from the start when a live block continues a known tool call,
\* otherwise behind the last completed tool.
ReconcileLive(blocks, live) ==
  LET repeats == \E i \in DOMAIN live : IsTool(live[i]) /\
                   \E j \in DOMAIN blocks : IsTool(blocks[j]) /\ SameCall(blocks[j], live[i])
      completed == SelectLastInSeq(blocks, LAMBDA x : x.type = "tool_group" /\ x.status = "completed")
      start == IF repeats THEN 1 ELSE completed + 1
  IN GroupTools(FoldLeft(Reconcile, [blocks |-> blocks, cursor |-> start], live).blocks)

\* transcriptDisplayItems, mergeLiveAssistantTurn.
DisplayItems(s) ==
  LET items == HistoryItems(s.prefix)
      user  == SelectLastInSeq(items, LAMBDA x : x.role = "user")
      turn  == IF user = 0 THEN 0 ELSE items[user].turn
      mine  == {i \in DOMAIN items : user > 0 /\ items[i].role = "actor" /\ items[i].turn = turn}
  IN IF ~s.continues \/ s.live = <<>> THEN items
     ELSE IF mine # {}
       THEN [items EXCEPT ![Min(mine)].blocks = ReconcileLive(@, s.live)]
       ELSE Append(items, [role |-> "actor", turn |-> turn, blocks |-> s.live])


-----------------------------------------------------------------------------
(* The daemon's run and the client that follows it.                        *)

TranscriptInit ==
  /\ committed = <<>> /\ streamed = <<>>
  /\ phase = "idle" /\ open = {} /\ byUser = TRUE
  /\ runs = 0 /\ pieces = 0
  /\ transcript = [prefix |-> <<>>, live |-> <<>>, continues |-> FALSE]
  /\ page = 0

Named == {streamed[i].call : i \in {j \in DOMAIN streamed : streamed[j].kind = "tool_name"}}

UsedCalls == {committed[i].call : i \in DOMAIN committed} \cup Named

\* The commit reducer: the prefix grows, the live blocks go.
Commit(items, continues) ==
  LET seqs == [i \in DOMAIN items |-> [items[i] EXCEPT !.seq = Len(committed) + i]] IN
  /\ committed' = committed \o seqs
  /\ streamed' = <<>>
  /\ transcript' = [prefix |-> transcript.prefix \o seqs, live |-> <<>>, continues |-> continues]

Item(kind, call, size) == [seq |-> 0, kind |-> kind, call |-> call, size |-> size]

\* _emit_delta and the delta reducer.
Delta(kind, call, size) ==
  LET e == [kind |-> kind, call |-> call, size |-> size] IN
  /\ streamed' = Append(streamed, e)
  /\ transcript' = [transcript EXCEPT !.live = AddEvent(@, e), !.continues = TRUE]

\* A run starts with the commit of its input: a message of the user, or a notice or a task
\* result in the developer's role.
RunBegins(input) ==
  /\ phase = "idle" /\ runs < MaxRuns
  /\ phase' = "llm" /\ runs' = runs + 1 /\ byUser' = (input = "user")
  /\ Commit(<<Item(input, NoCall, 1)>>, TRUE)
  /\ UNCHANGED <<open, pieces, page>>

Piece == pieces < MaxPieces /\ pieces' = pieces + 1

StreamText(kind) ==
  /\ phase = "llm" /\ Piece
  /\ Delta(kind, NoCall, 1)
  /\ UNCHANGED <<committed, phase, open, byUser, runs, page>>

StreamToolName(c) ==
  /\ phase = "llm" /\ c \notin UsedCalls /\ Calls \cap (1..(c - 1)) \subseteq UsedCalls
  /\ Delta("tool_name", c, 0)
  /\ UNCHANGED <<committed, phase, open, byUser, runs, pieces, page>>

\* The arguments of parallel calls may alternate; they carry the id of the stream alone.
StreamToolArguments(c) ==
  /\ phase = "llm" /\ c \in Named /\ Piece
  /\ Delta("tool_arguments_delta", c, 1)
  /\ UNCHANGED <<committed, phase, open, byUser, runs, page>>

SizeOf(kind, call) ==
  FoldLeft(LAMBDA n, e : IF e.kind = kind /\ e.call = call THEN n + e.size ELSE n, 0, streamed)

\* merge(): one output for each text, reasoning and call, in the order of their first chunks.
Merged(done) ==
  LET first(e) == [kind |-> e.kind, call |-> e.call]
      starts == SelectSeq(streamed, LAMBDA e : e.kind \in {"text", "thinking", "tool_name"})
      order == FoldLeft(LAMBDA acc, e :
                 IF first(e) \in ToSet(acc) THEN acc ELSE Append(acc, first(e)), <<>>, starts)
      kept == SelectSeq(order, LAMBDA k : k.kind = "tool_name" => k.call \in done)
  IN [i \in DOMAIN kept |->
        IF kept[i].kind = "tool_name"
        THEN Item("gen_tool_call", kept[i].call, SizeOf("tool_arguments_delta", kept[i].call))
        ELSE Item(kept[i].kind, NoCall, SizeOf(kept[i].kind, NoCall))]

\* The stream ends with calls: their commit, then the tools run.
LLMCallsTools ==
  /\ phase = "llm" /\ Named # {}
  /\ Commit(Merged(Named), TRUE)
  /\ phase' = "tools" /\ open' = Named
  /\ UNCHANGED <<byUser, runs, pieces, page>>

\* The last answer, or an interrupted stream that keeps the complete calls.
LLMStops(done) ==
  /\ phase = "llm" /\ done \subseteq Named
  /\ Commit(Merged(done), FALSE)
  /\ phase' = "idle"
  /\ UNCHANGED <<open, byUser, runs, pieces, page>>

\* An exception: a frame without a version; living_chunks stay.
RunBreaks ==
  /\ phase # "idle"
  /\ phase' = "idle" /\ open' = {}
  /\ transcript' = [transcript EXCEPT !.continues = FALSE]
  /\ UNCHANGED <<committed, streamed, byUser, runs, pieces, page>>

\* A snapshot of what the tool shows, which may shrink.
ToolShows(c, size) ==
  /\ phase = "tools" /\ c \in open /\ Piece
  /\ Delta("tool_result_delta", c, size)
  /\ UNCHANGED <<committed, phase, open, byUser, runs, page>>

ToolEnds(c) ==
  /\ phase = "tools" /\ c \in open
  /\ Delta("tool_result_end", c, c)
  /\ open' = open \ {c}
  /\ UNCHANGED <<committed, phase, byUser, runs, pieces, page>>

CallsOf(items) ==
  LET calls == SelectSeq(items, LAMBDA x : x.kind = "gen_tool_call")
      answered == {items[i].call : i \in {j \in DOMAIN items : items[j].kind = "tool_result"}}
      ended == {streamed[i].call : i \in DOMAIN streamed}
  IN SelectSeq(calls, LAMBDA x : x.call \in ended \ answered)

\* gather() returned: the results in the order of the calls; interrupted, the run leaves.
ToolsReturn(interrupted) ==
  LET calls == CallsOf(committed) IN
  /\ phase = "tools" /\ open = {}
  /\ Commit([i \in DOMAIN calls |-> Item("tool_result", calls[i].call, calls[i].call)], ~interrupted)
  /\ phase' = IF interrupted THEN "idle" ELSE "llm"
  /\ UNCHANGED <<open, byUser, runs, pieces, page>>

\* A snapshot: the newest Window items and living_chunks.
Snapshot ==
  LET low == IF Len(committed) > Window THEN Len(committed) - Window ELSE 0 IN
  /\ committed # <<>>
  /\ transcript' = [prefix |-> SubSeq(committed, low + 1, Len(committed)), live |-> LiveBlocks(streamed),
              continues |-> phase # "idle"]
  /\ UNCHANGED <<committed, streamed, phase, open, byUser, runs, pieces, page>>

\* loadOlder: the page before the first item, and its arrival (the prepend reducer).
AskOlder ==
  /\ page = 0 /\ transcript.prefix # <<>> /\ transcript.prefix[1].seq > 1
  /\ page' = transcript.prefix[1].seq
  /\ UNCHANGED <<committed, streamed, phase, open, byUser, runs, pieces, transcript>>

OlderArrives ==
  LET low == IF page > Window THEN page - Window ELSE 1
      known == {transcript.prefix[i].seq : i \in DOMAIN transcript.prefix}
      added == SelectSeq(SubSeq(committed, low, page - 1), LAMBDA x : x.seq \notin known)
  IN
  /\ page # 0
  /\ transcript' = [transcript EXCEPT !.prefix = added \o @]
  /\ page' = 0
  /\ UNCHANGED <<committed, streamed, phase, open, byUser, runs, pieces>>

TranscriptNext ==
  \/ \E input \in {"user", "developer"} : RunBegins(input)
  \/ \E kind \in {"text", "thinking"} : StreamText(kind)
  \/ \E c \in Calls : StreamToolName(c) \/ StreamToolArguments(c) \/ ToolEnds(c)
  \/ \E c \in Calls, size \in 1..2 : ToolShows(c, size)
  \/ LLMCallsTools \/ (\E done \in SUBSET Calls : LLMStops(done)) \/ RunBreaks
  \/ \E interrupted \in BOOLEAN : ToolsReturn(interrupted)
  \/ Snapshot \/ AskOlder \/ OlderArrives

TranscriptSpec == TranscriptInit /\ [][TranscriptNext]_transcriptVars

TranscriptTypeOK ==
  /\ phase \in {"idle", "llm", "tools"} /\ open \subseteq Calls /\ byUser \in BOOLEAN
  /\ runs \in 0..MaxRuns /\ pieces \in 0..MaxPieces /\ page \in Nat
  /\ \A i \in DOMAIN committed : committed[i].seq = i

-----------------------------------------------------------------------------

Shown == FoldLeft(LAMBDA acc, x : acc \o x.blocks, <<>>, DisplayItems(transcript))

\* What the client was told: the items of its prefix and, while the run goes on, the chunks.
Told == transcript.prefix \o (IF transcript.continues THEN streamed ELSE <<>>)

Sum(seq, Test(_), Value(_)) == FoldLeft(LAMBDA n, x : IF Test(x) THEN n + Value(x) ELSE n, 0, seq)

TextShown ==
  \A kind \in {"text", "thinking"} :
    Sum(Shown, LAMBDA b : b.type = kind, LAMBDA b : b.content)
      = Sum(Told, LAMBDA e : e.kind = kind, LAMBDA e : e.size)

\* The output the transcript shows for a call, in its group or alone.
ResultShown(c) ==
  Sum(Shown, LAMBDA b : b.type = "tool_group" /\ b.call = c, LAMBDA b : b.result)
    + Sum(Shown, LAMBDA b : b.type = "tool_result" /\ b.call = c, LAMBDA b : b.content)

CallsShown ==
  \A c \in Calls :
    LET groups == SelectSeq(Shown, LAMBDA b : b.type = "tool_group" /\ b.call = c)
        told   == SelectSeq(Told, LAMBDA e : e.call = c /\
                    e.kind \in {"gen_tool_call", "tool_name", "tool_arguments_delta"})
        ended  == \E i \in DOMAIN Told :
                    Told[i].call = c /\ Told[i].kind \in {"tool_result", "tool_result_end"}
    IN /\ Len(groups) = (IF told = <<>> THEN 0 ELSE 1)
       /\ Sum(groups, LAMBDA b : TRUE, LAMBDA b : b.args)
            = Sum(told, LAMBDA e : TRUE, LAMBDA e : e.size)
       /\ ended => ResultShown(c) = c

\* No step says text or reasoning behind a call.
TextFirst ==
  \A said \in {committed, streamed} : \A i, j \in DOMAIN said :
    i < j /\ said[j].kind \in {"text", "thinking"} /\ said[i].kind \in {"gen_tool_call", "tool_name"} =>
      \E k \in (i + 1)..(j - 1) : said[k].kind = "tool_result"

\* No older page came behind a snapshot that begins later than the prefix it was asked for.
NoHole == \A i \in DOMAIN transcript.prefix : transcript.prefix[i].seq = transcript.prefix[1].seq + i - 1

\* In a run the user started, and while text precedes the calls of its step, the transcript
\* shows every chunk and every committed item once, however the arguments and results of
\* parallel calls alternate, whichever step a snapshot or an older page falls into, and in the
\* same way before and after a commit.
ShowsWhatWasSaid == byUser /\ TextFirst /\ NoHole => TextShown /\ CallsShown
=============================================================================
