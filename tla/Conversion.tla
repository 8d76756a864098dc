--------------------------- MODULE Conversion ---------------------------
(***************************************************************************)
(* What a provider is sent of a conversation (pkg/ai/providers: openai      *)
(* convert.go and completions.go, anthropic and google convert.go).  The    *)
(* transcript is provider-neutral and its answers may come from several     *)
(* models: the user switches between prompts and a failed request moves to  *)
(* another.  The contents are represented by where they stand in it.        *)
(***************************************************************************)
EXTENDS Naturals, Sequences, SequencesExt, FiniteSetsExt

CONSTANTS
  Targets,    \* the models, each with the interface it speaks
  Contents,   \* what an answer may consist of: sequences of thinking, text and calls
  MaxMessages \* bound: messages of a conversation

VARIABLE history

conversionVars == <<history>>

Api(target) == target[1]

Calls(m) == IF m.role = "assistant" THEN {k \in DOMAIN m.blocks : m.blocks[k] = "call"} ELSE {}
FailedAnswer(m) == m.role = "assistant" /\ m.failed

(* A call is known by its place; the responses interface names it call|item.*)
CallId(i, k) == IF Api(history[i].by) = "responses" THEN <<<<i, k>>, "|", "item">> ELSE <<<<i, k>>>>

-----------------------------------------------------------------------------
(* One piece of a request: what it is, which content, and under which name. *)
Part(kind, of, id) == [kind |-> kind, of |-> of, id |-> id]
Spoken(role, parts) == [role |-> role, parts |-> parts]

TextParts(i) == [k \in DOMAIN history[i].parts |-> Part(history[i].parts[k], <<i, k>>, <<>>)]
AnsweredId(i) == CallId(history[i].call[1], history[i].call[2])

(* Blocks turned into parts one by one; some leave nothing.                 *)
EachBlock(i, OfBlock(_)) == FlattenSeq([k \in DOMAIN history[i].blocks |-> OfBlock(k)])

(* openai, responses: the item's name is cut off a call; reasoning is sent  *)
(* back where its signature is an item of this interface.                   *)
ResponsesId(id) == <<id[1]>>
ResponseParts(i, target) ==
  LET OfBlock(k) ==
        CASE history[i].blocks[k] = "text" -> <<Part("text", <<i, k>>, <<i>>)>>
          [] history[i].blocks[k] = "call" -> <<Part("call", <<i, k>>, ResponsesId(CallId(i, k)))>>
          [] OTHER -> IF Api(history[i].by) = "responses" THEN <<Part("thinking", <<i, k>>, <<>>)>> ELSE <<>>
  IN  EachBlock(i, OfBlock)
ConvertResponses(i, target) ==
  CASE history[i].role = "user" -> <<Spoken("user", TextParts(i))>>
    [] history[i].role = "tool" -> <<Spoken("tool", <<Part("result", <<i, 1>>, ResponsesId(AnsweredId(i)))>>)>>
    [] OTHER -> LET parts == ResponseParts(i, target) IN [k \in DOMAIN parts |-> Spoken("assistant", <<parts[k]>>)]

(* openai, completions: one message whose fields are text, thinking, calls. *)
ConvertCompletions(i, target) ==
  LET Field(kind) == EachBlock(i, LAMBDA k : IF history[i].blocks[k] # kind THEN <<>>
                                             ELSE <<Part(kind, <<i, k>>, IF kind = "call" THEN CallId(i, k) ELSE <<>>)>>)
  IN  CASE history[i].role = "user" -> <<Spoken("user", TextParts(i))>>
        [] history[i].role = "tool" -> <<Spoken("tool", <<Part("result", <<i, 1>>, AnsweredId(i))>>)>>
        [] OTHER -> <<Spoken("assistant", Field("text") \o Field("thinking") \o Field("call"))>>

(* anthropic: everything is sent as it is, results as the user's.           *)
ConvertAnthropic(i, target) ==
  LET OfBlock(k) == <<Part(history[i].blocks[k], <<i, k>>, IF history[i].blocks[k] = "call" THEN CallId(i, k) ELSE <<>>)>>
  IN  CASE history[i].role = "user" -> <<Spoken("user", TextParts(i))>>
        [] history[i].role = "tool" -> <<Spoken("user", <<Part("result", <<i, 1>>, AnsweredId(i))>>)>>
        [] OTHER -> <<Spoken("assistant", EachBlock(i, OfBlock))>>

(* google: names are cleaned and cut; thoughts of another model are text,   *)
(* and a message without parts is left out.                                 *)
NormalizeToolCallId(id) == SubSeq([n \in DOMAIN id |-> IF id[n] = "|" THEN "_" ELSE id[n]], 1, Min({2, Len(id)}))
ConvertGoogle(i, target) ==
  LET sameModel == history[i].by = target
      OfBlock(k) ==
        CASE history[i].blocks[k] = "call" -> <<Part("call", <<i, k>>, NormalizeToolCallId(CallId(i, k)))>>
          [] history[i].blocks[k] = "thinking" /\ ~sameModel -> <<Part("text", <<i, k>>, <<>>)>>
          [] OTHER -> <<Part(history[i].blocks[k], <<i, k>>, <<>>)>>
      said == CASE history[i].role = "user" -> Spoken("user", TextParts(i))
                [] history[i].role = "tool" -> Spoken("user", <<Part("result", <<i, 1>>, NormalizeToolCallId(AnsweredId(i)))>>)
                [] OTHER -> Spoken("assistant", EachBlock(i, OfBlock))
  IN  IF said.parts = <<>> THEN <<>> ELSE <<said>>

Convert(i, target) ==
  CASE Api(target) = "responses"   -> ConvertResponses(i, target)
    [] Api(target) = "completions" -> ConvertCompletions(i, target)
    [] Api(target) = "anthropic"   -> ConvertAnthropic(i, target)
    [] Api(target) = "google"      -> ConvertGoogle(i, target)

HasResult(spoken) == \E p \in Range(spoken.parts) : p.kind = "result"

(* A request in which every result stands on its own.                       *)
MutAppendOrMerge(spoken, next, api) == Append(spoken, next)

(* anthropic merges neighbours of one role, google neighbouring results.    *)
AppendOrMerge(spoken, next, api) ==
  LET merges == /\ spoken # <<>>
                /\ Last(spoken).role = next.role
                /\ api = "anthropic" \/ (api = "google" /\ HasResult(Last(spoken)) /\ HasResult(next))
  IN  IF merges THEN [spoken EXCEPT ![Len(spoken)].parts = @ \o next.parts] ELSE Append(spoken, next)

(* The request after the first n messages.                                  *)
ConvertMessages(n, target) ==
  LET Take(spoken, i) == FoldLeft(LAMBDA s, next : AppendOrMerge(s, next, Api(target)), spoken, Convert(i, target))
  IN  FoldLeft(Take, <<>>, [i \in 1..n |-> i])

(* The last block of the last of the user's messages carries the cache mark.*)
MarkedMessage(request) == Max({0} \cup {j \in 1..Len(request) : request[j].role = "user" /\ request[j].parts # <<>>})

-----------------------------------------------------------------------------
(* The conversation, as the loop and the chat write it.                     *)
Answered(i, k) == \E j \in i + 1..Len(history) : history[j].role = "tool" /\ history[j].call = <<i, k>>
Open == {<<i, k>> \in (1..Len(history)) \X (1..3) :
           k \in Calls(history[i]) /\ ~FailedAnswer(history[i]) /\ ~Answered(i, k)}
LastRole == IF history = <<>> THEN "none" ELSE Last(history).role

ConversionInit == history = <<>>

Say(m) == Len(history) < MaxMessages /\ history' = Append(history, m)

(* A prompt, a message steered in after the results of a turn, or a notice  *)
(* of a moved session before the prompt.                                    *)
Prompted(parts) == Open = {} /\ Say([role |-> "user", parts |-> parts])

AnswerComes(target, blocks) ==
  /\ LastRole \in {"user", "tool"} /\ Open = {} /\ blocks # <<>>
  /\ Say([role |-> "assistant", by |-> target, blocks |-> blocks, failed |-> FALSE])

(* A request that fails keeps what was streamed, its calls with it, and is  *)
(* stored with the rest.                                                    *)
AnswerBreaks(target, blocks) ==
  /\ LastRole \in {"user", "tool"} /\ Open = {}
  /\ Say([role |-> "assistant", by |-> target, blocks |-> blocks, failed |-> TRUE])

ResultComes ==
  /\ Open # {}
  /\ \E call \in Open : /\ \A other \in Open : call[2] <= other[2]
                        /\ Say([role |-> "tool", call |-> call])

ConversionNext ==
  \/ \E parts \in {<<"text">>, <<"text", "image">>} : Prompted(parts)
  \/ \E target \in Targets, blocks \in Contents : AnswerComes(target, blocks)
  \/ \E target \in Targets, blocks \in Contents : AnswerBreaks(target, blocks)
  \/ ResultComes

-----------------------------------------------------------------------------
Requested == LastRole \in {"user", "tool"} /\ Open = {}
Flat(request) == FlattenSeq([j \in DOMAIN request |-> request[j].parts])
PartsOf(parts, kind) == {n \in DOMAIN parts : parts[n].kind = kind}

(* Calls and results are paired by name: every call of an answer that ended *)
(* well has one result, which comes after it and before anything but calls  *)
(* and results; and every result answers a call.                            *)
CallsPairedIn(parts) ==
  LET Good(n) == ~FailedAnswer(history[parts[n].of[1]])
  IN  /\ \A n \in PartsOf(parts, "call") : Good(n) =>
           \E r \in PartsOf(parts, "result") :
             /\ r > n /\ parts[r].id = parts[n].id
             /\ \A x \in n..r : parts[x].kind \in {"call", "result"}
      /\ \A r \in PartsOf(parts, "result") : Cardinality({n \in PartsOf(parts, "call") : parts[n].id = parts[r].id}) = 1
      /\ \A r, q \in PartsOf(parts, "result") : parts[r].id = parts[q].id => r = q

(* "A missing result makes the next provider request invalid" (loop.go:287):*)
(* every call in the transcript is answered when the next request is made.  *)
EveryCallAnswered ==
  Requested => \A i \in DOMAIN history : \A k \in Calls(history[i]) : Answered(i, k)

(* What is sent to any provider, whoever gave the answers in between: calls *)
(* with their results; all that was said, in its order; no thought under    *)
(* another model's signature; and, where roles must alternate, the results  *)
(* of a turn and what the user said after them in the one message that      *)
(* answers it, at whose end the cache mark stands.  A request repeats the   *)
(* one before it, so that the provider's cached prefix only grows.          *)
RequestsSound ==
  Requested => \A target \in Targets : \A request \in {ConvertMessages(Len(history), target)} : \A parts \in {Flat(request)} :
    /\ CallsPairedIn(parts)
    /\ \A i \in DOMAIN history : history[i].role # "tool" =>
         \A k \in DOMAIN (IF history[i].role = "user" THEN history[i].parts ELSE history[i].blocks) :
           \/ \E n \in DOMAIN parts : parts[n].of = <<i, k>> /\ parts[n].kind # "result"
           \/ history[i].role = "assistant" /\ history[i].blocks[k] = "thinking" /\ Api(history[i].by) # Api(target)
    /\ \A n \in 1..Len(parts) - 1 : parts[n].of[1] <= parts[n + 1].of[1]
    /\ \A n \in PartsOf(parts, "thinking") :
         LET by == history[parts[n].of[1]].by
         IN  CASE Api(target) = "google" -> by = target [] Api(target) = "responses" -> Api(by) = Api(target) [] OTHER -> TRUE
    /\ Api(target) = "anthropic" =>
         /\ request[1].role = "user" /\ MarkedMessage(request) = Len(request)
         /\ \A j \in 1..Len(request) - 1 : request[j].role # request[j + 1].role
    /\ Api(target) = "google" =>
         \A j \in 2..Len(request) : HasResult(request[j]) => ~HasResult(request[j - 1]) /\ request[j - 1].role = "assistant"
    /\ \A n \in 1..Len(history) - 1 : IsPrefix(Flat(ConvertMessages(n, target)), parts)
=============================================================================
