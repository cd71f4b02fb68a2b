----------------------------- MODULE EaAssistant -----------------------------
(***************************************************************************)
(* The assistant of the EA Map (ea/assistant.py, ea/groq.py) and its       *)
(* settings (ea/assistant_settings.py).  A question is a conversation with *)
(* a provider: a model answers, or calls tools whose results are sent with *)
(* the next step.  Gemini has several models, each tried again when it is  *)
(* overloaded; Groq has one; if the settings say so, the other provider    *)
(* takes over once, from the beginning.                                    *)
(*                                                                         *)
(* A provider may fail in any way and a model may say anything: of a text  *)
(* there are the references [[id]], of a tool what it lights on the map.   *)
(***************************************************************************)
EXTENDS Integers, Sequences, FiniteSets, SequencesExt, FiniteSetsExt

CONSTANTS
  Known,      \* the nodes of the map that the question has read
  Keys,       \* providers whose key is on the backend
  Configs,    \* settings there may be: [provider, fallback, gemini]
  Fallbacks,  \* sequence of models: GEMINI_FALLBACK_MODELS
  Turns,      \* sequences of calls that a model may ask for: [id, tool, ids]
  Cited,      \* sets of ids that a text may refer to
  MaxSteps,   \* MAX_STEPS
  Delays,     \* waits between the attempts of a model of Gemini: len(DELAYS)
  MaxLit,     \* nodes that an answer lights: 40
  MaxSaves    \* bound: times the settings are saved

None == "none"
NoConfig == [provider |-> None, fallback |-> FALSE, gemini |-> None]
NoAnswer == [error |-> "nothing"]
Other(provider) == IF provider = "gemini" THEN "groq" ELSE "gemini"

VARIABLES
  row,     \* the settings saved
  pc,      \* "idle", "ask", "tools", "done"
  config,  \* the settings that the question has read
  conv,    \* the conversation with a provider
  queue,   \* models left to this step, the one that is asked first
  tries,   \* times it was asked in this step
  out,     \* the answer or the error
  saves

vars == <<row, pc, config, conv, queue, tries, out, saves>>

(* chat: the tools and the history are new, the messages of the person are *)
(* the same.                                                               *)
Chat(provider) ==
  [provider |-> provider, history |-> <<>>, calls |-> <<>>, steps |-> 0, lit |-> <<>>, current |-> None]

Restart(c, provider) == Chat(provider)

(* The elements of a sequence at some of its indices, in order. *)
Picked(s, indices) ==
  LET Nth(n) == CHOOSE k \in indices : Cardinality({i \in indices : i <= k}) = n
  IN  [n \in 1..Cardinality(indices) |-> s[Nth(n)]]

Without(models, model) ==
  IF model \in ToSet(models) THEN RemoveAt(models, CHOOSE i \in DOMAIN models : models[i] = model) ELSE models

(* Groq has the model of the settings; Gemini has that and its fallbacks,  *)
(* where they are others.                                                  *)
Models(settings, provider) ==
  IF provider = "groq" THEN <<"groq">>
  ELSE <<settings.gemini>> \o Picked(Fallbacks, {i \in DOMAIN Fallbacks : Fallbacks[i] # settings.gemini})

(* The model that answered is asked first. *)
InOrder(settings, c) ==
  LET models == Models(settings, c.provider) IN
  IF c.current \in ToSet(models)
  THEN <<c.current>> \o Without(models, c.current)
  ELSE models

Init ==
  /\ row \in Configs
  /\ pc = "idle" /\ config = NoConfig /\ conv = Chat(None)
  /\ queue = <<>> /\ tries = 0 /\ out = NoAnswer
  /\ saves = 0

(* save_config: every provider in use has a key. *)
Save(c) ==
  /\ saves < MaxSaves /\ row # c
  /\ {c.provider} \union (IF c.fallback THEN {Other(c.provider)} ELSE {}) \subseteq Keys
  /\ row' = c /\ saves' = saves + 1
  /\ UNCHANGED <<pc, config, conv, queue, tries, out>>

Fail(status) == pc' = "done" /\ out' = [error |-> status] /\ UNCHANGED <<conv, queue, tries>>

(* A step of a conversation begins. *)
Begin(settings, c) ==
  pc' = "ask" /\ conv' = c /\ queue' = InOrder(settings, c) /\ tries' = 0 /\ UNCHANGED out

(* assistant_chat *)
Ask ==
  /\ pc = "idle"
  /\ config' = row
  /\ IF row.provider \notin Keys THEN Fail("not configured")
     ELSE Begin(row, Chat(row.provider))
  /\ UNCHANGED <<row, saves>>

(* Fault: the other provider is asked after every failure that may pass. *)
Unavailable_Always(retryable) ==
  LET other == Other(conv.provider) IN
  IF retryable /\ config.fallback /\ other \in Keys
  THEN Begin(config, Restart(conv, other)) ELSE Fail("unavailable")

(* answer: the other provider starts again, if the error may pass and it *)
(* has a key.                                                            *)
Unavailable(retryable) ==
  LET other == Other(config.provider) IN
  IF retryable /\ config.fallback /\ conv.provider = config.provider /\ other \in Keys
  THEN Begin(config, Restart(conv, other))
  ELSE Fail("unavailable")

(* Fault: the model that the settings name is shown. *)
Named_Configured(c) == Models(config, c.provider)[1]

Named(c) == c.current

(* The end of chat: references to what is not on the map become text, the  *)
(* others are lit too.                                                     *)
Answer(c, cited) ==
  LET known == cited \intersect Known
      lit   == c.lit \o SetToSeq(known \ ToSet(c.lit))
  IN  /\ pc' = "done" /\ conv' = c
      /\ out' = [error |-> None, refs |-> known, labels |-> ToSet(lit) \union known,
                 highlight |-> SubSeq(lit, 1, Min({Len(lit), MaxLit})),
                 provider |-> c.provider, model |-> Named(c), fallback |-> c.provider # config.provider]
      /\ UNCHANGED <<queue, tries>>

(* A model answers with a text. *)
Says ==
  /\ pc = "ask"
  /\ \E cited \in Cited : Answer([conv EXCEPT !.current = Head(queue)], cited)
  /\ UNCHANGED <<row, config, saves>>

(* It calls tools. *)
Calls ==
  /\ pc = "ask"
  /\ \E turn \in Turns :
       conv' = [conv EXCEPT !.current = Head(queue), !.calls = turn,
                            !.history = Append(@, [role |-> "model", by |-> Head(queue), calls |-> turn])]
  /\ pc' = "tools"
  /\ UNCHANGED <<row, config, queue, tries, out, saves>>

Attempts(provider) == IF provider = "gemini" THEN Delays + 1 ELSE 2

(* The next model of Gemini. *)
NextModel ==
  IF Len(queue) > 1 THEN queue' = Tail(queue) /\ tries' = 0 /\ UNCHANGED <<pc, conv, out>>
  ELSE Unavailable(TRUE)

(* An overload, or no answer at all: once more, after a wait. *)
Overloaded ==
  /\ pc = "ask"
  /\ IF tries + 1 < Attempts(conv.provider)
     THEN tries' = tries + 1 /\ UNCHANGED <<pc, conv, queue, out>>
     ELSE NextModel
  /\ UNCHANGED <<row, config, saves>>

(* 429: a quota is over, no wait helps. *)
Limited ==
  /\ pc = "ask"
  /\ NextModel
  /\ UNCHANGED <<row, config, saves>>

(* Another error, or an answer of Groq that is not valid. *)
Refuses ==
  /\ pc = "ask"
  /\ Unavailable(FALSE)
  /\ UNCHANGED <<row, config, saves>>

(* t_evidenzia: ids that are not on the map are ignored, and an id is lit  *)
(* once.  More than 25 are as their first 25.                              *)
Lit(lit, call) ==
  LET ids == call.ids
      new == {k \in DOMAIN ids : ids[k] \in Known \ ToSet(lit) /\ \A j \in 1..(k - 1) : ids[j] # ids[k]}
  IN  IF call.tool # "evidenzia" THEN lit ELSE lit \o Picked(ids, new)

(* Tools.run: unknown tools, arguments and nodes are results too, but for  *)
(* a number that is not one, whose error ends the question.                *)
RunTool ==
  /\ pc = "tools" /\ conv.calls # <<>>
  /\ LET call == Head(conv.calls) IN
     IF call.tool = "NaN" THEN Fail("internal")
     ELSE /\ conv' = [conv EXCEPT !.calls = Tail(@), !.lit = Lit(@, call),
                                  !.history = Append(@, [role |-> "tool", id |-> call.id])]
          /\ UNCHANGED <<pc, queue, tries, out>>
  /\ UNCHANGED <<row, config, saves>>

(* All results are there: another step, or an apology. *)
NextStep ==
  /\ pc = "tools" /\ conv.calls = <<>>
  /\ LET c == [conv EXCEPT !.steps = @ + 1] IN
     IF c.steps = MaxSteps THEN Answer(c, {}) ELSE Begin(config, c)
  /\ UNCHANGED <<row, config, saves>>

Deliver ==
  /\ pc = "done"
  /\ pc' = "idle" /\ config' = NoConfig /\ conv' = Chat(None)
  /\ queue' = <<>> /\ tries' = 0 /\ out' = NoAnswer
  /\ UNCHANGED <<row, saves>>

Step == Ask \/ Says \/ Calls \/ Overloaded \/ Limited \/ Refuses \/ RunTool \/ NextStep \/ Deliver
Next == Step \/ \E c \in Configs : Save(c)

(* A provider answers, fails or times out: the clients have a timeout.     *)
Spec == Init /\ [][Next]_vars /\ WF_vars(Step)

-----------------------------------------------------------------------------
(* Properties *)

ModelTurns(h) == {i \in DOMAIN h : h[i].role = "model"}

(* What is sent to a model is one whole conversation with its provider:    *)
(* every call of every turn has its result, in the order of the calls and  *)
(* before the next turn, nothing of another provider is among them ("non   *)
(* si trasferiscono chiamate interne o firme Gemini", README), and the     *)
(* step starts at the model that wrote the last turn ("the following steps *)
(* of the same conversation start from it", _generate), however many       *)
(* failures and retries came before.                                       *)
ConversationWhole ==
  pc = "ask" =>
    LET h == conv.history
        After(i) == Cardinality({j \in DOMAIN h : j > i /\ \A k \in (i + 1)..j : h[k].role = "tool"})
    IN  /\ Cardinality(ModelTurns(h)) = conv.steps /\ conv.steps < MaxSteps
        /\ h # <<>> => h[1].role = "model"
        /\ \A i \in ModelTurns(h) : /\ h[i].by \in ToSet(Models(config, conv.provider))
                                    /\ After(i) = Len(h[i].calls)
                                    /\ \A k \in 1..Len(h[i].calls) : h[i + k].id = h[i].calls[k].id
        /\ h # <<>> /\ Len(queue) = Len(Models(config, conv.provider))
             => \A i \in ModelTurns(h) : (\A j \in ModelTurns(h) : j <= i) => h[i].by = Head(queue)

(* "Il modello che ha risposto per primo resta quello dei passi successivi *)
(* della singola richiesta" (README): all turns of a conversation are of   *)
(* one model.  They are not: that model may be overloaded at a later step, *)
(* and the next one goes on with its turns.                                *)
OneModel == \A i, j \in ModelTurns(conv.history) : conv.history[i].by = conv.history[j].by

(* An answer is about the map and of one conversation: what it lights was  *)
(* cited or lit by the provider that wrote it, not by the one that gave    *)
(* up, is on the map and has a label, and the answer names the model that  *)
(* wrote it, one of the settings the question started with.                *)
AnswerHonest ==
  out.error = None =>
    LET h == conv.history
        asked == UNION {ToSet(c.ids) : c \in UNION {ToSet(h[i].calls) : i \in ModelTurns(h)}}
    IN  /\ ToSet(out.highlight) \subseteq (asked \union out.refs) \intersect Known
        /\ out.refs \union ToSet(out.highlight) \subseteq out.labels
        /\ IsInjective(out.highlight) /\ Len(out.highlight) <= MaxLit
        /\ out.model \in ToSet(Models(config, out.provider))
        /\ conv.steps < MaxSteps => out.model = Head(queue)
        /\ out.fallback => config.fallback
        /\ out.provider = config.provider <=> ~out.fallback

(* Both: what a model reads and what a person reads can be relied upon.    *)
AssistantHonest == ConversationWhole /\ AnswerHonest

(* Every question ends, with an answer or an error, whatever the providers *)
(* do: models, attempts, steps and providers are all bounded.              *)
QuestionsEnd == pc # "idle" ~> pc = "idle"
=============================================================================
