----------------------------- MODULE ModelLoading -----------------------------
(* core_engine/translation/backends/opus_mt.py: the model and its tokenizer are *)
(* loaded on first use, in a worker thread and without a lock, while other      *)
(* requests look whether they are there.                                        *)
EXTENDS Naturals, Sequences, FiniteSets

CONSTANTS Texts,    \* requests: one call of translate or translate_batch each
          Chats,    \* calls of chat_completion on the model of the gateway
          MaxClose  \* bound: calls of close

VARIABLES translator,  \* _translator: the number of the load it is from, 0 for None
          tokenizer,   \* _tokenizer, likewise
          loads,       \* observation: models that threads have built
          text         \* request -> [pc, load], load: the load it ran itself, or 0

modelVars == <<translator, tokenizer, loads, text>>

ModelInit ==
  /\ translator = 0 /\ tokenizer = 0 /\ loads = 0
  /\ text = [t \in Texts |-> [pc |-> "new", load |-> 0]]

Goes(t, pc, load) == text' = [text EXCEPT ![t] = [pc |-> pc, load |-> load]]

(* Only the translator is looked at, which is there before the tokenizer.       *)
EnsureLoaded(t) ==
  /\ text[t].pc = "new"
  /\ Goes(t, IF translator # 0 THEN "ready" ELSE "thread", 0)
  /\ UNCHANGED <<translator, tokenizer, loads>>

(* Up to self._translator = ...; the packages or the directory may be missing.  *)
BuildTranslator(t) ==
  /\ text[t].pc = "thread"
  /\ \/ /\ loads' = loads + 1
        /\ translator' = loads + 1
        /\ Goes(t, "half", loads + 1)
     \/ /\ Goes(t, "raised", 0)
        /\ UNCHANGED <<translator, loads>>
  /\ UNCHANGED tokenizer

LoadTokenizer_Variant(t) ==
  \* A bug: from_pretrained fails and the load goes on as if it had not.
  /\ text[t].pc = "half"
  /\ \/ tokenizer' = text[t].load /\ Goes(t, "ready", text[t].load)
     \/ UNCHANGED tokenizer /\ Goes(t, "ready", text[t].load)
  /\ UNCHANGED <<translator, loads>>

(* self._tokenizer = ..., back on the event loop; where it raises, the          *)
(* translator stays, and nobody will load a tokenizer again.                    *)
LoadTokenizer(t) ==
  /\ text[t].pc = "half"
  /\ \/ tokenizer' = text[t].load /\ Goes(t, "ready", text[t].load)
     \/ UNCHANGED tokenizer /\ Goes(t, "raised", text[t].load)
  /\ UNCHANGED <<translator, loads>>

(* _translate_sync in another thread: AttributeError without a tokenizer.       *)
Translate(t) ==
  /\ text[t].pc = "ready"
  /\ Goes(t, IF tokenizer = 0 THEN "no tokenizer" ELSE "done", text[t].load)
  /\ UNCHANGED <<translator, tokenizer, loads>>

ModelNext ==
  \E t \in Texts :
    EnsureLoaded(t) \/ BuildTranslator(t) \/ LoadTokenizer(t) \/ Translate(t)

ModelSpec == ModelInit /\ [][ModelNext]_modelVars

---------------------------------------------------------------------------
(* A request that has loaded the model itself never meets a missing tokenizer,  *)
(* whoever loads at the same time; a request meets one only because some other  *)
(* load is, or has stopped, between the two assignments; and no request loads   *)
(* more than one model.                                                         *)
OwnLoadIsWhole ==
  /\ \A t \in Texts : text[t].load # 0 => text[t].pc # "no tokenizer"
  /\ translator # 0 /\ tokenizer = 0 =>
       \E t \in Texts : text[t].load # 0 /\ text[t].pc \in {"half", "raised"}
  /\ tokenizer # 0 => translator # 0
  /\ loads = Cardinality({t \in Texts : text[t].load # 0})

------------------------------------------------------------------------------
(* core_engine/inference: the language model of the gateway, one of four        *)
(* backends, is loaded by a task of the startup and by every call that finds it *)
(* not loaded, in threads that may run side by side; it may be closed.          *)

VARIABLES impl,        \* QWEN_BACKEND
          registered,  \* the registry has the backend: QWEN_ENABLED
          parts,       \* the attributes that are not None
          loaded,      \* _model_loaded
          session,     \* the HTTP session of the Ollama backend
          chat,        \* task -> [pc, put, cut]; put: parts its thread has put
          closes,      \* calls of close so far
          torn         \* observation: a close came between two parts of a load

backendVars == <<impl, registered, parts, loaded, session, chat, closes, torn>>

Tasks == Chats \cup {"startup"}

(* What _load_model_sync assigns, in its order, before the flag.                *)
LlamaParts == <<"llm">>
TransformersParts == <<"tokenizer", "model", "pipeline">>
CTranslateParts == <<"translator", "tokenizer">>
PartsOf == [llama_cpp |-> LlamaParts, transformers |-> TransformersParts,
            ctranslate2 |-> CTranslateParts, ollama |-> <<>>]

(* What generate reads in its thread, and what chat_completion reads after it   *)
(* to count tokens.                                                             *)
LlamaGenerates == {"llm"}
TransformersGenerates == {"pipeline"}
CTranslateGenerates == {"translator", "tokenizer"}
Generates == [llama_cpp |-> LlamaGenerates, transformers |-> TransformersGenerates,
              ctranslate2 |-> CTranslateGenerates]
LlamaCounts == {}
TransformersCounts == {"tokenizer"}
CTranslateCounts == {"tokenizer"}
Counts == [llama_cpp |-> LlamaCounts, transformers |-> TransformersCounts,
           ctranslate2 |-> CTranslateCounts, ollama |-> {}]

BackendInit ==
  /\ impl \in DOMAIN PartsOf /\ registered \in BOOLEAN
  /\ parts = {} /\ loaded = FALSE /\ session = FALSE
  /\ chat = [c \in Tasks |-> [pc |-> IF c = "startup" /\ ~registered THEN "done" ELSE "new",
                              put |-> 0, cut |-> FALSE]]
  /\ closes = 0 /\ torn = FALSE

Comes(c, pc) == chat' = [chat EXCEPT ![c].pc = pc]
(* The startup task only loads.                                                 *)
ThenGenerates(c) == IF c = "startup" THEN "done" ELSE "ready"

NotAvailable(c) ==    \* get_backend answers None, and the route 400
  /\ chat[c].pc = "new" /\ ~registered
  /\ Comes(c, "refused")
  /\ UNCHANGED <<impl, registered, parts, loaded, session, closes, torn>>

EnsureModel(c) ==
  /\ chat[c].pc = "new" /\ registered /\ impl # "ollama"
  /\ Comes(c, IF loaded THEN ThenGenerates(c) ELSE "thread")
  /\ UNCHANGED <<impl, registered, parts, loaded, session, closes, torn>>

PutPart(c) ==
  /\ chat[c].pc = "thread" /\ chat[c].put < Len(PartsOf[impl])
  /\ chat' = [chat EXCEPT ![c].put = @ + 1]
  /\ parts' = parts \cup {PartsOf[impl][chat[c].put + 1]}
  /\ UNCHANGED <<impl, registered, loaded, session, closes, torn>>

(* Packages, files or memory may be missing; the parts put so far stay, and the *)
(* next call loads again.                                                       *)
LoadFails(c) ==
  /\ chat[c].pc = "thread"
  /\ Comes(c, "raised")
  /\ UNCHANGED <<impl, registered, parts, loaded, session, closes, torn>>

LoadEnds(c) ==
  /\ chat[c].pc = "thread" /\ chat[c].put = Len(PartsOf[impl])
  /\ loaded' = TRUE
  /\ Comes(c, ThenGenerates(c))
  /\ UNCHANGED <<impl, registered, parts, session, closes, torn>>

(* The Ollama backend asks for the list of models on every call.                *)
AskTags(c) ==
  /\ chat[c].pc = "new" /\ registered /\ impl = "ollama"
  /\ session' = TRUE
  /\ Comes(c, "tags")
  /\ UNCHANGED <<impl, registered, parts, loaded, closes, torn>>

PostChat(c) ==
  /\ chat[c].pc = "tags"
  /\ Comes(c, CASE c = "startup" -> "done"
                [] c # "startup" /\ session -> "answered"
                [] OTHER -> "missing")
  /\ UNCHANGED <<impl, registered, parts, loaded, session, closes, torn>>

Generate(c) ==
  /\ chat[c].pc = "ready"
  /\ Comes(c, IF Generates[impl] \subseteq parts THEN "answered" ELSE "missing")
  /\ UNCHANGED <<impl, registered, parts, loaded, session, closes, torn>>

CountTokens(c) ==
  /\ chat[c].pc = "answered"
  /\ Comes(c, IF Counts[impl] \subseteq parts THEN "done" ELSE "missing")
  /\ UNCHANGED <<impl, registered, parts, loaded, session, closes, torn>>

CallFails(c) ==    \* a library or the network
  /\ chat[c].pc \in {"tags", "ready", "answered"}
  /\ Comes(c, "raised")
  /\ UNCHANGED <<impl, registered, parts, loaded, session, closes, torn>>

CloseBackend ==
  /\ closes < MaxClose /\ registered
  /\ closes' = closes + 1
  /\ parts' = {} /\ loaded' = FALSE /\ session' = FALSE
  /\ torn' = (torn \/ \E c \in Tasks : chat[c].pc = "thread" /\ chat[c].put > 0)
  /\ chat' = [c \in Tasks |->
               [chat[c] EXCEPT !.cut = @ \/ chat[c].pc \in {"tags", "ready", "answered"}]]
  /\ UNCHANGED <<impl, registered>>

BackendNext ==
  \/ \E c \in Tasks :
       \/ NotAvailable(c) \/ EnsureModel(c) \/ AskTags(c)
       \/ PutPart(c) \/ LoadFails(c) \/ LoadEnds(c)
       \/ PostChat(c) \/ Generate(c) \/ CountTokens(c) \/ CallFails(c)
  \/ CloseBackend

BackendSpec == BackendInit /\ [][BackendNext]_backendVars

------------------------------------------------------------------------------
(* Loads may run side by side, fail half-way and be repeated: a backend that    *)
(* says it is loaded is whole, and no call meets a part that is missing, unless *)
(* the backend was closed under that call, or under a load that went on.        *)
LoadedIsWhole ==
  /\ loaded /\ ~torn => \A i \in DOMAIN PartsOf[impl] : PartsOf[impl][i] \in parts
  /\ \A c \in Tasks : chat[c].pc = "missing" => chat[c].cut \/ torn
==============================================================================
