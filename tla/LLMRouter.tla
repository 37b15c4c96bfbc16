----------------------------- MODULE LLMRouter ------------------------------
(***************************************************************************)
(* How a prompt gets its answer: LLMRouter of chaosmesh_arena/llm/, the    *)
(* Redis cache it reads and fills (LLMCache), and the two models behind it *)
(* (OllamaClient, OpenRouterClient with its daily budget).                 *)
(*                                                                         *)
(* The callers are coroutines of one event loop; each await of the router  *)
(* is an action.  A prompt stands for its cache key, which is made of all  *)
(* that is sent.  A text is the prompt it answers and what it says.  Time  *)
(* is counted only where a limit on it is: a model answers or fails at     *)
(* once, or its time runs out.                                             *)
(***************************************************************************)
EXTENDS Naturals, Sequences, SequencesExt, FiniteSets

CONSTANTS
    Callers,
    Prompts,             \* what can be asked, by its cache key
    ChatPrompts,         \* those that are asked with chat()
    Answers,             \* what a model can say
    Empty,               \* the answer that says nothing, and what the stub says
    DailyLimit,          \* openrouter_daily_budget
    SdkRetries,          \* max_retries of AsyncOpenAI, left at its default
    RecentLimit,         \* llm_cache_recent_limit
    OllamaTimeout, OpenRouterTimeout,
    MaxDays              \* bound on the days that pass

ASSUME RouterAssumption ==
    /\ ChatPrompts \subseteq Prompts /\ Empty \in Answers
    /\ {DailyLimit, SdkRetries, OllamaTimeout, OpenRouterTimeout} \subseteq Nat
    /\ RecentLimit \in Nat \ {0} /\ MaxDays \in Nat \ {0}

VARIABLES
    call,            \* the request each caller is waiting for
    store,           \* Redis: prompt -> the text cached for it, if any
    recent,          \* Redis: the list of recently cached prompts, newest first
    budget,          \* OpenRouterBudget: _count and _reset_date
    today,
    sent             \* history: day -> the units of its budget that were consumed, and
                     \* the requests sent for them: <<unit, attempt>>

routerVars == <<call, store, recent, budget, today, sent>>

Days == 1 .. MaxDays
Text == [of : Prompts, says : Answers]
Sources == {"cache", "ollama", "openrouter", "cache_fallback", "stub"}
Request == [day : Days, unit : Nat, attempt : Nat]
Call ==
    [pc : {"get", "ollama", "openrouter", "waiting", "set", "list", "recent", "done"},
     prompt : Prompts, allow_cache : BOOLEAN, text : Text,
     source : Sources, walk : Seq(Prompts), spent : Nat,
     request : Request]     \* the one OpenRouter has not answered yet, if there is one
Idle == [pc |-> "idle"]
NoRequest == [day |-> 1, unit |-> 0, attempt |-> 0]

RouterInit ==
    /\ call = [c \in Callers |-> Idle]
    /\ store = [p \in Prompts |-> {}]
    /\ recent = <<>>
    /\ budget = [count |-> 0, date |-> 1]
    /\ today = 1
    /\ sent = [d \in Days |-> [units |-> 0, requests |-> {}]]

-----------------------------------------------------------------------------
(* generate and chat                                                         *)

\* A request on its way: it starts with the cache, if it may.
Asked(p, allow_cache) ==
    [pc |-> IF allow_cache THEN "get" ELSE "ollama", prompt |-> p,
     allow_cache |-> allow_cache, text |-> [of |-> p, says |-> Empty],
     source |-> "stub", walk |-> <<>>, spent |-> 0,
     request |-> NoRequest]

At(c, pc) == call[c].pc = pc
Goto(c, pc) == call' = [call EXCEPT ![c].pc = pc]
Answered(c, text, source) ==
    call' = [call EXCEPT ![c].pc = "done", ![c].text = text, ![c].source = source]

\* Goes on to pc after a model has failed, or has used up its time.
FailsOrTimesOut(c, limit, pc) ==
    \E t \in {0, limit} :
        call' = [call EXCEPT ![c].pc = pc, ![c].spent = @ + t, ![c].request = NoRequest]

\* An answer of a model is cached before it is returned.
FromModel(c, source) ==
    \E a \in Answers :
        call' = [call EXCEPT
            ![c].pc = IF call[c].allow_cache THEN "set" ELSE "done",
            ![c].text = [of |-> call[c].prompt, says |-> a], ![c].source = source,
            ![c].request = NoRequest]

\* cache.get; an error of Redis is a miss.
Get(c) ==
    /\ At(c, "get")
    /\ \/ \E text \in store[call[c].prompt] : Answered(c, text, "cache")
       \/ Goto(c, "ollama")
    /\ UNCHANGED <<store, recent, budget, today, sent>>

Ollama(c) ==
    /\ At(c, "ollama")
    /\ FromModel(c, "ollama") \/ FailsOrTimesOut(c, OllamaTimeout, "openrouter")
    /\ UNCHANGED <<store, recent, budget, today, sent>>

\* chat has no third way.
AfterOpenRouter(c) == IF call[c].prompt \in ChatPrompts THEN "done" ELSE "list"

\* The count as _maybe_reset leaves it.
CountToday == IF budget.date = today THEN budget.count ELSE 0

\* The first request for a unit of today's budget goes out.
SendFirst(c) ==
    LET unit == sent[today].units + 1
    IN  /\ sent' = [sent EXCEPT ![today] =
                        [units |-> unit, requests |-> @.requests \union {<<unit, 0>>}]]
        /\ call' = [call EXCEPT ![c].pc = "waiting",
                       ![c].request = [day |-> today, unit |-> unit, attempt |-> 0]]

\* Seeded fault: the day the count is for is not kept up to date.
Consume_OldDate(c) ==
    /\ At(c, "openrouter")
    /\ IF CountToday < DailyLimit
       THEN budget' = [budget EXCEPT !.count = CountToday + 1] /\ SendFirst(c)
       ELSE Goto(c, AfterOpenRouter(c)) /\ UNCHANGED <<budget, sent>>
    /\ UNCHANGED <<store, recent, today>>

\* A unit is counted and the request sent without an await in between.  Nothing is sent
\* without a key or when the day's budget is used up.
Consume(c) ==
    /\ At(c, "openrouter")
    /\ \/ /\ CountToday < DailyLimit
          /\ budget' = [count |-> CountToday + 1, date |-> today]
          /\ SendFirst(c)
       \/ /\ CountToday >= DailyLimit
          /\ budget' = [count |-> CountToday, date |-> today]
          /\ Goto(c, AfterOpenRouter(c)) /\ UNCHANGED sent
       \/ Goto(c, AfterOpenRouter(c)) /\ UNCHANGED <<budget, sent>>
    /\ UNCHANGED <<store, recent, today>>

\* The SDK sends a request again that met no connection or a 408, 409, 429 or 5xx,
\* within the same call and without another unit, also after midnight.
SdkResends(c) ==
    LET r == call[c].request
    IN  /\ At(c, "waiting") /\ r.attempt < SdkRetries
        /\ call' = [call EXCEPT ![c].request = [r EXCEPT !.attempt = @ + 1]]
        /\ sent' = [sent EXCEPT ![r.day].requests = @ \union {<<r.unit, r.attempt + 1>>}]
        /\ UNCHANGED <<store, recent, budget, today>>

OpenRouter(c) ==
    /\ At(c, "waiting")
    /\ \/ FromModel(c, "openrouter")
       \/ FailsOrTimesOut(c, OpenRouterTimeout, AfterOpenRouter(c))
    /\ UNCHANGED <<store, recent, budget, today, sent>>

\* The list of recent keys without p, which is in it once at most.
Without(keys, p) ==
    IF Contains(keys, p) THEN RemoveAt(keys, CHOOSE i \in DOMAIN keys : keys[i] = p)
                         ELSE keys

\* Seeded fault: the recent list is not cut.
Stored_NotCut(p, text) ==
    /\ store' = [store EXCEPT ![p] = IF text.says = Empty THEN {} ELSE {text}]
    /\ recent' = <<p>> \o Without(recent, p)

\* The pipeline of cache.set: the key moves to the front of the recent list, which is
\* then cut.  An empty text counts as none when it is read.
Stored(p, text) ==
    /\ store' = [store EXCEPT ![p] = IF text.says = Empty THEN {} ELSE {text}]
    /\ recent' = LET keys == <<p>> \o Without(recent, p)
                 IN  SubSeq(keys, 1, IF Len(keys) < RecentLimit THEN Len(keys)
                                                                ELSE RecentLimit)

\* An error of Redis is ignored, whether the text was stored or not.
Set(c) ==
    /\ At(c, "set")
    /\ Goto(c, "done")
    /\ Stored(call[c].prompt, call[c].text) \/ UNCHANGED <<store, recent>>
    /\ UNCHANGED <<budget, today, sent>>

\* Seeded fault: what was found for another prompt is cached for this one.
ReadRecent_Caches(c) ==
    /\ At(c, "recent")
    /\ LET keys == call[c].walk
       IN  \/ keys = <<>> /\ Goto(c, "done") /\ UNCHANGED store
           \/ /\ keys # <<>>
              /\ \E text \in store[Head(keys)] : Answered(c, text, "cache_fallback")
              /\ store' = [store EXCEPT ![call[c].prompt] = store[Head(keys)]]
           \/ /\ keys # <<>> /\ store[Head(keys)] = {}
              /\ call' = [call EXCEPT ![c].walk = Tail(keys)]
              /\ UNCHANGED store
    /\ UNCHANGED <<recent, budget, today, sent>>

\* get_any_recent: the list of recent keys is read, then the keys one by one until one
\* has a text.  There may be none, or an error: the stub is what is left.
ListRecent(c) ==
    /\ At(c, "list")
    /\ \/ call' = [call EXCEPT ![c].pc = "recent", ![c].walk = recent]
       \/ Goto(c, "done")
    /\ UNCHANGED <<store, recent, budget, today, sent>>

ReadRecent(c) ==
    /\ At(c, "recent")
    /\ LET keys == call[c].walk
       IN  \/ Goto(c, "done")
           \/ /\ keys # <<>>
              /\ \E text \in store[Head(keys)] : Answered(c, text, "cache_fallback")
           \/ /\ keys # <<>> /\ store[Head(keys)] = {}
              /\ call' = [call EXCEPT ![c].walk = Tail(keys)]
    /\ UNCHANGED <<store, recent, budget, today, sent>>

RouterStep(c) ==
    Get(c) \/ Ollama(c) \/ Consume(c) \/ SdkResends(c) \/ OpenRouter(c) \/ Set(c)
        \/ ListRecent(c) \/ ReadRecent(c)

\* The steps that take no longer than a limit allows.
ModelStep(c) == Ollama(c) \/ Consume(c) \/ SdkResends(c) \/ OpenRouter(c)

-----------------------------------------------------------------------------
(* The cache and the calendar                                                *)

\* A key's time to live runs out; it stays in the recent list.
Expire(p) ==
    /\ store[p] # {}
    /\ store' = [store EXCEPT ![p] = {}]
    /\ UNCHANGED <<call, recent, budget, today, sent>>

\* flush(), which no code calls while a request is on its way: what the recent list
\* names is deleted, and the list.
Flush ==
    /\ recent # <<>> /\ \A c \in Callers : call[c] = Idle
    /\ store' = [p \in Prompts |-> IF Contains(recent, p) THEN {} ELSE store[p]]
    /\ recent' = <<>>
    /\ UNCHANGED <<call, budget, today, sent>>

NewDay ==
    /\ today < MaxDays
    /\ today' = today + 1
    /\ UNCHANGED <<call, store, recent, budget, sent>>

-----------------------------------------------------------------------------
RouterTypeOK ==
    /\ call \in [Callers -> Call \union {Idle}]
    /\ store \in [Prompts -> SUBSET Text]
    /\ recent \in Seq(Prompts) /\ Len(recent) <= RecentLimit /\ IsInjective(recent)
    /\ budget \in [count : 0 .. DailyLimit, date : Days]
    /\ today \in Days
    /\ sent \in [Days -> [units : Nat, requests : SUBSET (Nat \X Nat)]]

\* No more calls are let through on a day than the budget has units, however many callers
\* ask at once and time out, and whenever the day changes.  A unit is not a request: the
\* SDK may send each one SdkRetries times more, some of them after midnight, and so many
\* requests in all may go out on a day's budget, but not more.
BudgetHeld ==
    \A d \in Days :
        /\ sent[d].units <= DailyLimit
        /\ Cardinality(sent[d].requests) <= DailyLimit * (SdkRetries + 1)

\* What is cached for a prompt was said to that very prompt, and so was what a caller
\* is answered: only a text marked as degraded may be the answer to another.
AnswersItsPrompt ==
    /\ \A p \in Prompts : \A text \in store[p] : text.of = p
    /\ \A c \in Callers :
          call[c] # Idle /\ call[c].source # "cache_fallback"
              => call[c].text.of = call[c].prompt
=============================================================================
