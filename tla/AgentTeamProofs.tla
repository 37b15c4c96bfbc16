--------------------------- MODULE AgentTeamProofs ---------------------------
(***************************************************************************)
(* Proofs about AgentTeam and the LLMRouter in it, for any team, any       *)
(* prompts and answers, any budget and any number of days.                 *)
(***************************************************************************)
EXTENDS AgentTeam, FiniteSetTheorems, SequenceTheorems, TLAPS

-----------------------------------------------------------------------------
(* The budget of OpenRouter                                                  *)

OnDay == [units : Nat, requests : SUBSET (Nat \X Nat)]

\* The count is that of the day budget.date, and on no day after it a unit was taken.
BudgetInv ==
    /\ budget.date \in Days /\ budget.count \in Nat
    /\ today \in Days /\ budget.date <= today
    /\ budget.count <= DailyLimit
    /\ sent \in [Days -> OnDay]
    /\ sent[budget.date].units <= budget.count
    /\ \A d \in Days : d > budget.date => sent[d].units = 0
    /\ \A d \in Days : sent[d].units <= DailyLimit

BudgetStays == UNCHANGED <<budget, today, sent>>

LEMMA LimitIsNat == DailyLimit \in Nat
BY RouterAssumption

LEMMA InitBudget == RouterInit => BudgetInv
BY RouterAssumption DEF RouterInit, BudgetInv, Days, OnDay

LEMMA BudgetKept == ASSUME BudgetInv, BudgetStays PROVE BudgetInv'
BY DEF BudgetInv, BudgetStays

\* The count of today, whether or not the day has changed since the last request.
LEMMA CountIsToday ==
    ASSUME BudgetInv
    PROVE  /\ CountToday \in Nat /\ CountToday <= DailyLimit
           /\ sent[today].units <= CountToday
BY LimitIsNat DEF BudgetInv, CountToday, Days, OnDay

\* A call that is let through takes the next unit of today.
LEMMA SendsFirst ==
    ASSUME BudgetInv, NEW c, SendFirst(c)
    PROVE  /\ sent' \in [Days -> OnDay]
           /\ sent'[today].units = sent[today].units + 1
           /\ sent'[today].requests =
                 sent[today].requests \union {<<sent[today].units + 1, 0>>}
           /\ \A d \in Days \ {today} : sent'[d] = sent[d]
<1> DEFINE u == sent[today].units + 1
           q == sent[today].requests \union {<<u, 0>>}
           new == [units |-> u, requests |-> q]
<1>1. sent \in [Days -> OnDay] /\ today \in Days
  BY DEF BudgetInv
<1>2. sent' = [sent EXCEPT ![today] = new]
  BY DEF SendFirst
<1>3. u \in Nat /\ sent[today].requests \subseteq Nat \X Nat
  BY <1>1 DEF OnDay
<1> HIDE DEF u
<1>4. q \subseteq Nat \X Nat
  BY <1>3
<1> HIDE DEF q
<1>5. new \in OnDay /\ new.units = u /\ new.requests = q
  BY <1>3, <1>4 DEF OnDay
<1> HIDE DEF new
<1>6. /\ sent' \in [Days -> OnDay] /\ sent'[today] = new
      /\ \A d \in Days \ {today} : sent'[d] = sent[d]
  BY <1>1, <1>2, <1>5
<1> QED
  BY <1>5, <1>6 DEF u, q

LEMMA ConsumeBudget == ASSUME BudgetInv, NEW c, Consume(c) PROVE BudgetInv'
<1>1. CASE UNCHANGED <<budget, sent>>
  BY <1>1, BudgetKept DEF Consume, BudgetStays
<1>2. CASE /\ budget' = [count |-> CountToday, date |-> today]
           /\ UNCHANGED <<sent, today>>
  <2>1. budget'.count = CountToday /\ budget'.date = today
    BY <1>2
  <2>2. \A d \in Days : d > today => sent[d].units = 0
    BY DEF BudgetInv, Days
  <2>3. sent' = sent /\ today' = today
    BY <1>2
  <2>4. /\ sent \in [Days -> OnDay] /\ today \in Days /\ today <= today
        /\ \A d \in Days : sent[d].units <= DailyLimit
    BY DEF BudgetInv, Days
  <2>5. QED
    BY <2>1, <2>2, <2>3, <2>4, CountIsToday DEF BudgetInv
<1>3. CASE /\ CountToday < DailyLimit /\ UNCHANGED today
           /\ budget' = [count |-> CountToday + 1, date |-> today]
           /\ SendFirst(c)
  <2>1. budget'.count = CountToday + 1 /\ budget'.date = today /\ today' = today
    BY <1>3
  <2>2. sent \in [Days -> OnDay] /\ today \in Days
    BY DEF BudgetInv
  <2>3. /\ sent' \in [Days -> OnDay]
        /\ sent'[today].units = sent[today].units + 1
        /\ \A d \in Days \ {today} : sent'[d] = sent[d]
    BY <1>3, SendsFirst
  <2>4. sent[today].units \in Nat
    BY <2>2 DEF OnDay
  <2>5. sent'[today].units <= CountToday + 1 /\ CountToday + 1 <= DailyLimit
    BY <1>3, <2>3, <2>4, CountIsToday, LimitIsNat
  <2>6. \A d \in Days : d > today => sent'[d].units = 0
    BY <2>3 DEF BudgetInv, Days
  <2>7. \A d \in Days : sent'[d].units <= DailyLimit
    <3> SUFFICES ASSUME NEW d \in Days PROVE sent'[d].units <= DailyLimit
      OBVIOUS
    <3>1. CASE d = today
      BY <2>3, <2>4, <2>5, <3>1, CountIsToday, LimitIsNat
    <3>2. CASE d # today
      BY <2>3, <3>2 DEF BudgetInv
    <3> QED
      BY <3>1, <3>2
  <2>8. CountToday + 1 \in Nat /\ today <= today
    BY <2>2, CountIsToday DEF Days
  <2>9. QED
    BY <2>1, <2>2, <2>3, <2>5, <2>6, <2>7, <2>8 DEF BudgetInv
<1>4. QED
  BY <1>1, <1>2, <1>3 DEF Consume

\* Another request for a unit that was taken.
LEMMA SendsAgain ==
    ASSUME BudgetInv, NEW c, call[c].request \in Request, SdkResends(c)
    PROVE  LET r == call[c].request
           IN  /\ sent' \in [Days -> OnDay]
               /\ \A d \in Days : sent'[d].units = sent[d].units
               /\ sent'[r.day].requests =
                     sent[r.day].requests \union {<<r.unit, r.attempt + 1>>}
               /\ \A d \in Days \ {r.day} : sent'[d] = sent[d]
<1> DEFINE r == call[c].request
           q == sent[r.day].requests \union {<<r.unit, r.attempt + 1>>}
           new == [sent[r.day] EXCEPT !.requests = q]
<1>1. r.day \in Days /\ r.unit \in Nat /\ r.attempt \in Nat
  BY DEF Request
<1>2. sent \in [Days -> OnDay] /\ sent[r.day] \in OnDay
  BY <1>1 DEF BudgetInv
<1>3. sent' = [sent EXCEPT ![r.day] = new]
  BY DEF SdkResends
<1> HIDE DEF r
<1>4. q \subseteq Nat \X Nat
  BY <1>1, <1>2 DEF OnDay
<1> HIDE DEF q
<1>5. new \in OnDay /\ new.units = sent[r.day].units /\ new.requests = q
  BY <1>2, <1>4 DEF OnDay
<1> HIDE DEF new
<1>6. /\ sent' \in [Days -> OnDay] /\ sent'[r.day] = new
      /\ \A d \in Days \ {r.day} : sent'[d] = sent[d]
  BY <1>1, <1>2, <1>3, <1>5
<1>7. \A d \in Days : sent'[d].units = sent[d].units
  BY <1>5, <1>6
<1> QED
  BY <1>5, <1>6, <1>7 DEF q, r

LEMMA ResendBudget ==
    ASSUME BudgetInv, NEW c, call[c].request \in Request, SdkResends(c) PROVE BudgetInv'
<1>1. sent' \in [Days -> OnDay] /\ \A d \in Days : sent'[d].units = sent[d].units
  BY SendsAgain
<1>2. UNCHANGED <<budget, today>>
  BY DEF SdkResends
<1> QED
  BY <1>1, <1>2 DEF BudgetInv

LEMMA NewDayBudget == ASSUME BudgetInv, NewDay PROVE BudgetInv'
<1>1. today \in Nat /\ today' = today + 1 /\ today' \in Days
  BY RouterAssumption DEF NewDay, BudgetInv, Days
<1>2. UNCHANGED <<budget, sent>>
  BY DEF NewDay
<1>3. QED
  BY <1>1, <1>2 DEF BudgetInv, Days

-----------------------------------------------------------------------------
(* Texts and the prompts they answer                                         *)

Fields == {"pc", "prompt", "allow_cache", "text", "source", "walk", "spent", "request"}

\* A request on its way.  Only a degraded text, which ends it, may be of another prompt.
GoodCall(r) ==
    /\ Fields \subseteq DOMAIN r
    /\ r.prompt \in Prompts
    /\ r.source = "cache_fallback" => r.pc = "done"
    /\ r.source # "cache_fallback" => r.text.of = r.prompt

CallsInv ==
    /\ DOMAIN call = Callers
    /\ \A c \in Callers : call[c] = Idle \/ GoodCall(call[c])

StoreInv ==
    /\ DOMAIN store = Prompts
    /\ \A p \in Prompts : \A text \in store[p] : text.of = p

TextInv == CallsInv /\ StoreInv

LEMMA InitTexts == RouterInit => TextInv
BY DEF RouterInit, TextInv, CallsInv, StoreInv

\* A caller in the router has asked.
LEMMA AtIsGood ==
    ASSUME CallsInv, NEW c \in Callers, NEW pc, pc # "idle", At(c, pc)
    PROVE  GoodCall(call[c]) /\ call[c].pc = pc
BY DEF CallsInv, At, Idle

\* The call of one caller changes.
OneCall(c) == DOMAIN call' = Callers /\ \A b \in Callers \ {c} : call'[b] = call[b]

LEMMA OneCallKeeps ==
    ASSUME CallsInv, NEW c \in Callers, OneCall(c), call'[c] = Idle \/ GoodCall(call'[c])
    PROVE  CallsInv'
<1>1. \A b \in Callers : call'[b] = Idle \/ GoodCall(call'[b])
  BY DEF OneCall, CallsInv
<1>2. QED
  BY <1>1 DEF OneCall, CallsInv, GoodCall, Idle, Fields

LEMMA GotoKeeps ==
    ASSUME CallsInv, NEW c \in Callers, GoodCall(call[c]),
           call[c].source # "cache_fallback", NEW pc, Goto(c, pc)
    PROVE  CallsInv'
<1>1. OneCall(c)
  BY DEF Goto, OneCall, CallsInv
<1>2. GoodCall(call'[c])
  BY DEF Goto, CallsInv, GoodCall, Fields
<1>3. QED
  BY <1>1, <1>2, OneCallKeeps

LEMMA AnsweredKeeps ==
    ASSUME CallsInv, NEW c \in Callers, GoodCall(call[c]), NEW text, NEW source,
           source = "cache_fallback" \/ text.of = call[c].prompt,
           Answered(c, text, source)
    PROVE  CallsInv'
<1>1. OneCall(c)
  BY DEF Answered, OneCall, CallsInv
<1>2. GoodCall(call'[c])
  BY DEF Answered, CallsInv, GoodCall, Fields
<1>3. QED
  BY <1>1, <1>2, OneCallKeeps

LEMMA FromModelKeeps ==
    ASSUME CallsInv, NEW c \in Callers, GoodCall(call[c]), NEW source,
           source # "cache_fallback", FromModel(c, source)
    PROVE  CallsInv'
<1>1. PICK a \in Answers, pc \in {"set", "done"} :
        call' = [call EXCEPT ![c].pc = pc,
                             ![c].text = [of |-> call[c].prompt, says |-> a],
                             ![c].source = source, ![c].request = NoRequest]
  BY DEF FromModel
<1>2. OneCall(c)
  BY <1>1 DEF OneCall, CallsInv
<1>3. GoodCall(call'[c])
  BY <1>1 DEF CallsInv, GoodCall, Fields
<1>4. QED
  BY <1>2, <1>3, OneCallKeeps

LEMMA FailsKeeps ==
    ASSUME CallsInv, NEW c \in Callers, GoodCall(call[c]),
           call[c].source # "cache_fallback", NEW limit, NEW pc,
           FailsOrTimesOut(c, limit, pc)
    PROVE  CallsInv'
<1>1. PICK t \in {0, limit} :
         call' = [call EXCEPT ![c].pc = pc, ![c].spent = @ + t, ![c].request = NoRequest]
  BY DEF FailsOrTimesOut
<1>2. OneCall(c)
  BY <1>1 DEF OneCall, CallsInv
<1>3. GoodCall(call'[c])
  BY <1>1 DEF CallsInv, GoodCall, Fields
<1>4. QED
  BY <1>2, <1>3, OneCallKeeps

\* What is cached for a prompt is what a model has said to it.
LEMMA StoredKeeps ==
    ASSUME StoreInv, NEW p \in Prompts, NEW text, text.of = p, Stored(p, text)
    PROVE  StoreInv'
BY DEF Stored, StoreInv

LEMMA StoreStays == ASSUME StoreInv, store' = store PROVE StoreInv'
BY DEF StoreInv

LEMMA RouterTexts ==
    ASSUME TextInv, NEW c \in Callers, RouterStep(c) PROVE TextInv'
<1>1. CallsInv /\ StoreInv
  BY DEF TextInv
<1>2. ASSUME NEW pc \in {"get", "ollama", "openrouter", "waiting", "set", "list", "recent"},
             At(c, pc)
      PROVE  GoodCall(call[c]) /\ call[c].source # "cache_fallback"
  BY <1>1, <1>2, AtIsGood DEF GoodCall
<1>3. CASE Get(c)
  <2>1. GoodCall(call[c]) /\ call[c].source # "cache_fallback"
    BY <1>2, <1>3 DEF Get
  <2>2. \A text \in store[call[c].prompt] : text.of = call[c].prompt
    BY <1>1, <2>1 DEF StoreInv, GoodCall
  <2>3. CallsInv' /\ store' = store
    BY <1>1, <1>3, <2>1, <2>2, AnsweredKeeps, GotoKeeps DEF Get
  <2>4. QED
    BY <1>1, <2>3, StoreStays DEF TextInv
<1>4. CASE Ollama(c)
  <2>1. GoodCall(call[c]) /\ call[c].source # "cache_fallback"
    BY <1>2, <1>4 DEF Ollama
  <2>2. CallsInv' /\ store' = store
    BY <1>1, <1>4, <2>1, FromModelKeeps, FailsKeeps DEF Ollama
  <2>3. QED
    BY <1>1, <2>2, StoreStays DEF TextInv
<1>5. CASE Consume(c)
  <2>1. GoodCall(call[c]) /\ call[c].source # "cache_fallback"
    BY <1>2, <1>5 DEF Consume
  <2>2. ASSUME SendFirst(c) PROVE CallsInv'
    <3> DEFINE new == [day |-> today, unit |-> sent[today].units + 1, attempt |-> 0]
    <3>1. call' = [call EXCEPT ![c].pc = "waiting", ![c].request = new]
      BY <2>2 DEF SendFirst
    <3> HIDE DEF new
    <3>2. OneCall(c)
      BY <1>1, <3>1 DEF OneCall, CallsInv
    <3>3. GoodCall(call'[c])
      BY <1>1, <2>1, <3>1 DEF CallsInv, GoodCall, Fields
    <3> QED
      BY <1>1, <3>2, <3>3, OneCallKeeps
  <2>3. CallsInv' /\ store' = store
    BY <1>1, <1>5, <2>1, <2>2, GotoKeeps DEF Consume
  <2>4. QED
    BY <1>1, <2>3, StoreStays DEF TextInv
<1>10. CASE SdkResends(c)
  <2>1. GoodCall(call[c]) /\ call[c].source # "cache_fallback"
    BY <1>2, <1>10 DEF SdkResends
  <2> DEFINE new == [call[c].request EXCEPT !.attempt = @ + 1]
  <2>2. call' = [call EXCEPT ![c].request = new] /\ store' = store
    BY <1>10 DEF SdkResends
  <2> HIDE DEF new
  <2>3. OneCall(c)
    BY <1>1, <2>2 DEF OneCall, CallsInv
  <2>4. GoodCall(call'[c])
    BY <1>1, <2>1, <2>2 DEF CallsInv, GoodCall, Fields
  <2> QED
    BY <1>1, <2>2, <2>3, <2>4, OneCallKeeps, StoreStays DEF TextInv
<1>6. CASE OpenRouter(c)
  <2>1. GoodCall(call[c]) /\ call[c].source # "cache_fallback"
    BY <1>2, <1>6 DEF OpenRouter
  <2>2. CallsInv' /\ store' = store
    BY <1>1, <1>6, <2>1, FromModelKeeps, FailsKeeps DEF OpenRouter
  <2>3. QED
    BY <1>1, <2>2, StoreStays DEF TextInv
<1>7. CASE Set(c)
  <2>1. GoodCall(call[c]) /\ call[c].source # "cache_fallback"
    BY <1>2, <1>7 DEF Set
  <2>2. call[c].prompt \in Prompts /\ call[c].text.of = call[c].prompt
    BY <2>1 DEF GoodCall
  <2>3. CallsInv'
    BY <1>1, <1>7, <2>1, GotoKeeps DEF Set
  <2>4. StoreInv'
    BY <1>1, <1>7, <2>2, StoredKeeps, StoreStays DEF Set
  <2>5. QED
    BY <2>3, <2>4 DEF TextInv
<1>8. CASE ListRecent(c)
  <2>1. GoodCall(call[c]) /\ call[c].source # "cache_fallback"
    BY <1>2, <1>8 DEF ListRecent
  <2>2. CASE call' = [call EXCEPT ![c].pc = "recent", ![c].walk = recent]
    <3>1. OneCall(c)
      BY <1>1, <2>2 DEF OneCall, CallsInv
    <3>2. GoodCall(call'[c])
      BY <1>1, <2>1, <2>2 DEF CallsInv, GoodCall, Fields
    <3>3. QED
      BY <1>1, <1>8, <3>1, <3>2, OneCallKeeps, StoreStays DEF ListRecent, TextInv
  <2>3. CASE Goto(c, "done")
    BY <1>1, <1>8, <2>1, <2>3, GotoKeeps, StoreStays DEF ListRecent, TextInv
  <2>4. QED
    BY <1>8, <2>2, <2>3 DEF ListRecent
<1>9. CASE ReadRecent(c)
  <2>1. GoodCall(call[c]) /\ call[c].source # "cache_fallback"
    BY <1>2, <1>9 DEF ReadRecent
  <2>2. CASE call' = [call EXCEPT ![c].walk = Tail(call[c].walk)]
    <3>1. OneCall(c)
      BY <1>1, <2>2 DEF OneCall, CallsInv
    <3>2. GoodCall(call'[c])
      BY <1>1, <2>1, <2>2 DEF CallsInv, GoodCall, Fields
    <3>3. QED
      BY <1>1, <1>9, <3>1, <3>2, OneCallKeeps, StoreStays DEF ReadRecent, TextInv
  <2>3. CASE Goto(c, "done")
    BY <1>1, <1>9, <2>1, <2>3, GotoKeeps, StoreStays DEF ReadRecent, TextInv
  <2>4. CASE \E text \in store[Head(call[c].walk)] : Answered(c, text, "cache_fallback")
    BY <1>1, <1>9, <2>1, <2>4, AnsweredKeeps, StoreStays DEF ReadRecent, TextInv
  <2>5. QED
    BY <1>9, <2>2, <2>3, <2>4 DEF ReadRecent
<1>11. QED
  BY <1>3, <1>4, <1>5, <1>6, <1>7, <1>8, <1>9, <1>10 DEF RouterStep

LEMMA AskedIsGood ==
    ASSUME NEW p \in Prompts, NEW allow_cache PROVE GoodCall(Asked(p, allow_cache))
BY DEF GoodCall, Asked, Fields

LEMMA CallsStay == ASSUME CallsInv, call' = call PROVE CallsInv'
BY DEF CallsInv, GoodCall, Idle, Fields

LEMMA BecomesIdle ==
    ASSUME CallsInv, NEW a \in Callers, call' = [call EXCEPT ![a] = Idle] PROVE CallsInv'
<1>1. OneCall(a) /\ call'[a] = Idle
  BY DEF OneCall, CallsInv
<1>2. QED
  BY <1>1, OneCallKeeps

LEMMA ActTexts ==
    ASSUME TextInv, NEW a \in Callers, NEW obs, NEW situation \in Situations,
           Act(a, obs, situation)
    PROVE  TextInv'
<1>1. CallsInv /\ StoreInv'
  BY StoreStays DEF TextInv, Act
<1>2. CASE Reason(a, obs, situation)
  <2>1. <<a, situation>> \in Prompts
    BY TeamAssumption
  <2> DEFINE r == Asked(<<a, situation>>, TRUE)
  <2>2. GoodCall(r)
    BY <2>1, AskedIsGood
  <2>3. call' = [call EXCEPT ![a] = r]
    BY <1>2 DEF Reason
  <2> HIDE DEF r
  <2>4. OneCall(a) /\ call'[a] = r
    BY <1>1, <2>3 DEF OneCall, CallsInv
  <2>5. QED
    BY <1>1, <2>2, <2>4, OneCallKeeps DEF TextInv
<1>3. CASE call' = call
  BY <1>1, <1>3, CallsStay DEF TextInv
<1>4. QED
  BY <1>2, <1>3 DEF Act

\* A set that is cancelled may have been carried out: its text is that of its prompt.
LEMMA TimeOutTexts ==
    ASSUME TextInv, NEW a \in Callers, LLMTimesOut(a) PROVE TextInv'
<1>1. CallsInv /\ StoreInv
  BY DEF TextInv
<1>2. CallsInv'
  BY <1>1, BecomesIdle DEF LLMTimesOut
<1>3. CASE At(a, "set") /\ Stored(call[a].prompt, call[a].text)
  <2>1. GoodCall(call[a]) /\ call[a].pc = "set"
    BY <1>1, <1>3, AtIsGood
  <2>2. call[a].prompt \in Prompts /\ call[a].text.of = call[a].prompt
    BY <2>1 DEF GoodCall
  <2>3. QED
    BY <1>1, <1>2, <1>3, <2>2, StoredKeeps DEF TextInv
<1>4. CASE store' = store
  BY <1>1, <1>2, <1>4, StoreStays DEF TextInv
<1>5. QED
  BY <1>3, <1>4 DEF LLMTimesOut

LEMMA NextTexts == TextInv /\ [Next]_vars => TextInv'
<1> SUFFICES ASSUME TextInv, [Next]_vars PROVE TextInv'
  OBVIOUS
<1>1. CallsInv /\ StoreInv
  BY DEF TextInv
<1>2. ASSUME NEW a \in Callers, Hear(a) PROVE TextInv'
  BY <1>1, <1>2, BecomesIdle, StoreStays DEF Hear, TextInv
<1>3. ASSUME call' = call, store' = store PROVE TextInv'
  BY <1>1, <1>3, CallsStay, StoreStays DEF TextInv
<1>4. ASSUME NEW a \in Callers, NEW mail, ReceiveMessage(a, mail) PROVE TextInv'
  BY <1>3, <1>4 DEF ReceiveMessage, routerVars
<1>5. ASSUME NEW p \in Prompts, Expire(p) PROVE TextInv'
  <2>1. StoreInv'
    BY <1>1, <1>5 DEF Expire, StoreInv
  <2>2. QED
    BY <1>1, <1>5, <2>1, CallsStay DEF Expire, TextInv
<1>6. CASE Flush
  <2>1. StoreInv'
    BY <1>1, <1>6 DEF Flush, StoreInv
  <2>2. QED
    BY <1>1, <1>6, <2>1, CallsStay DEF Flush, TextInv
<1>7. CASE NewDay \/ UNCHANGED vars
  BY <1>3, <1>7 DEF NewDay, vars, routerVars
<1>8. QED
  BY <1>2, <1>4, <1>5, <1>6, <1>7, ActTexts, TimeOutTexts, RouterTexts DEF Next

\* A caller that is not told its answer is degraded has one to its own prompt, whatever
\* others ask and cache, and whatever is cancelled or expires meanwhile.
THEOREM AnswersBelong == Spec => []AnswersItsPrompt
<1>1. Init => TextInv
  BY InitTexts DEF Init
<1>2. TextInv => AnswersItsPrompt
  BY DEF TextInv, CallsInv, StoreInv, GoodCall, AnswersItsPrompt
<1>3. QED
  BY <1>1, <1>2, NextTexts, PTL DEF Spec

-----------------------------------------------------------------------------
(* Messages                                                                  *)

Note == [id : Nat, authorizes : Mails]

MailInv ==
    /\ mailbox \in [Callers -> Seq(Note)]
    /\ shown \in [Callers -> Seq(Note)]
    /\ received \in [Callers -> Seq(Note)]
    /\ ShownOnce

LEMMA MailStays ==
    ASSUME MailInv, UNCHANGED <<mailbox, shown, received>> PROVE MailInv'
BY DEF MailInv, ShownOnce

LEMMA MessageArrives ==
    ASSUME MailInv, NEW a \in Callers, NEW mail \in Mails, ReceiveMessage(a, mail)
    PROVE  MailInv'
<1> DEFINE m == [id |-> Len(received[a]) + 1, authorizes |-> mail]
<1>1. /\ mailbox' = [mailbox EXCEPT ![a] = Append(@, m)]
      /\ received' = [received EXCEPT ![a] = Append(@, m)]
      /\ shown' = shown
  BY DEF ReceiveMessage
<1>2. m \in Note
  BY DEF MailInv, Note
<1> HIDE DEF m
<1>3. /\ mailbox' \in [Callers -> Seq(Note)]
      /\ received' \in [Callers -> Seq(Note)]
  BY <1>1, <1>2 DEF MailInv
<1>4. shown[a] \o Append(mailbox[a], m) = Append(shown[a] \o mailbox[a], m)
  BY <1>2 DEF MailInv
<1>5. ShownOnce'
  BY <1>1, <1>4 DEF MailInv, ShownOnce
<1>6. QED
  BY <1>1, <1>3, <1>5 DEF MailInv

LEMMA ReasonShows ==
    ASSUME MailInv, NEW a \in Callers, NEW obs, NEW situation, Reason(a, obs, situation),
           received' = received
    PROVE  MailInv'
<1>1. CASE ~Flushes(a, obs)
  <2>1. shown' = shown /\ mailbox' = mailbox
    BY <1>1 DEF Reason, MailInv
  <2>2. QED
    BY <2>1, MailStays
<1>2. CASE Flushes(a, obs)
  <2>1. /\ shown' = [shown EXCEPT ![a] = shown[a] \o mailbox[a]]
        /\ mailbox' = [mailbox EXCEPT ![a] = <<>>]
    BY <1>2 DEF Reason
  <2>2. shown[a] \in Seq(Note) /\ mailbox[a] \in Seq(Note)
    BY DEF MailInv
  <2>3. shown[a] \o mailbox[a] \in Seq(Note) /\ <<>> \in Seq(Note)
    BY <2>2
  <2>4. (shown[a] \o mailbox[a]) \o <<>> = shown[a] \o mailbox[a]
    BY <2>3
  <2>5. mailbox' \in [Callers -> Seq(Note)] /\ shown' \in [Callers -> Seq(Note)]
    BY <2>1, <2>3 DEF MailInv
  <2>6. ShownOnce'
    BY <2>1, <2>4 DEF MailInv, ShownOnce
  <2>7. QED
    BY <2>5, <2>6 DEF MailInv
<1>3. QED
  BY <1>1, <1>2

LEMMA NextMail == MailInv /\ [Next]_vars => MailInv'
<1> SUFFICES ASSUME MailInv, [Next]_vars PROVE MailInv'
  OBVIOUS
<1>1. ASSUME NEW a \in Callers, NEW obs, NEW situation, Act(a, obs, situation)
      PROVE  MailInv'
  BY <1>1, ReasonShows, MailStays DEF Act
<1>2. ASSUME NEW a \in Callers, Hear(a) PROVE MailInv'
  BY <1>2, MailStays DEF Hear, Decide, Raises
<1>3. ASSUME NEW a \in Callers, LLMTimesOut(a) PROVE MailInv'
  BY <1>3, MailStays DEF LLMTimesOut, Decide
<1>4. CASE UNCHANGED agentVars \/ UNCHANGED vars
  BY <1>4, MailStays DEF agentVars, vars
<1>5. QED
  BY <1>1, <1>2, <1>3, <1>4, MessageArrives DEF Next

\* No message is lost, shown twice or shown out of order, also when it comes while the
\* agent waits for a model.
THEOREM MessagesAreShownOnce == Spec => []ShownOnce
<1>1. Init => MailInv
  BY DEF Init, MailInv, ShownOnce
<1>2. MailInv => ShownOnce
  BY DEF MailInv
<1>3. QED
  BY <1>1, <1>2, NextMail, PTL DEF Spec

-----------------------------------------------------------------------------
(* Authorizations                                                            *)

\* An authorization that is held has been shown and not been used.
Held(d) == IF d \in authorized THEN 1 ELSE 0

GrantInv ==
    /\ used \in [DANGEROUS_ACTIONS -> Nat]
    /\ "remediation" \in Callers =>
          \A d \in DANGEROUS_ACTIONS :
              used[d] + Held(d) <= Cardinality(GrantsIn(shown["remediation"], d))
    /\ "remediation" \notin Callers => \A d \in DANGEROUS_ACTIONS : used[d] = 0

LEMMA GrantsAreFinite ==
    ASSUME NEW s \in Seq(Note), NEW d
    PROVE  IsFiniteSet(GrantsIn(s, d)) /\ Cardinality(GrantsIn(s, d)) \in Nat
<1>1. DOMAIN s = 1 .. Len(s) /\ Len(s) \in Nat
  OBVIOUS
<1>2. IsFiniteSet(DOMAIN s)
  BY <1>1, FS_Interval
<1>3. GrantsIn(s, d) \subseteq DOMAIN s
  BY DEF GrantsIn
<1>4. QED
  BY <1>2, <1>3, FS_Subset, FS_CardinalityType

\* More messages hold more grants, by one at least when there is one among the new.
LEMMA MoreGrants ==
    ASSUME NEW s \in Seq(Note), NEW t \in Seq(Note), NEW d
    PROVE  Cardinality(GrantsIn(s, d)) + (IF \E i \in DOMAIN t : t[i].authorizes = d THEN 1 ELSE 0)
              <= Cardinality(GrantsIn(s \o t, d))
<1> DEFINE G == GrantsIn(s, d)
           H == GrantsIn(s \o t, d)
<1>1. /\ s \o t \in Seq(Note) /\ Len(s \o t) = Len(s) + Len(t)
      /\ Len(s) \in Nat /\ Len(t) \in Nat
      /\ DOMAIN s = 1 .. Len(s) /\ DOMAIN t = 1 .. Len(t)
      /\ DOMAIN (s \o t) = 1 .. (Len(s) + Len(t))
  OBVIOUS
<1>2. /\ \A i \in DOMAIN s : i \in DOMAIN (s \o t) /\ (s \o t)[i] = s[i]
      /\ \A i \in DOMAIN t : Len(s) + i \in DOMAIN (s \o t) /\ (s \o t)[Len(s) + i] = t[i]
  BY <1>1, ConcatProperties
<1>3. G \subseteq H
  BY <1>2 DEF GrantsIn
<1>4. IsFiniteSet(H) /\ IsFiniteSet(G) /\ Cardinality(H) \in Nat /\ Cardinality(G) \in Nat
  BY <1>1, GrantsAreFinite
<1>5. CASE ~ \E i \in DOMAIN t : t[i].authorizes = d
  <2>1. Cardinality(G) <= Cardinality(H)
    BY <1>3, <1>4, FS_Subset
  <2> HIDE DEF G, H
  <2>2. Cardinality(G) + 0 <= Cardinality(H)
    BY <1>4, <2>1
  <2>3. QED
    BY <1>5, <2>2 DEF G, H
<1>6. ASSUME NEW i \in DOMAIN t, t[i].authorizes = d
      PROVE  Cardinality(G) + 1 <= Cardinality(H)
  <2> DEFINE j == Len(s) + i
  <2>1. j \in H /\ j \notin G
    BY <1>1, <1>2, <1>6 DEF GrantsIn
  <2> HIDE DEF G, H, j
  <2>2. G \union {j} \subseteq H
    BY <1>3, <2>1
  <2>3. Cardinality(G \union {j}) = Cardinality(G) + 1
    BY <1>4, <2>1, FS_AddElement
  <2>4. Cardinality(G \union {j}) <= Cardinality(H)
    BY <1>4, <2>2, FS_Subset
  <2>5. QED
    BY <2>3, <2>4
<1>7. QED
  BY <1>5, <1>6

LEMMA GrantsStay ==
    ASSUME GrantInv, UNCHANGED <<used, shown, authorized>> PROVE GrantInv'
BY DEF GrantInv, Held

\* The remediation agent always looks at its messages.
LEMMA ReasonGrants ==
    ASSUME GrantInv, MailInv, NEW a \in Callers, NEW obs \in Observations(a), NEW situation,
           Reason(a, obs, situation), used' = used
    PROVE  GrantInv'
<1>1. CASE a # "remediation"
  <2>1. authorized' = authorized
    BY <1>1 DEF Reason
  <2>2. "remediation" \in Callers => shown'["remediation"] = shown["remediation"]
    BY <1>1 DEF Reason, MailInv
  <2>3. QED
    BY <2>1, <2>2 DEF GrantInv, Held
<1>2. CASE a = "remediation"
  <2> DEFINE s == shown[a]
             t == mailbox[a]
  <2>1. Flushes(a, obs)
    BY <1>2 DEF Flushes, Observations, Prompting, RemediationPrompts
  <2>2. shown' = [shown EXCEPT ![a] = s \o t] /\ authorized' = authorized \union Authorizations(t)
    BY <1>2, <2>1 DEF Reason
  <2>3. s \in Seq(Note) /\ t \in Seq(Note) /\ shown'[a] = s \o t
    BY <2>2 DEF MailInv
  <2>4. ASSUME NEW d \in DANGEROUS_ACTIONS
        PROVE  used'[d] + Held(d)' <= Cardinality(GrantsIn(shown'[a], d))
    <3> DEFINE n == IF \E i \in DOMAIN t : t[i].authorizes = d THEN 1 ELSE 0
               g == Cardinality(GrantsIn(s, d))
               h == Cardinality(GrantsIn(s \o t, d))
               u == used[d]
               old == Held(d)
               new == IF d \in authorized' THEN 1 ELSE 0
    <3>1. g \in Nat /\ h \in Nat /\ g + n <= h
      <4>1. s \o t \in Seq(Note)
        BY <2>3
      <4>2. g \in Nat /\ h \in Nat
        BY <2>3, <4>1, GrantsAreFinite
      <4>3. g + n <= h
        BY <2>3, MoreGrants
      <4>4. QED
        BY <4>2, <4>3
    <3>2. u + old <= g /\ u \in Nat
      BY <1>2 DEF GrantInv
    <3>3. new <= old + n /\ new \in Nat /\ old \in Nat /\ n \in Nat
      BY <2>2 DEF Held, Authorizations
    <3> HIDE DEF n, g, h, u, old, new
    <3>4. u + new <= h
      BY <3>1, <3>2, <3>3
    <3>5. QED
      BY <2>3, <3>4 DEF u, new, h, Held
  <2>5. QED
    BY <1>2, <2>4 DEF GrantInv
<1>3. QED
  BY <1>1, <1>2

\* A dangerous action uses one authorization up.
LEMMA DecideGrants ==
    ASSUME GrantInv, NEW a \in Callers, NEW answer, Decide(a, answer), shown' = shown
    PROVE  GrantInv'
<1> DEFINE tool == Chosen(a, answer)
           granted == a = "remediation" /\ tool \in DANGEROUS_ACTIONS /\ tool \in authorized
<1>1. /\ authorized' = IF granted THEN authorized \ {tool} ELSE authorized
      /\ used' = IF granted THEN [used EXCEPT ![tool] = @ + 1] ELSE used
  BY DEF Decide
<1> HIDE DEF tool
<1>2. CASE ~granted
  BY <1>1, <1>2, GrantsStay
<1>3. CASE granted
  <2>1. /\ "remediation" \in Callers /\ tool \in DANGEROUS_ACTIONS /\ tool \in authorized
        /\ authorized' = authorized \ {tool} /\ used' = [used EXCEPT ![tool] = @ + 1]
    BY <1>1, <1>3
  <2>2. used' \in [DANGEROUS_ACTIONS -> Nat]
    BY <2>1 DEF GrantInv
  <2>3. ASSUME NEW d \in DANGEROUS_ACTIONS PROVE used'[d] + Held(d)' = used[d] + Held(d)
    <3>1. used[d] \in Nat
      BY DEF GrantInv
    <3>2. CASE d = tool
      <4>1. used'[d] = used[d] + 1 /\ Held(d) = 1 /\ Held(d)' = 0
        BY <2>1, <3>2 DEF Held, GrantInv
      <4>2. QED
        BY <3>1, <4>1
    <3>3. CASE d # tool
      <4>1. used'[d] = used[d] /\ Held(d)' = Held(d)
        BY <2>1, <3>3 DEF Held, GrantInv
      <4>2. QED
        BY <4>1
    <3>4. QED
      BY <3>2, <3>3
  <2>4. QED
    BY <2>1, <2>2, <2>3 DEF GrantInv
<1>4. QED
  BY <1>2, <1>3

LEMMA NextGrants == GrantInv /\ MailInv /\ [Next]_vars => GrantInv'
<1> SUFFICES ASSUME GrantInv, MailInv, [Next]_vars PROVE GrantInv'
  OBVIOUS
<1>1. ASSUME NEW a \in Callers, NEW obs \in Observations(a), NEW situation,
             Act(a, obs, situation)
      PROVE  GrantInv'
  BY <1>1, ReasonGrants, GrantsStay DEF Act
<1>2. ASSUME NEW a \in Callers, NEW mail, ReceiveMessage(a, mail) PROVE GrantInv'
  BY <1>2, GrantsStay DEF ReceiveMessage
<1>3. ASSUME NEW a \in Callers, Hear(a) PROVE GrantInv'
  BY <1>3, DecideGrants, GrantsStay DEF Hear
<1>4. ASSUME NEW a \in Callers, LLMTimesOut(a) PROVE GrantInv'
  BY <1>4, DecideGrants DEF LLMTimesOut
<1>5. CASE UNCHANGED agentVars \/ UNCHANGED vars
  BY <1>5, GrantsStay DEF agentVars, vars
<1>6. QED
  BY <1>1, <1>2, <1>3, <1>4, <1>5 DEF Next

LEMMA InitGrants == Init => GrantInv /\ MailInv
<1> SUFFICES ASSUME Init PROVE GrantInv /\ MailInv
  OBVIOUS
<1>1. MailInv
  BY DEF Init, MailInv, ShownOnce
<1>2. \A d \in DANGEROUS_ACTIONS : used[d] = 0 /\ Held(d) = 0
  BY DEF Init, Held
<1>3. used \in [DANGEROUS_ACTIONS -> Nat]
  BY DEF Init
<1>4. "remediation" \in Callers => \A d \in DANGEROUS_ACTIONS :
          Cardinality(GrantsIn(shown["remediation"], d)) \in Nat
  BY <1>1, GrantsAreFinite DEF MailInv
<1>5. "remediation" \in Callers => \A d \in DANGEROUS_ACTIONS :
          used[d] + Held(d) <= Cardinality(GrantsIn(shown["remediation"], d))
  BY <1>2, <1>4
<1>6. QED
  BY <1>1, <1>2, <1>3, <1>5 DEF GrantInv

\* No answer, late, cached or meant for another prompt, makes the remediation agent issue
\* a dangerous action more often than it was authorized to.
THEOREM DangerIsGranted == Spec => []DangerousNeedsGrant
<1>1. GrantInv /\ MailInv => DangerousNeedsGrant
  <2> SUFFICES ASSUME GrantInv, MailInv, NEW d \in DANGEROUS_ACTIONS
               PROVE  used[d] <= Grants(d)
    BY DEF DangerousNeedsGrant
  <2>1. CASE "remediation" \notin Callers
    BY <2>1 DEF GrantInv, Grants
  <2>2. CASE "remediation" \in Callers
    <3> DEFINE s == shown["remediation"]
               t == mailbox["remediation"]
               g == Cardinality(GrantsIn(s, d))
               h == Cardinality(GrantsIn(s \o t, d))
               n == IF \E i \in DOMAIN t : t[i].authorizes = d THEN 1 ELSE 0
    <3>1. /\ s \in Seq(Note) /\ t \in Seq(Note) /\ s \o t \in Seq(Note)
          /\ s \o t = received["remediation"]
      BY <2>2 DEF MailInv, ShownOnce
    <3>2. g \in Nat /\ h \in Nat /\ g + n <= h
      BY <3>1, GrantsAreFinite, MoreGrants
    <3>3. used[d] \in Nat /\ Held(d) \in Nat /\ n \in Nat
      BY DEF GrantInv, Held
    <3>4. used[d] + Held(d) <= g
      BY <2>2 DEF GrantInv
    <3>5. Grants(d) = h
      BY <2>2, <3>1 DEF Grants
    <3> HIDE DEF g, h, n
    <3>6. QED
      BY <3>2, <3>3, <3>4, <3>5
  <2>3. QED
    BY <2>1, <2>2
<1>2. QED
  BY InitGrants, <1>1, NextMail, NextGrants, PTL DEF Spec

-----------------------------------------------------------------------------
(* Types of the router                                                       *)

CallTypes == call \in [Callers -> Call \union {Idle}]
StoreTypes == store \in [Prompts -> SUBSET Text]
RecentTypes == recent \in Seq(Prompts) /\ Len(recent) <= RecentLimit /\ IsInjective(recent)
BudgetTypes == budget \in [count : Nat, date : Days]

RouterTypes == CallTypes /\ StoreTypes /\ RecentTypes /\ BudgetTypes

LEMMA InitRouterTypes == RouterInit => RouterTypes
<1> SUFFICES ASSUME RouterInit PROVE RouterTypes
  OBVIOUS
<1>1. CallTypes /\ StoreTypes
  BY DEF RouterInit, CallTypes, StoreTypes
<1>2. RecentTypes
  BY RouterAssumption DEF RouterInit, RecentTypes, IsInjective
<1>3. BudgetTypes
  BY RouterAssumption DEF RouterInit, BudgetTypes, Days
<1>4. QED
  BY <1>1, <1>2, <1>3 DEF RouterTypes

LEMMA AtIsCall ==
    ASSUME CallTypes, NEW c \in Callers, NEW pc, pc # "idle", At(c, pc)
    PROVE  /\ call[c] \in Call
           /\ call[c].prompt \in Prompts /\ call[c].text \in Text
           /\ call[c].walk \in Seq(Prompts) /\ call[c].spent \in Nat
<1>1. call[c] # Idle
  BY DEF At, Idle
<1>2. call[c] \in Call
  BY <1>1 DEF CallTypes
<1>3. QED
  BY <1>2 DEF Call

\* One call changes to one of its type.
LEMMA CallBecomes ==
    ASSUME CallTypes, NEW c \in Callers, NEW r \in Call \union {Idle},
           call' = [call EXCEPT ![c] = r]
    PROVE  CallTypes'
BY DEF CallTypes

PCs == {"get", "ollama", "openrouter", "waiting", "set", "list", "recent", "done"}

LEMMA GotoTypes ==
    ASSUME CallTypes, NEW c \in Callers, call[c] \in Call, NEW pc \in PCs, Goto(c, pc)
    PROVE  CallTypes'
<1> DEFINE r == [call[c] EXCEPT !.pc = pc]
<1>1. call' = [call EXCEPT ![c] = r]
  BY DEF Goto
<1>2. r \in Call
  BY DEF Call, PCs
<1> HIDE DEF r
<1>3. QED
  BY <1>1, <1>2, CallBecomes

LEMMA AnsweredTypes ==
    ASSUME CallTypes, NEW c \in Callers, call[c] \in Call, NEW text \in Text,
           NEW source \in Sources, Answered(c, text, source)
    PROVE  CallTypes'
<1> DEFINE r == [call[c] EXCEPT !.pc = "done", !.text = text, !.source = source]
<1>1. call' = [call EXCEPT ![c] = r]
  BY DEF Answered
<1>2. r \in Call
  BY DEF Call
<1> HIDE DEF r
<1>3. QED
  BY <1>1, <1>2, CallBecomes

LEMMA NoRequestIsRequest == NoRequest \in Request
BY RouterAssumption DEF NoRequest, Request, Days

LEMMA FromModelTypes ==
    ASSUME CallTypes, NEW c \in Callers, call[c] \in Call, NEW source \in Sources,
           FromModel(c, source)
    PROVE  CallTypes'
<1>1. PICK a \in Answers : call' = [call EXCEPT
            ![c].pc = IF call[c].allow_cache THEN "set" ELSE "done",
            ![c].text = [of |-> call[c].prompt, says |-> a], ![c].source = source,
            ![c].request = NoRequest]
  BY DEF FromModel
<1> DEFINE pc == IF call[c].allow_cache THEN "set" ELSE "done"
           text == [of |-> call[c].prompt, says |-> a]
           r == [call[c] EXCEPT !.pc = pc, !.text = text, !.source = source,
                                !.request = NoRequest]
<1>2. text \in Text /\ pc \in PCs
  BY DEF Call, Text, PCs
<1>3. call' = [call EXCEPT ![c] = r]
  BY <1>1
<1> HIDE DEF text, pc
<1>4. r \in Call
  BY <1>2, NoRequestIsRequest DEF Call, PCs
<1> HIDE DEF r
<1>5. QED
  BY <1>3, <1>4, CallBecomes

LEMMA FailsTypes ==
    ASSUME CallTypes, NEW c \in Callers, call[c] \in Call, NEW limit \in Nat,
           NEW pc \in PCs, FailsOrTimesOut(c, limit, pc)
    PROVE  CallTypes'
<1>1. PICK t \in {0, limit} :
         call' = [call EXCEPT ![c].pc = pc, ![c].spent = @ + t, ![c].request = NoRequest]
  BY DEF FailsOrTimesOut
<1> DEFINE r == [call[c] EXCEPT !.pc = pc, !.spent = @ + t, !.request = NoRequest]
<1>2. t \in Nat /\ call[c].spent \in Nat
  BY DEF Call
<1>3. call[c].spent + t \in Nat
  BY <1>2
<1>4. call' = [call EXCEPT ![c] = r]
  BY <1>1
<1>5. r \in Call
  BY <1>3, NoRequestIsRequest DEF Call, PCs
<1> HIDE DEF r
<1>6. QED
  BY <1>4, <1>5, CallBecomes

LEMMA AfterOpenRouterGoesOn == \A c : AfterOpenRouter(c) \in PCs
BY DEF AfterOpenRouter, PCs

\* The list without a key that it holds once at most.
LEMMA WithoutKey ==
    ASSUME NEW S, NEW keys \in Seq(S), IsInjective(keys), NEW p \in S
    PROVE  /\ Without(keys, p) \in Seq(S) /\ IsInjective(Without(keys, p))
           /\ \A i \in DOMAIN Without(keys, p) : Without(keys, p)[i] # p
<1>1. CASE ~Contains(keys, p)
  <2>1. Without(keys, p) = keys
    BY <1>1 DEF Without
  <2>2. \A i \in 1 .. Len(keys) : keys[i] # p
    BY <1>1 DEF Contains
  <2>3. DOMAIN keys = 1 .. Len(keys)
    OBVIOUS
  <2>4. QED
    BY <2>1, <2>2, <2>3
<1>2. CASE Contains(keys, p)
  <2> DEFINE i == CHOOSE j \in DOMAIN keys : keys[j] = p
             left == SubSeq(keys, 1, i - 1)
             right == SubSeq(keys, i + 1, Len(keys))
             n == Len(keys)
  <2>1. Without(keys, p) = left \o right
    BY <1>2 DEF Without, RemoveAt
  <2>2. n \in Nat /\ DOMAIN keys = 1 .. n
    OBVIOUS
  <2>3. i \in 1 .. n /\ keys[i] = p
    BY <1>2, <2>2 DEF Contains
  <2> HIDE DEF i
  <2>4. /\ left \in Seq(S) /\ Len(left) = i - 1
        /\ \A j \in 1 .. (i - 1) : left[j] = keys[j]
    BY <2>2, <2>3, SubSeqProperties
  <2>5. /\ right \in Seq(S) /\ Len(right) = n - i
        /\ \A j \in 1 .. (n - i) : right[j] = keys[j + i]
    <3>1. i + 1 \in Int /\ n \in Int /\ \A j \in i + 1 .. n : keys[j] \in S
      BY <2>2, <2>3
    <3>2. /\ right \in Seq(S)
          /\ Len(right) = IF i + 1 <= n THEN n - (i + 1) + 1 ELSE 0
          /\ \A j \in 1 .. n - (i + 1) + 1 : right[j] = keys[(i + 1) + j - 1]
      BY <3>1, SubSeqProperties
    <3> HIDE DEF right, n
    <3>3. Len(right) = n - i
      BY <2>2, <2>3, <3>2
    <3>4. ASSUME NEW j \in 1 .. (n - i) PROVE right[j] = keys[j + i]
      <4>1. j \in 1 .. n - (i + 1) + 1 /\ (i + 1) + j - 1 = j + i
        BY <2>2, <2>3
      <4>2. QED
        BY <3>2, <4>1
    <3>5. QED
      BY <3>2, <3>3, <3>4
  <2> HIDE DEF left, right, n
  <2>6. /\ left \o right \in Seq(S) /\ Len(left \o right) = n - 1
        /\ \A j \in 1 .. (n - 1) :
              (left \o right)[j] = IF j < i THEN keys[j] ELSE keys[j + 1]
    <3>1. /\ left \o right \in Seq(S) /\ Len(left \o right) = Len(left) + Len(right)
          /\ \A j \in 1 .. Len(left) + Len(right) :
                (left \o right)[j] = IF j <= Len(left) THEN left[j] ELSE right[j - Len(left)]
      <4>1. left \in Seq(S) /\ right \in Seq(S)
        BY <2>4, <2>5
      <4>2. QED
        BY <4>1, ConcatProperties
    <3>2. Len(left \o right) = n - 1
      BY <2>2, <2>3, <2>4, <2>5, <3>1
    <3>3. ASSUME NEW j \in 1 .. (n - 1), j < i PROVE (left \o right)[j] = keys[j]
      <4>1. j \in 1 .. (i - 1) /\ j \in 1 .. Len(left) + Len(right) /\ j <= Len(left)
        BY <2>2, <2>3, <2>4, <2>5, <3>3
      <4>2. QED
        BY <2>4, <3>1, <4>1
    <3>4. ASSUME NEW j \in 1 .. (n - 1), ~(j < i) PROVE (left \o right)[j] = keys[j + 1]
      <4> DEFINE k == j - (i - 1)
      <4>1. /\ k \in 1 .. (n - i) /\ j - Len(left) = k /\ k + i = j + 1
            /\ j \in 1 .. Len(left) + Len(right) /\ ~(j <= Len(left))
        BY <2>2, <2>3, <2>4, <2>5, <3>4
      <4> HIDE DEF k
      <4>2. (left \o right)[j] = right[k] /\ right[k] = keys[k + i]
        BY <2>5, <3>1, <4>1
      <4>3. QED
        BY <4>1, <4>2
    <3>5. QED
      BY <3>1, <3>2, <3>3, <3>4
  <2> DEFINE s == left \o right
             at(j) == IF j < i THEN j ELSE j + 1
  <2>7. DOMAIN s = 1 .. (n - 1)
    BY <2>2, <2>6
  <2>8. \A j \in DOMAIN s : at(j) \in DOMAIN keys /\ at(j) # i /\ s[j] = keys[at(j)]
    BY <2>2, <2>3, <2>6, <2>7
  <2>9. \A j, k \in DOMAIN s : at(j) = at(k) => j = k
    BY <2>2, <2>3, <2>7
  <2> HIDE DEF s, at
  <2>10. IsInjective(s)
    BY <2>8, <2>9 DEF IsInjective
  <2>11. \A j \in DOMAIN s : s[j] # p
    BY <2>2, <2>3, <2>8 DEF IsInjective
  <2>12. QED
    BY <2>1, <2>6, <2>10, <2>11 DEF s
<1>3. QED
  BY <1>1, <1>2

LEMMA StoredRecent ==
    ASSUME RecentTypes, NEW p \in Prompts, NEW text, Stored(p, text) PROVE RecentTypes'
<1> DEFINE rest == Without(recent, p)
           keys == <<p>> \o rest
           n == IF Len(keys) < RecentLimit THEN Len(keys) ELSE RecentLimit
<1>1. recent' = SubSeq(keys, 1, n)
  BY DEF Stored
<1>2. /\ rest \in Seq(Prompts) /\ IsInjective(rest)
      /\ \A i \in DOMAIN rest : rest[i] # p
  BY WithoutKey DEF RecentTypes
<1> HIDE DEF rest
<1>3. /\ keys \in Seq(Prompts) /\ Len(keys) = Len(rest) + 1 /\ Len(rest) \in Nat
      /\ keys[1] = p /\ \A i \in 1 .. Len(rest) : keys[i + 1] = rest[i]
  <2>1. <<p>> \in Seq(Prompts) /\ Len(<<p>>) = 1 /\ <<p>>[1] = p
    OBVIOUS
  <2>2. /\ keys \in Seq(Prompts) /\ Len(keys) = 1 + Len(rest)
        /\ \A i \in 1 .. 1 : keys[i] = <<p>>[i]
        /\ \A i \in 1 .. Len(rest) : keys[1 + i] = rest[i]
    BY <1>2, <2>1, ConcatProperties
  <2>3. Len(rest) \in Nat
    BY <1>2
  <2>4. QED
    BY <2>1, <2>2, <2>3
<1> HIDE DEF keys
<1>4. ASSUME NEW i \in 1 .. Len(keys), NEW j \in 1 .. Len(keys), keys[i] = keys[j]
      PROVE  i = j
  <2>1. \A k \in 1 .. Len(keys) :
            k = 1 \/ (k - 1 \in DOMAIN rest /\ keys[k] = rest[k - 1] /\ keys[k] # p)
    <3> SUFFICES ASSUME NEW k \in 1 .. Len(keys), k # 1
                 PROVE  k - 1 \in DOMAIN rest /\ keys[k] = rest[k - 1] /\ keys[k] # p
      OBVIOUS
    <3>1. k - 1 \in 1 .. Len(rest) /\ (k - 1) + 1 = k /\ DOMAIN rest = 1 .. Len(rest)
      BY <1>2, <1>3
    <3>2. keys[(k - 1) + 1] = rest[k - 1]
      BY <1>3, <3>1
    <3>3. QED
      BY <1>2, <3>1, <3>2
  <2>2. CASE i = 1 \/ j = 1
    BY <1>3, <1>4, <2>1, <2>2
  <2>3. CASE i # 1 /\ j # 1
    <3>1. i - 1 \in DOMAIN rest /\ j - 1 \in DOMAIN rest /\ rest[i - 1] = rest[j - 1]
      BY <1>4, <2>1, <2>3
    <3>2. i - 1 = j - 1
      BY <1>2, <3>1 DEF IsInjective
    <3>3. QED
      BY <1>3, <3>2
  <2>4. QED
    BY <2>2, <2>3
<1>5. n \in 1 .. Len(keys) /\ n <= RecentLimit /\ n \in Nat
  BY <1>3, RouterAssumption
<1> HIDE DEF n
<1>6. /\ recent' \in Seq(Prompts) /\ Len(recent') = n
      /\ \A i \in 1 .. n : recent'[i] = keys[i]
  <2>1. 1 \in 1 .. (Len(keys) + 1) /\ n \in 0 .. Len(keys)
    BY <1>3, <1>5
  <2>2. /\ SubSeq(keys, 1, n) \in Seq(Prompts) /\ Len(SubSeq(keys, 1, n)) = n
        /\ \A i \in 1 .. n : SubSeq(keys, 1, n)[i] = keys[i]
    BY <1>3, <1>5, <2>1, SubSeqProperties
  <2>3. QED
    BY <1>1, <2>2
<1>7. IsInjective(recent')
  <2>1. DOMAIN recent' = 1 .. n /\ 1 .. n \subseteq 1 .. Len(keys)
    BY <1>3, <1>5, <1>6
  <2>2. QED
    BY <1>4, <1>6, <2>1 DEF IsInjective
<1>8. QED
  BY <1>5, <1>6, <1>7 DEF RecentTypes

\* Steps that leave the cache, or its list, or the budget alone.
LEMMA StoreTypesStay == ASSUME StoreTypes, store' = store PROVE StoreTypes'
BY DEF StoreTypes

LEMMA RecentTypesStay == ASSUME RecentTypes, recent' = recent PROVE RecentTypes'
BY DEF RecentTypes

LEMMA StoredTypes ==
    ASSUME StoreTypes, RecentTypes, NEW p \in Prompts, NEW text \in Text, Stored(p, text)
    PROVE  StoreTypes' /\ RecentTypes'
<1>1. StoreTypes'
  BY DEF StoreTypes, Stored
<1>2. QED
  BY <1>1, StoredRecent

LEMMA HeadOfWalk ==
    ASSUME NEW walk \in Seq(Prompts), walk # <<>>
    PROVE  Head(walk) \in Prompts /\ Tail(walk) \in Seq(Prompts)
OBVIOUS

\* The call and the cache are as they were, or as their types allow, after a step.
LEMMA RouterStepTypes ==
    ASSUME RouterTypes, BudgetInv, NEW c \in Callers, RouterStep(c) PROVE RouterTypes'
<1>1. CallTypes /\ StoreTypes /\ RecentTypes /\ BudgetTypes
  BY DEF RouterTypes
<1>2. {OllamaTimeout, OpenRouterTimeout} \subseteq Nat
  BY RouterAssumption
<1>3. CASE Get(c)
  <2>1. call[c] \in Call /\ call[c].prompt \in Prompts
    BY <1>1, <1>3, AtIsCall DEF Get
  <2>2. store[call[c].prompt] \subseteq Text
    BY <1>1, <2>1 DEF StoreTypes
  <2>3. CallTypes'
    BY <1>1, <1>3, <2>1, <2>2, AnsweredTypes, GotoTypes DEF Get, Sources, PCs
  <2>4. UNCHANGED <<store, recent, budget>>
    BY <1>3 DEF Get
  <2>5. QED
    BY <1>1, <2>3, <2>4 DEF RouterTypes, StoreTypes, RecentTypes, BudgetTypes
<1>4. CASE Ollama(c)
  <2>1. call[c] \in Call
    BY <1>1, <1>4, AtIsCall DEF Ollama
  <2>2. CallTypes'
    BY <1>1, <1>2, <1>4, <2>1, FromModelTypes, FailsTypes DEF Ollama, Sources, PCs
  <2>3. UNCHANGED <<store, recent, budget>>
    BY <1>4 DEF Ollama
  <2>4. QED
    BY <1>1, <2>2, <2>3 DEF RouterTypes, StoreTypes, RecentTypes, BudgetTypes
<1>5. CASE Consume(c)
  <2>1. call[c] \in Call
    BY <1>1, <1>5, AtIsCall DEF Consume
  <2>2. CallTypes'
    <3>1. ASSUME SendFirst(c) PROVE CallTypes'
      <4> DEFINE new == [day |-> today, unit |-> sent[today].units + 1, attempt |-> 0]
                 r == [call[c] EXCEPT !.pc = "waiting", !.request = new]
      <4>1. new \in Request
        BY DEF Request, BudgetInv, OnDay
      <4>2. call' = [call EXCEPT ![c] = r]
        BY <3>1 DEF SendFirst
      <4> HIDE DEF new
      <4>3. r \in Call
        BY <2>1, <4>1 DEF Call
      <4> HIDE DEF r
      <4> QED
        BY <1>1, <4>2, <4>3, CallBecomes
    <3> QED
      BY <1>1, <1>5, <2>1, <3>1, GotoTypes, AfterOpenRouterGoesOn DEF Consume, PCs
  <2>3. CountToday \in Nat /\ CountToday + 1 \in Nat /\ today \in Days
    BY CountIsToday DEF BudgetInv
  <2>4. BudgetTypes'
    BY <1>1, <1>5, <2>3 DEF Consume, BudgetTypes
  <2>5. UNCHANGED <<store, recent>>
    BY <1>5 DEF Consume
  <2>6. QED
    BY <1>1, <2>2, <2>4, <2>5 DEF RouterTypes, StoreTypes, RecentTypes
<1>6. CASE OpenRouter(c)
  <2>1. call[c] \in Call
    BY <1>1, <1>6, AtIsCall DEF OpenRouter
  <2>2. CallTypes'
    BY <1>1, <1>2, <1>6, <2>1, FromModelTypes, FailsTypes, AfterOpenRouterGoesOn
       DEF OpenRouter, Sources
  <2>3. UNCHANGED <<store, recent, budget>>
    BY <1>6 DEF OpenRouter
  <2>4. QED
    BY <1>1, <2>2, <2>3 DEF RouterTypes, StoreTypes, RecentTypes, BudgetTypes
<1>7. CASE Set(c)
  <2>1. call[c] \in Call /\ call[c].prompt \in Prompts /\ call[c].text \in Text
    BY <1>1, <1>7, AtIsCall DEF Set
  <2>2. CallTypes'
    BY <1>1, <1>7, <2>1, GotoTypes DEF Set, PCs
  <2>3. StoreTypes' /\ RecentTypes'
    BY <1>1, <1>7, <2>1, StoredTypes, StoreTypesStay, RecentTypesStay DEF Set
  <2>4. budget' = budget
    BY <1>7 DEF Set
  <2>5. QED
    BY <1>1, <2>2, <2>3, <2>4 DEF RouterTypes, BudgetTypes
<1>8. CASE ListRecent(c)
  <2>1. call[c] \in Call
    BY <1>1, <1>8, AtIsCall DEF ListRecent
  <2>2. ASSUME call' = [call EXCEPT ![c].pc = "recent", ![c].walk = recent]
        PROVE  CallTypes'
    <3> DEFINE r == [call[c] EXCEPT !.pc = "recent", !.walk = recent]
    <3>1. call' = [call EXCEPT ![c] = r]
      BY <2>2
    <3>2. r \in Call
      BY <1>1, <2>1 DEF Call, RecentTypes
    <3> HIDE DEF r
    <3>3. QED
      BY <1>1, <3>1, <3>2, CallBecomes
  <2>3. CallTypes'
    BY <1>1, <1>8, <2>1, <2>2, GotoTypes DEF ListRecent, PCs
  <2>4. UNCHANGED <<store, recent, budget>>
    BY <1>8 DEF ListRecent
  <2>5. QED
    BY <1>1, <2>3, <2>4 DEF RouterTypes, StoreTypes, RecentTypes, BudgetTypes
<1>9. CASE ReadRecent(c)
  <2> DEFINE keys == call[c].walk
  <2>1. call[c] \in Call /\ keys \in Seq(Prompts)
    BY <1>1, <1>9, AtIsCall DEF ReadRecent
  <2>2. ASSUME keys # <<>>, call' = [call EXCEPT ![c].walk = Tail(keys)]
        PROVE  CallTypes'
    <3> DEFINE r == [call[c] EXCEPT !.walk = Tail(keys)]
    <3>1. call' = [call EXCEPT ![c] = r]
      BY <2>2
    <3>2. Tail(keys) \in Seq(Prompts)
      BY <2>1, <2>2, HeadOfWalk
    <3>3. r \in Call
      BY <2>1, <3>2 DEF Call
    <3> HIDE DEF r
    <3>4. QED
      BY <1>1, <3>1, <3>3, CallBecomes
  <2>3. ASSUME keys # <<>>, NEW text \in store[Head(keys)],
               Answered(c, text, "cache_fallback")
        PROVE  CallTypes'
    <3>1. text \in Text
      BY <1>1, <2>1, <2>3, HeadOfWalk DEF StoreTypes
    <3>2. QED
      BY <1>1, <2>1, <2>3, <3>1, AnsweredTypes DEF Sources
  <2>4. CASE Goto(c, "done")
    <3>1. CallTypes'
      BY <1>1, <2>1, <2>4, GotoTypes DEF PCs
    <3>2. QED
      BY <1>1, <1>9, <3>1
         DEF ReadRecent, RouterTypes, StoreTypes, RecentTypes, BudgetTypes
  <2>5. CallTypes'
    BY <1>1, <1>9, <2>1, <2>2, <2>3, GotoTypes DEF ReadRecent, PCs
  <2>6. UNCHANGED <<store, recent, budget>>
    BY <1>9 DEF ReadRecent
  <2>7. QED
    BY <1>1, <2>5, <2>6 DEF RouterTypes, StoreTypes, RecentTypes, BudgetTypes
<1>10. CASE SdkResends(c)
  <2>1. call[c] \in Call
    BY <1>1, <1>10, AtIsCall DEF SdkResends
  <2> DEFINE new == [call[c].request EXCEPT !.attempt = @ + 1]
             r == [call[c] EXCEPT !.request = new]
  <2>2. new \in Request
    BY <2>1 DEF Call, Request
  <2>3. call' = [call EXCEPT ![c] = r]
    BY <1>10 DEF SdkResends
  <2> HIDE DEF new
  <2>4. r \in Call
    BY <2>1, <2>2 DEF Call
  <2> HIDE DEF r
  <2>5. CallTypes' /\ UNCHANGED <<store, recent, budget>>
    BY <1>1, <1>10, <2>3, <2>4, CallBecomes DEF SdkResends
  <2> QED
    BY <1>1, <2>5 DEF RouterTypes, StoreTypes, RecentTypes, BudgetTypes
<1>11. QED
  BY <1>3, <1>4, <1>5, <1>6, <1>7, <1>8, <1>9, <1>10 DEF RouterStep

LEMMA AskedIsCall ==
    ASSUME NEW p \in Prompts, NEW allow_cache \in BOOLEAN
    PROVE  Asked(p, allow_cache) \in Call
<1>1. [of |-> p, says |-> Empty] \in Text
  BY RouterAssumption DEF Text
<1>2. (IF allow_cache THEN "get" ELSE "ollama") \in PCs
  BY DEF PCs
<1>3. QED
  BY <1>1, <1>2, NoRequestIsRequest DEF Asked, Call, PCs, Sources

LEMMA BecomesIdleTypes ==
    ASSUME CallTypes, NEW a \in Callers, call' = [call EXCEPT ![a] = Idle]
    PROVE  CallTypes'
BY CallBecomes

LEMMA NextRouterTypes == RouterTypes /\ BudgetInv /\ [Next]_vars => RouterTypes'
<1> SUFFICES ASSUME RouterTypes, BudgetInv, [Next]_vars PROVE RouterTypes'
  OBVIOUS
<1>1. CallTypes /\ StoreTypes /\ RecentTypes /\ BudgetTypes
  BY DEF RouterTypes
<1>2. ASSUME NEW a \in Callers, NEW obs, NEW situation \in Situations,
             Act(a, obs, situation)
      PROVE  RouterTypes'
  <2>1. UNCHANGED <<store, recent, budget>>
    BY <1>2 DEF Act
  <2>2. CASE Reason(a, obs, situation)
    <3>1. <<a, situation>> \in Prompts
      BY TeamAssumption
    <3> DEFINE r == Asked(<<a, situation>>, TRUE)
    <3>2. r \in Call
      BY <3>1, AskedIsCall
    <3>3. call' = [call EXCEPT ![a] = r]
      BY <2>2 DEF Reason
    <3> HIDE DEF r
    <3>4. CallTypes'
      BY <1>1, <3>2, <3>3, CallBecomes
    <3>5. QED
      BY <1>1, <2>1, <3>4 DEF RouterTypes, StoreTypes, RecentTypes, BudgetTypes
  <2>3. CASE call' = call
    BY <1>1, <2>1, <2>3
       DEF RouterTypes, CallTypes, StoreTypes, RecentTypes, BudgetTypes
  <2>4. QED
    BY <1>2, <2>2, <2>3 DEF Act
<1>3. ASSUME NEW a \in Callers, Hear(a) PROVE RouterTypes'
  <2>1. UNCHANGED <<store, recent, budget>> /\ CallTypes'
    BY <1>1, <1>3, BecomesIdleTypes DEF Hear
  <2>2. QED
    BY <1>1, <2>1 DEF RouterTypes, StoreTypes, RecentTypes, BudgetTypes
<1>4. ASSUME NEW a \in Callers, LLMTimesOut(a) PROVE RouterTypes'
  <2>1. budget' = budget /\ CallTypes'
    BY <1>1, <1>4, BecomesIdleTypes DEF LLMTimesOut
  <2>2. ASSUME At(a, "set"), Stored(call[a].prompt, call[a].text)
        PROVE  StoreTypes' /\ RecentTypes'
    <3>1. call[a].prompt \in Prompts /\ call[a].text \in Text
      BY <1>1, <2>2, AtIsCall
    <3>2. QED
      BY <1>1, <2>2, <3>1, StoredTypes
  <2>3. StoreTypes' /\ RecentTypes'
    BY <1>1, <1>4, <2>2, StoreTypesStay, RecentTypesStay DEF LLMTimesOut
  <2>4. QED
    BY <1>1, <2>1, <2>3 DEF RouterTypes, BudgetTypes
<1>5. ASSUME UNCHANGED <<call, store, recent, budget>> PROVE RouterTypes'
  BY <1>1, <1>5 DEF RouterTypes, CallTypes, StoreTypes, RecentTypes, BudgetTypes
<1>6. ASSUME NEW a \in Callers, NEW mail, ReceiveMessage(a, mail) PROVE RouterTypes'
  BY <1>5, <1>6 DEF ReceiveMessage, routerVars
<1>7. ASSUME NEW p \in Prompts, Expire(p) PROVE RouterTypes'
  <2>1. StoreTypes' /\ UNCHANGED <<call, recent, budget>>
    BY <1>1, <1>7 DEF Expire, StoreTypes
  <2>2. QED
    BY <1>1, <2>1 DEF RouterTypes, CallTypes, RecentTypes, BudgetTypes
<1>8. CASE Flush
  <2>1. StoreTypes' /\ recent' = <<>> /\ UNCHANGED <<call, budget>>
    BY <1>1, <1>8 DEF Flush, StoreTypes
  <2>2. RecentTypes'
    BY <2>1, RouterAssumption DEF RecentTypes, IsInjective
  <2>3. QED
    BY <1>1, <2>1, <2>2 DEF RouterTypes, CallTypes, BudgetTypes
<1>9. CASE NewDay \/ UNCHANGED vars
  BY <1>5, <1>9 DEF NewDay, vars, routerVars
<1>10. QED
  BY <1>2, <1>3, <1>4, <1>6, <1>7, <1>8, <1>9, RouterStepTypes DEF Next

-----------------------------------------------------------------------------
(* The requests sent for the units of a day                                  *)

LEMMA NextBudget == BudgetInv /\ CallTypes /\ [Next]_vars => BudgetInv'
<1> SUFFICES ASSUME BudgetInv, CallTypes, [Next]_vars PROVE BudgetInv'
  OBVIOUS
<1>1. ASSUME NEW a \in Callers, NEW obs, NEW situation, Act(a, obs, situation)
      PROVE  BudgetStays
  BY <1>1 DEF Act, BudgetStays
<1>2. ASSUME NEW a \in Callers, NEW mail, ReceiveMessage(a, mail) PROVE BudgetStays
  BY <1>2 DEF ReceiveMessage, routerVars, BudgetStays
<1>3. ASSUME NEW a \in Callers, Hear(a) \/ LLMTimesOut(a) PROVE BudgetStays
  BY <1>3 DEF Hear, LLMTimesOut, BudgetStays
<1>4. ASSUME NEW a \in Callers, RouterStep(a) PROVE BudgetInv'
  <2>1. CASE Consume(a)
    BY <2>1, ConsumeBudget
  <2>2. CASE SdkResends(a)
    <3>1. call[a] \in Call
      BY <2>2, AtIsCall DEF SdkResends
    <3> QED
      BY <2>2, <3>1, ResendBudget DEF Call
  <2>3. CASE ~Consume(a) /\ ~SdkResends(a)
    <3>1. BudgetStays
      BY <1>4, <2>3 DEF RouterStep, Get, Ollama, OpenRouter, Set, ListRecent, ReadRecent,
                        BudgetStays
    <3>2. QED
      BY <3>1, BudgetKept
  <2>4. QED
    BY <2>1, <2>2, <2>3
<1>5. ASSUME NEW p \in Prompts, Expire(p) PROVE BudgetStays
  BY <1>5 DEF Expire, BudgetStays
<1>6. CASE Flush \/ UNCHANGED vars
  BY <1>6, BudgetKept DEF Flush, vars, routerVars, BudgetStays
<1>7. QED
  BY <1>1, <1>2, <1>3, <1>4, <1>5, <1>6, NewDayBudget, BudgetKept DEF Next

\* Every request is for a unit that was taken, within the retries of the SDK.
RequestsInv ==
    /\ \A d \in Days : sent[d].requests \subseteq (1 .. sent[d].units) \X (0 .. SdkRetries)
    /\ \A c \in Callers : At(c, "waiting") =>
          call[c].request.unit \in 1 .. sent[call[c].request.day].units

\* Nobody comes to wait for OpenRouter.
NoneSends ==
    sent' = sent /\ \A c \in Callers : At(c, "waiting")' => call'[c] = call[c]

LEMMA NoneSendsKeeps == ASSUME RequestsInv, NoneSends PROVE RequestsInv'
BY DEF RequestsInv, NoneSends, At

\* A call that goes on, but not to OpenRouter.
LEMMA GoesOnElsewhere ==
    ASSUME CallTypes, NEW c \in Callers, sent' = sent, NEW r, r.pc # "waiting",
           call' = [call EXCEPT ![c] = r]
    PROVE  NoneSends
BY DEF CallTypes, NoneSends, At

LEMMA RouterNoneSends ==
    ASSUME CallTypes, NEW c \in Callers,
           Get(c) \/ Ollama(c) \/ OpenRouter(c) \/ Set(c) \/ ListRecent(c) \/ ReadRecent(c)
    PROVE  NoneSends
<1>1. sent' = sent
  BY DEF Get, Ollama, OpenRouter, Set, ListRecent, ReadRecent
<1>2. call[c] \in Call
  BY AtIsCall DEF Get, Ollama, OpenRouter, Set, ListRecent, ReadRecent
<1>3. ASSUME NEW pc, pc # "waiting", Goto(c, pc) PROVE NoneSends
  <2> DEFINE r == [call[c] EXCEPT !.pc = pc]
  <2>1. r.pc # "waiting" /\ call' = [call EXCEPT ![c] = r]
    BY <1>2, <1>3 DEF Goto, Call
  <2> HIDE DEF r
  <2> QED
    BY <1>1, <2>1, GoesOnElsewhere
<1>4. ASSUME NEW text, NEW source, Answered(c, text, source) PROVE NoneSends
  <2> DEFINE r == [call[c] EXCEPT !.pc = "done", !.text = text, !.source = source]
  <2>1. r.pc # "waiting" /\ call' = [call EXCEPT ![c] = r]
    BY <1>2, <1>4 DEF Answered, Call
  <2> HIDE DEF r
  <2> QED
    BY <1>1, <2>1, GoesOnElsewhere
<1>5. ASSUME NEW source, FromModel(c, source) PROVE NoneSends
  <2>1. PICK a \in Answers : call' = [call EXCEPT
            ![c].pc = IF call[c].allow_cache THEN "set" ELSE "done",
            ![c].text = [of |-> call[c].prompt, says |-> a], ![c].source = source,
            ![c].request = NoRequest]
    BY <1>5 DEF FromModel
  <2> DEFINE r == [call[c] EXCEPT !.pc = IF call[c].allow_cache THEN "set" ELSE "done",
                                  !.text = [of |-> call[c].prompt, says |-> a],
                                  !.source = source, !.request = NoRequest]
  <2>2. r.pc # "waiting"
    BY <1>2 DEF Call
  <2>3. call' = [call EXCEPT ![c] = r]
    BY <2>1
  <2> HIDE DEF r
  <2> QED
    BY <1>1, <2>2, <2>3, GoesOnElsewhere
<1>6. ASSUME NEW limit, NEW pc, pc # "waiting", FailsOrTimesOut(c, limit, pc)
      PROVE  NoneSends
  <2>1. PICK t \in {0, limit} :
           call' = [call EXCEPT ![c].pc = pc, ![c].spent = @ + t, ![c].request = NoRequest]
    BY <1>6 DEF FailsOrTimesOut
  <2> DEFINE r == [call[c] EXCEPT !.pc = pc, !.spent = @ + t, !.request = NoRequest]
  <2>2. r.pc # "waiting"
    BY <1>2, <1>6 DEF Call
  <2>3. call' = [call EXCEPT ![c] = r]
    BY <2>1
  <2> HIDE DEF r
  <2> QED
    BY <1>1, <2>2, <2>3, GoesOnElsewhere
<1>7. CASE Get(c)
  BY <1>3, <1>4, <1>7 DEF Get
<1>8. CASE Ollama(c)
  BY <1>5, <1>6, <1>8 DEF Ollama
<1>9. CASE OpenRouter(c)
  <2>1. AfterOpenRouter(c) # "waiting"
    BY DEF AfterOpenRouter
  <2> QED
    BY <1>5, <1>6, <1>9, <2>1 DEF OpenRouter
<1>10. CASE Set(c)
  BY <1>3, <1>10 DEF Set
<1>11. ASSUME NEW pc \in {"list", "recent"}, NEW walk, At(c, pc),
              call' = [call EXCEPT ![c].pc = "recent", ![c].walk = walk]
       PROVE  NoneSends
  <2> DEFINE r == [call[c] EXCEPT !.pc = "recent", !.walk = walk]
  <2>1. r.pc # "waiting" /\ call' = [call EXCEPT ![c] = r]
    BY <1>2, <1>11 DEF Call
  <2> HIDE DEF r
  <2> QED
    BY <1>1, <2>1, GoesOnElsewhere
<1>12. CASE ListRecent(c)
  BY <1>3, <1>11, <1>12 DEF ListRecent
<1>13. CASE ReadRecent(c)
  <2>1. ASSUME call' = [call EXCEPT ![c].walk = Tail(call[c].walk)] PROVE NoneSends
    <3> DEFINE r == [call[c] EXCEPT !.walk = Tail(call[c].walk)]
    <3>1. r.pc # "waiting" /\ call' = [call EXCEPT ![c] = r]
      BY <1>2, <1>13, <2>1 DEF Call, ReadRecent, At
    <3> HIDE DEF r
    <3> QED
      BY <1>1, <3>1, GoesOnElsewhere
  <2> QED
    BY <1>3, <1>4, <1>13, <2>1 DEF ReadRecent
<1> QED
  BY <1>7, <1>8, <1>9, <1>10, <1>12, <1>13

LEMMA RetriesAreNat == SdkRetries \in Nat
BY RouterAssumption

LEMMA ConsumeRequests ==
    ASSUME BudgetInv, CallTypes, RequestsInv, NEW c \in Callers, Consume(c)
    PROVE  RequestsInv'
<1>1. call[c] \in Call
  BY AtIsCall DEF Consume
<1>2. ASSUME SendFirst(c) PROVE RequestsInv'
  <2> DEFINE u == sent[today].units + 1
             r == [call[c] EXCEPT !.pc = "waiting",
                                  !.request = [day |-> today, unit |-> u, attempt |-> 0]]
  <2>1. /\ sent'[today].units = u
        /\ sent'[today].requests = sent[today].requests \union {<<u, 0>>}
        /\ \A d \in Days \ {today} : sent'[d] = sent[d]
    BY <1>2, SendsFirst
  <2>2. today \in Days /\ \A d \in Days : sent[d].units \in Nat
    BY DEF BudgetInv, OnDay
  <2>3. call' = [call EXCEPT ![c] = r]
    BY <1>2 DEF SendFirst
  <2>4. r.request.day = today /\ r.request.unit = u
    BY <1>1 DEF Call
  <2> HIDE DEF r
  <2>5. /\ call'[c].request.day = today /\ call'[c].request.unit = u
        /\ \A b \in Callers \ {c} : call'[b] = call[b]
    BY <2>3, <2>4 DEF CallTypes
  <2>6. \A d \in Days : sent[d].units <= sent'[d].units
    BY <2>1, <2>2
  <2>7. ASSUME NEW d \in Days
        PROVE  sent'[d].requests \subseteq (1 .. sent'[d].units) \X (0 .. SdkRetries)
    <3>1. CASE d = today
      <4>1. u \in Nat /\ u \in 1 .. u /\ 0 \in 0 .. SdkRetries
        BY <2>2, RetriesAreNat
      <4>2. sent[today].requests \subseteq (1 .. u) \X (0 .. SdkRetries)
        BY <2>2 DEF RequestsInv
      <4> QED
        BY <2>1, <3>1, <4>1, <4>2
    <3>2. CASE d # today
      BY <2>1, <3>2 DEF RequestsInv
    <3> QED
      BY <3>1, <3>2
  <2>8. ASSUME NEW b \in Callers, At(b, "waiting")'
        PROVE  call'[b].request.unit \in 1 .. sent'[call'[b].request.day].units
    <3>1. CASE b = c
      BY <2>1, <2>2, <2>5, <3>1
    <3>2. CASE b # c
      <4>1. At(b, "waiting") /\ call'[b] = call[b]
        BY <2>5, <2>8, <3>2 DEF At
      <4>2. call[b] \in Call
        BY <4>1, AtIsCall
      <4>3. call[b].request.day \in Days
        BY <4>2 DEF Call, Request
      <4>4. call[b].request.unit \in 1 .. sent[call[b].request.day].units
        BY <4>1 DEF RequestsInv
      <4>5. sent'[call[b].request.day].units \in Nat
        BY <2>1, <2>2, <4>3
      <4> QED
        BY <2>2, <2>6, <4>1, <4>3, <4>4, <4>5
    <3> QED
      BY <3>1, <3>2
  <2> QED
    BY <2>7, <2>8 DEF RequestsInv
<1>3. ASSUME Goto(c, AfterOpenRouter(c)), sent' = sent PROVE RequestsInv'
  <2> DEFINE r == [call[c] EXCEPT !.pc = AfterOpenRouter(c)]
  <2>1. r.pc # "waiting" /\ call' = [call EXCEPT ![c] = r]
    BY <1>1, <1>3 DEF Goto, Call, AfterOpenRouter
  <2> HIDE DEF r
  <2> QED
    BY <1>3, <2>1, GoesOnElsewhere, NoneSendsKeeps
<1> QED
  BY <1>2, <1>3 DEF Consume

LEMMA ResendRequests ==
    ASSUME BudgetInv, CallTypes, RequestsInv, NEW c \in Callers, SdkResends(c)
    PROVE  RequestsInv'
<1> DEFINE r == call[c].request
           q == [call[c] EXCEPT !.request = [r EXCEPT !.attempt = @ + 1]]
<1>1. call[c] \in Call /\ r \in Request
  <2>1. call[c] \in Call
    BY AtIsCall DEF SdkResends
  <2> QED
    BY <2>1 DEF Call
<1>2. r.day \in Days /\ r.unit \in Nat /\ r.attempt \in Nat
  BY <1>1 DEF Request
<1>3. /\ \A d \in Days : sent'[d].units = sent[d].units
      /\ sent'[r.day].requests = sent[r.day].requests \union {<<r.unit, r.attempt + 1>>}
      /\ \A d \in Days \ {r.day} : sent'[d] = sent[d]
  BY <1>1, SendsAgain
<1>4. call' = [call EXCEPT ![c] = q] /\ r.attempt < SdkRetries /\ At(c, "waiting")
  BY DEF SdkResends
<1>5. q.request.day = r.day /\ q.request.unit = r.unit
  BY <1>1 DEF Call, Request
<1>6. r.unit \in 1 .. sent[r.day].units /\ r.attempt + 1 \in 0 .. SdkRetries
  BY <1>2, <1>4, RetriesAreNat DEF RequestsInv
<1> HIDE DEF q, r
<1>7. ASSUME NEW d \in Days
      PROVE  sent'[d].requests \subseteq (1 .. sent'[d].units) \X (0 .. SdkRetries)
  <2>1. CASE d = r.day
    <3>1. sent[d].requests \subseteq (1 .. sent[d].units) \X (0 .. SdkRetries)
      BY DEF RequestsInv
    <3> QED
      BY <1>3, <1>6, <2>1, <3>1
  <2>2. CASE d # r.day
    BY <1>3, <2>2 DEF RequestsInv
  <2> QED
    BY <2>1, <2>2
<1>8. ASSUME NEW b \in Callers, At(b, "waiting")'
      PROVE  call'[b].request.unit \in 1 .. sent'[call'[b].request.day].units
  <2>1. CASE b = c
    <3>1. call'[b] = q
      BY <1>4, <2>1 DEF CallTypes
    <3> QED
      BY <1>2, <1>3, <1>5, <1>6, <3>1
  <2>2. CASE b # c
    <3>1. At(b, "waiting") /\ call'[b] = call[b]
      BY <1>4, <1>8, <2>2 DEF At, CallTypes
    <3>2. call[b] \in Call
      BY <3>1, AtIsCall
    <3>3. call[b].request.day \in Days
      BY <3>2 DEF Call, Request
    <3> QED
      BY <1>3, <3>1, <3>3 DEF RequestsInv
  <2> QED
    BY <2>1, <2>2
<1> QED
  BY <1>7, <1>8 DEF RequestsInv

LEMMA NextRequests ==
    BudgetInv /\ CallTypes /\ RequestsInv /\ [Next]_vars => RequestsInv'
<1> SUFFICES ASSUME BudgetInv, CallTypes, RequestsInv, [Next]_vars PROVE RequestsInv'
  OBVIOUS
<1>1. ASSUME NEW a \in Callers, NEW obs, NEW situation, Act(a, obs, situation)
      PROVE  NoneSends
  <2>1. CASE Reason(a, obs, situation)
    <3> DEFINE r == Asked(<<a, situation>>, TRUE)
    <3>1. r.pc # "waiting" /\ call' = [call EXCEPT ![a] = r] /\ sent' = sent
      BY <1>1, <2>1 DEF Act, Reason, Asked
    <3> HIDE DEF r
    <3> QED
      BY <3>1, GoesOnElsewhere
  <2>2. CASE UNCHANGED call
    BY <1>1, <2>2 DEF Act, NoneSends
  <2> QED
    BY <1>1, <2>1, <2>2 DEF Act
<1>2. ASSUME NEW a \in Callers, Hear(a) \/ LLMTimesOut(a) PROVE NoneSends
  <2>1. Idle.pc # "waiting" /\ call' = [call EXCEPT ![a] = Idle] /\ sent' = sent
    BY <1>2 DEF Hear, LLMTimesOut, Idle
  <2> QED
    BY <2>1, GoesOnElsewhere
<1>3. ASSUME UNCHANGED <<call, sent>> PROVE NoneSends
  BY <1>3 DEF NoneSends
<1>4. ASSUME NEW a \in Callers, NEW mail, ReceiveMessage(a, mail) PROVE NoneSends
  BY <1>3, <1>4 DEF ReceiveMessage, routerVars
<1>5. ASSUME NEW p \in Prompts, Expire(p) PROVE NoneSends
  BY <1>3, <1>5 DEF Expire
<1>6. CASE Flush \/ NewDay \/ UNCHANGED vars
  BY <1>3, <1>6, NoneSendsKeeps DEF Flush, NewDay, vars, routerVars
<1>7. ASSUME NEW a \in Callers, RouterStep(a) PROVE RequestsInv'
  BY <1>7, ConsumeRequests, ResendRequests, RouterNoneSends, NoneSendsKeeps DEF RouterStep
<1> QED
  BY <1>1, <1>2, <1>4, <1>5, <1>6, <1>7, NoneSendsKeeps DEF Next

\* Units times attempts are as many pairs as their product says.
LEMMA PairsAreFew ==
    ASSUME NEW n \in Nat, NEW S, S \subseteq (1 .. n) \X (0 .. SdkRetries),
           n <= DailyLimit
    PROVE  Cardinality(S) <= DailyLimit * (SdkRetries + 1)
<1> DEFINE U == 1 .. DailyLimit
           A == 0 .. SdkRetries
<1>1. IsFiniteSet(U) /\ Cardinality(U) = DailyLimit
  BY LimitIsNat, FS_Interval
<1>2. IsFiniteSet(A) /\ Cardinality(A) = SdkRetries + 1
  BY RetriesAreNat, FS_Interval
<1>3. IsFiniteSet(U \X A) /\ Cardinality(U \X A) = DailyLimit * (SdkRetries + 1)
  BY <1>1, <1>2, FS_Product
<1>4. S \subseteq U \X A
  BY LimitIsNat
<1> HIDE DEF U, A
<1>5. Cardinality(S) <= Cardinality(U \X A)
  BY <1>3, <1>4, FS_Subset
<1> QED
  BY <1>3, <1>5

\* Over any number of days and callers no day lets more calls through than its budget has
\* units, nor are more requests sent for them than the SDK's retries allow.
THEOREM BudgetIsHeld == Spec => []BudgetHeld
<1> DEFINE Inv == RouterTypes /\ BudgetInv /\ RequestsInv
<1>1. Init => Inv
  <2>1. RouterInit => RequestsInv
    BY DEF RouterInit, RequestsInv, At, Idle
  <2> QED
    BY <2>1, InitRouterTypes, InitBudget DEF Init
<1>2. Inv /\ [Next]_vars => Inv'
  BY NextRouterTypes, NextBudget, NextRequests DEF RouterTypes
<1>3. Inv => BudgetHeld
  <2> SUFFICES ASSUME Inv, NEW d \in Days
               PROVE  /\ sent[d].units <= DailyLimit
                      /\ Cardinality(sent[d].requests) <= DailyLimit * (SdkRetries + 1)
    BY DEF BudgetHeld
  <2>1. sent[d].units \in Nat /\ sent[d].units <= DailyLimit
    BY DEF BudgetInv, OnDay
  <2>2. sent[d].requests \subseteq (1 .. sent[d].units) \X (0 .. SdkRetries)
    BY DEF RequestsInv
  <2> QED
    BY <2>1, <2>2, PairsAreFew
<1>4. QED
  BY <1>1, <1>2, <1>3, PTL DEF Spec

-----------------------------------------------------------------------------
(* The types of the team                                                     *)

TeamTypes ==
    /\ mailbox \in [Callers -> Seq(Message)]
    /\ authorized \subseteq Mails
    /\ outcome \in [Callers -> Outcomes]
    /\ acts \in 0 .. MaxActs
    /\ received \in [Callers -> Seq(Message)]
    /\ shown \in [Callers -> Seq(Message)]

\* Whatever an answer names, the agent takes a tool it has.
LEMMA ChosenIsAction == ASSUME NEW a \in ROLES, NEW answer PROVE Chosen(a, answer) \in ActionTypes
<1>1. Tools[a].known \subseteq ActionTypes
  BY DEF ActionTypes
<1>2. /\ Tools[a].default \in ActionTypes
      /\ a \in {"diagnostics", "security", "database"} => "send_message" \in ActionTypes
  <2>1. CASE a = "incident_commander"
    <3>1. Tools[a].default \in Tools[a].known
      BY <2>1 DEF Tools, CommanderTools
    <3>2. QED
      BY <1>1, <2>1, <3>1
  <2>2. CASE a = "remediation"
    <3>1. Tools[a].default \in Tools[a].known
      BY <2>2 DEF Tools, RemediationTools
    <3>2. QED
      BY <1>1, <2>2, <3>1
  <2>3. CASE a = "diagnostics"
    <3>1. Tools[a].default \in Tools[a].known /\ "send_message" \in Tools[a].known
      BY <2>3 DEF Tools, DiagnosticsTools
    <3>2. QED
      BY <1>1, <3>1
  <2>4. CASE a = "security"
    <3>1. Tools[a].default \in Tools[a].known /\ "send_message" \in Tools[a].known
      BY <2>4 DEF Tools, SecurityTools
    <3>2. QED
      BY <1>1, <3>1
  <2>5. CASE a = "database"
    <3>1. Tools[a].default \in Tools[a].known /\ "send_message" \in Tools[a].known
      BY <2>5 DEF Tools, DatabaseTools
    <3>2. QED
      BY <1>1, <3>1
  <2>6. QED
    BY <2>1, <2>2, <2>3, <2>4, <2>5 DEF ROLES
<1>3. QED
  BY <1>1, <1>2 DEF Chosen

LEMMA DecideTypes ==
    ASSUME TeamTypes, NEW a \in Callers, NEW answer, Decide(a, answer)
    PROVE  outcome' \in [Callers -> Outcomes] /\ authorized' \subseteq Mails
<1> DEFINE tool == Chosen(a, answer)
<1>1. a \in ROLES
  BY TeamAssumption
<1>2. tool \in Outcomes
  BY <1>1, ChosenIsAction DEF Outcomes
<1>3. "request_authorization" \in Outcomes
  <2>1. "request_authorization" \in Tools["remediation"].known /\ "remediation" \in ROLES
    BY DEF Tools, RemediationTools, ROLES
  <2>2. QED
    BY <2>1 DEF Outcomes, ActionTypes
<1> HIDE DEF tool
<1>4. \/ outcome' = [outcome EXCEPT ![a] = tool]
      \/ outcome' = [outcome EXCEPT ![a] = "request_authorization"]
  BY DEF Decide, tool
<1>5. authorized' \subseteq authorized
  BY DEF Decide
<1>6. outcome' \in [Callers -> Outcomes]
  BY <1>2, <1>3, <1>4 DEF TeamTypes
<1>7. QED
  BY <1>5, <1>6 DEF TeamTypes

LEMMA ActTypes ==
    ASSUME TeamTypes, NEW a \in Callers, NEW obs, NEW situation, Act(a, obs, situation)
    PROVE  TeamTypes'
<1>1. acts' \in 0 .. MaxActs /\ received' = received
  BY TeamAssumption DEF Act, TeamTypes
<1>2. CASE Reason(a, obs, situation)
  <2>1. mailbox[a] \in Seq(Message) /\ shown[a] \in Seq(Message) /\ <<>> \in Seq(Message)
    BY DEF TeamTypes
  <2>2. shown[a] \o mailbox[a] \in Seq(Message)
    BY <2>1
  <2>3. shown' \in [Callers -> Seq(Message)]
    BY <1>2, <2>2 DEF Reason, TeamTypes
  <2>4. mailbox' \in [Callers -> Seq(Message)]
    BY <1>2, <2>1 DEF Reason, TeamTypes
  <2>5. Authorizations(mailbox[a]) \subseteq Mails
    <3> DEFINE t == mailbox[a]
    <3>1. \A i \in DOMAIN t : t[i] \in Message
      BY <2>1
    <3>2. \A i \in DOMAIN t : t[i].authorizes \in Mails
      BY <3>1 DEF Message
    <3> HIDE DEF t
    <3>3. Authorizations(t) \subseteq Mails
      BY <3>2 DEF Authorizations
    <3>4. QED
      BY <3>3 DEF t
  <2>6. authorized' \subseteq Mails /\ outcome' = outcome
    BY <1>2, <2>5 DEF Reason, TeamTypes
  <2>7. QED
    BY <1>1, <2>3, <2>4, <2>6 DEF TeamTypes
<1>3. CASE Raises(a) /\ UNCHANGED <<mailbox, authorized, shown>>
  <2>1. outcome' \in [Callers -> Outcomes]
    BY <1>3 DEF Raises, TeamTypes, Outcomes
  <2>2. QED
    BY <1>1, <1>3, <2>1 DEF TeamTypes
<1>4. QED
  BY <1>2, <1>3 DEF Act

LEMMA ReceiveTypes ==
    ASSUME TeamTypes, NEW a \in Callers, NEW mail \in Mails, ReceiveMessage(a, mail)
    PROVE  TeamTypes'
<1> DEFINE n == Len(received[a])
           m == [id |-> n + 1, authorizes |-> mail]
<1>1. n \in Nat /\ n < MaxMessages
  BY DEF TeamTypes, ReceiveMessage
<1>2. m \in Message
  BY <1>1, TeamAssumption DEF Message
<1>3. /\ mailbox' = [mailbox EXCEPT ![a] = Append(@, m)]
      /\ received' = [received EXCEPT ![a] = Append(@, m)]
      /\ UNCHANGED <<authorized, outcome, acts, shown>>
  BY DEF ReceiveMessage
<1> HIDE DEF m
<1>4. mailbox' \in [Callers -> Seq(Message)] /\ received' \in [Callers -> Seq(Message)]
  BY <1>2, <1>3 DEF TeamTypes
<1>5. QED
  BY <1>3, <1>4 DEF TeamTypes

LEMMA NextTeamTypes == TeamTypes /\ [Next]_vars => TeamTypes'
<1> SUFFICES ASSUME TeamTypes, [Next]_vars PROVE TeamTypes'
  OBVIOUS
<1>1. ASSUME NEW a \in Callers, Hear(a) PROVE TeamTypes'
  <2>1. UNCHANGED <<mailbox, acts, received, shown>>
    BY <1>1 DEF Hear
  <2>2. CASE Raises(a) /\ authorized' = authorized
    <3>1. outcome' \in [Callers -> Outcomes]
      BY <2>2 DEF Raises, TeamTypes, Outcomes
    <3>2. QED
      BY <2>1, <2>2, <3>1 DEF TeamTypes
  <2>3. ASSUME NEW answer, Decide(a, answer) PROVE TeamTypes'
    BY <2>1, <2>3, DecideTypes DEF TeamTypes
  <2>4. QED
    BY <1>1, <2>2, <2>3 DEF Hear
<1>2. ASSUME NEW a \in Callers, LLMTimesOut(a) PROVE TeamTypes'
  <2>1. UNCHANGED <<mailbox, acts, received, shown>> /\ Decide(a, NoAnswer)
    BY <1>2 DEF LLMTimesOut
  <2>2. QED
    BY <2>1, DecideTypes DEF TeamTypes
<1>3. CASE UNCHANGED agentVars \/ UNCHANGED vars
  BY <1>3 DEF TeamTypes, agentVars, vars
<1>4. QED
  BY <1>1, <1>2, <1>3, ActTypes, ReceiveTypes DEF Next

\* The router and the team keep their types: the recent keys stay distinct and within
\* their limit, and whatever a model answers is read as an action the role knows.
THEOREM TypeCorrect == Spec => []TypeOK
<1> DEFINE Inv == RouterTypes /\ BudgetInv /\ MailInv /\ GrantInv /\ TeamTypes
<1>1. Init => Inv
  <2>1. Init => RouterTypes /\ BudgetInv
    BY InitRouterTypes, InitBudget DEF Init
  <2>2. Init => TeamTypes
    BY TeamAssumption DEF Init, TeamTypes, Outcomes
  <2>3. QED
    BY <2>1, <2>2, InitGrants
<1>2. Inv /\ [Next]_vars => Inv'
  BY NextRouterTypes, NextBudget, NextMail, NextGrants, NextTeamTypes DEF RouterTypes
<1>3. Inv => TypeOK
  <2> SUFFICES ASSUME Inv PROVE TypeOK
    OBVIOUS
  <2>1. budget \in [count : 0 .. DailyLimit, date : Days]
    BY LimitIsNat DEF BudgetInv, RouterTypes, BudgetTypes
  <2>2. today \in Days /\ sent \in [Days -> [units : Nat, requests : SUBSET (Nat \X Nat)]]
    BY DEF BudgetInv, OnDay
  <2>3. RouterTypeOK
    BY <2>1, <2>2 DEF RouterTypeOK, RouterTypes, CallTypes, StoreTypes, RecentTypes
  <2>4. used \in [DANGEROUS_ACTIONS -> Nat]
    BY DEF GrantInv
  <2>5. QED
    BY <2>3, <2>4 DEF TypeOK, TeamTypes
<1>4. QED
  BY <1>1, <1>2, <1>3, PTL DEF Spec
=============================================================================
