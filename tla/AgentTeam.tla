----------------------------- MODULE AgentTeam ------------------------------
(***************************************************************************)
(* The agents of chaosmesh_arena/agents/ and the router they share: the    *)
(* act() loop of BaseAgent, what each role makes of a model's answer, the  *)
(* messages they are given, and the authorizations of RemediationAgent.    *)
(*                                                                         *)
(* Who calls act() and receive_message() is left open: any agent may act   *)
(* when it has returned, and a message may come while it waits for its     *)
(* answer.  The awaits before and after that, which look up and store a    *)
(* memory, change nothing an agent decides by and are not steps of their   *)
(* own.  Of an observation there is what a prompt depends on, of an answer *)
(* the tool it names and whether it is sure of itself; targets, parameters *)
(* and the wording of prompts are left out.                                *)
(***************************************************************************)
EXTENDS LLMRouter

CONSTANTS
    LLM_TIMEOUT,
    Situations,      \* what can be different in two prompts of one agent
    Mails,           \* the kinds of messages agents are sent
    MaxActs,         \* bound on the calls of act()
    MaxMessages      \* bound on the messages an agent receives

ROLES == {"incident_commander", "diagnostics", "remediation", "security", "database"}
DANGEROUS_ACTIONS ==
    {"rollback_deployment", "drain_node", "scale_deployment", "isolate_pod"}
\* JSON of which act() can make no action: it raises.
Malformed == [tool |-> "malformed", sure |-> FALSE]

\* The tools an answer of a role may name, and the one taken for another name.
CommanderTools ==
    [known |-> {"broadcast_status", "grant_authorization", "declare_resolved",
                "escalate", "send_message", "request_authorization", "noop"},
     default |-> "broadcast_status"]

DiagnosticsTools ==
    [known |-> {"get_logs", "query_metrics", "describe_pod", "describe_node",
                "query_traces", "send_message", "noop"},
     default |-> "get_logs"]

RemediationTools ==
    [known |-> DANGEROUS_ACTIONS \union {"restart_pod", "update_config",
                "request_authorization", "send_message", "noop"},
     default |-> "noop"]

SecurityTools ==
    [known |-> {"scan_traffic", "query_metrics", "get_logs", "isolate_pod",
                "send_message", "noop"},
     default |-> "scan_traffic"]

DatabaseTools ==
    [known |-> {"query_db_stats", "query_metrics", "get_logs", "describe_pod",
                "send_message", "noop"},
     default |-> "noop"]

Tools == [incident_commander |-> CommanderTools, diagnostics |-> DiagnosticsTools,
          remediation |-> RemediationTools, security |-> SecurityTools,
          database |-> DatabaseTools]

ActionTypes == UNION {Tools[r].known : r \in ROLES}

ASSUME TeamAssumption ==
    /\ Callers \subseteq ROLES /\ Prompts = Callers \X Situations /\ ChatPrompts = {}
    /\ LLM_TIMEOUT \in Nat /\ MaxActs \in Nat /\ MaxMessages \in Nat
    /\ Answers \subseteq [tool : STRING, sure : BOOLEAN]

VARIABLES
    mailbox,         \* _message_queue: agent -> the messages it has not looked at
    authorized,      \* _authorized_actions of the remediation agent
    outcome,         \* agent -> what its last act() came to
    acts,            \* the number of calls of act()
    received,        \* history: agent -> the messages it was given
    shown,           \* history: agent -> the messages that were put into a prompt
    used             \* history: dangerous action -> times remediation issued it

agentVars == <<mailbox, authorized, outcome, acts, received, shown, used>>
vars == <<routerVars, agentVars>>

Outcomes == ActionTypes \union {"none", "raised"}

\* A message is its number and what it authorizes, if it does.
Message == [id : 1 .. MaxMessages, authorizes : Mails]

Init ==
    /\ RouterInit
    /\ mailbox = [a \in Callers |-> <<>>]
    /\ authorized = {}
    /\ outcome = [a \in Callers |-> "none"]
    /\ acts = 0
    /\ received = [a \in Callers |-> <<>>]
    /\ shown = [a \in Callers |-> <<>>]
    /\ used = [d \in DANGEROUS_ACTIONS |-> 0]

ReceiveMessage(a, mail) ==
    LET m == [id |-> Len(received[a]) + 1, authorizes |-> mail]
    IN  /\ Len(received[a]) < MaxMessages
        /\ mailbox' = [mailbox EXCEPT ![a] = Append(@, m)]
        /\ received' = [received EXCEPT ![a] = Append(@, m)]
        /\ UNCHANGED <<routerVars, authorized, outcome, acts, shown, used>>

-----------------------------------------------------------------------------
(* act                                                                       *)

\* What the prompt of a role depends on, and with which of it _reason puts the messages
\* that came into the prompt and empties the mailbox.  The commander reads those of the
\* observation instead.
CommanderPrompts == [observed |-> {"nothing", "messages"}, mailed |-> {}]
DiagnosticsPrompts == [observed |-> {"nothing"}, mailed |-> {"nothing"}]
RemediationPrompts == [observed |-> {"nothing"}, mailed |-> {"nothing"}]
SecurityPrompts == [observed |-> {"nothing"}, mailed |-> {"nothing"}]
\* With nothing for the database agent to do its prompt ends early.
DatabasePrompts == [observed |-> {"nothing", "db_relevant"}, mailed |-> {"db_relevant"}]

Prompting == [incident_commander |-> CommanderPrompts, diagnostics |-> DiagnosticsPrompts,
              remediation |-> RemediationPrompts, security |-> SecurityPrompts,
              database |-> DatabasePrompts]

Observations(a) == Prompting[a].observed
Flushes(a, obs) == obs \in Prompting[a].mailed

Authorizations(messages) ==
    {messages[i].authorizes : i \in DOMAIN messages} \ {"finding"}

\* act() up to its call of the router: the prompt is built, with the messages that came.
Reason(a, obs, situation) ==
    /\ shown' = [shown EXCEPT ![a] = IF Flushes(a, obs) THEN @ \o mailbox[a] ELSE @]
    /\ mailbox' = [mailbox EXCEPT ![a] = IF Flushes(a, obs) THEN <<>> ELSE @]
    /\ authorized' = IF a = "remediation"
                     THEN authorized \union Authorizations(mailbox[a]) ELSE authorized
    /\ call' = [call EXCEPT ![a] = Asked(<<a, situation>>, TRUE)]
    /\ UNCHANGED outcome

Raises(a) == outcome' = [outcome EXCEPT ![a] = "raised"]

\* The commander compares the type of each message with one that does not exist.
Act(a, obs, situation) ==
    /\ call[a] = Idle /\ acts < MaxActs
    /\ acts' = acts + 1
    /\ \/ obs # "messages" /\ Reason(a, obs, situation)
       \/ obs = "messages" /\ Raises(a) /\ UNCHANGED <<call, mailbox, authorized, shown>>
    /\ UNCHANGED <<store, recent, budget, today, sent, received, used>>

\* The tool an answer makes the agent use.  A sure answer of an investigator becomes a
\* message, but for an isolation.
Chosen(a, answer) ==
    LET tool == IF answer.tool \in Tools[a].known THEN answer.tool ELSE Tools[a].default
    IN  IF /\ a \in {"diagnostics", "security", "database"}
           /\ answer.sure /\ tool \notin {"noop", "isolate_pod"}
        THEN "send_message" ELSE tool

\* Seeded fault: an authorization is kept after its use.
Decide_KeepsGrant(a, answer) ==
    LET tool == Chosen(a, answer)
        dangerous == a = "remediation" /\ tool \in DANGEROUS_ACTIONS
        granted == dangerous /\ tool \in authorized
    IN  /\ outcome' = [outcome EXCEPT ![a] =
                IF dangerous /\ ~granted THEN "request_authorization" ELSE tool]
        /\ used' = IF granted THEN [used EXCEPT ![tool] = @ + 1] ELSE used
        /\ UNCHANGED authorized

\* _parse_action.  The remediation agent asks for an authorization instead of a dangerous
\* action it has none for, and uses one up for each it has.
Decide(a, answer) ==
    LET tool == Chosen(a, answer)
        dangerous == a = "remediation" /\ tool \in DANGEROUS_ACTIONS
        granted == dangerous /\ tool \in authorized
    IN  /\ outcome' = [outcome EXCEPT ![a] =
                IF dangerous /\ ~granted THEN "request_authorization" ELSE tool]
        /\ authorized' = IF granted THEN authorized \ {tool} ELSE authorized
        /\ used' = IF granted THEN [used EXCEPT ![tool] = @ + 1] ELSE used

NoAnswer == [tool |-> "noop", sure |-> FALSE]

\* Seeded fault: the mailbox is emptied when the answer is there.
Hear_EmptiesMailbox(a) ==
    /\ At(a, "done")
    /\ call' = [call EXCEPT ![a] = Idle]
    /\ mailbox' = [mailbox EXCEPT ![a] = <<>>]
    /\ Decide(a, NoAnswer)
    /\ UNCHANGED <<store, recent, budget, today, sent, acts, received, shown>>

\* The rest of act() with the router's text.  One with nothing in it, the stub and one
\* that is no JSON are read as an empty object.
Hear(a) ==
    /\ At(a, "done")
    /\ call' = [call EXCEPT ![a] = Idle]
    /\ LET says == call[a].text.says
       IN  CASE says = Malformed -> Raises(a) /\ UNCHANGED <<authorized, used>>
             [] says = Empty     -> Decide(a, NoAnswer)
             [] OTHER            -> Decide(a, says)
    /\ UNCHANGED <<store, recent, budget, today, sent, mailbox, acts, received, shown>>

\* Seeded fault: the time that Redis takes is not limited.
MayTimeOut_ModelsOnly(a) ==
    \/ At(a, "ollama") /\ call[a].spent + OllamaTimeout >= LLM_TIMEOUT
    \/ At(a, "waiting") /\ call[a].spent + OpenRouterTimeout >= LLM_TIMEOUT

\* When the time of the whole call may be over: Redis can hold it up for ever, a model
\* until its own limit.
MayTimeOut(a) ==
    \/ call[a].pc \in {"get", "set", "list", "recent"}
    \/ At(a, "ollama") /\ call[a].spent + OllamaTimeout >= LLM_TIMEOUT
    \/ At(a, "waiting") /\ call[a].spent + OpenRouterTimeout >= LLM_TIMEOUT

\* act() cancels the call and goes on as if it had been told to do nothing.  A set that
\* is cancelled may have been carried out.
LLMTimesOut(a) ==
    /\ MayTimeOut(a)
    /\ call' = [call EXCEPT ![a] = Idle]
    /\ \/ At(a, "set") /\ Stored(call[a].prompt, call[a].text)
       \/ UNCHANGED <<store, recent>>
    /\ Decide(a, NoAnswer)
    /\ UNCHANGED <<budget, today, sent, mailbox, acts, received, shown>>

Next ==
    \/ \E a \in Callers :
          \/ \E obs \in Observations(a), situation \in Situations : Act(a, obs, situation)
          \/ \E mail \in Mails : ReceiveMessage(a, mail)
          \/ Hear(a) \/ LLMTimesOut(a)
          \/ RouterStep(a) /\ UNCHANGED agentVars
    \/ (\E p \in Prompts : Expire(p)) /\ UNCHANGED agentVars
    \/ (Flush \/ NewDay) /\ UNCHANGED agentVars

\* Timers fire and the event loop is fair.  Redis need not answer: act() does not wait
\* for it for ever.
Spec ==
    /\ Init /\ [][Next]_vars
    /\ \A a \in Callers :
          WF_vars(Hear(a) \/ LLMTimesOut(a) \/ (ModelStep(a) /\ UNCHANGED agentVars))

-----------------------------------------------------------------------------
\* The variables of the router and of the agents keep their types.
TypeOK ==
    /\ RouterTypeOK
    /\ mailbox \in [Callers -> Seq(Message)]
    /\ authorized \subseteq Mails
    /\ outcome \in [Callers -> Outcomes]
    /\ acts \in 0 .. MaxActs
    /\ received \in [Callers -> Seq(Message)]
    /\ shown \in [Callers -> Seq(Message)]
    /\ used \in [DANGEROUS_ACTIONS -> Nat]

GrantsIn(messages, d) == {i \in DOMAIN messages : messages[i].authorizes = d}
Grants(d) ==
    IF "remediation" \in Callers THEN Cardinality(GrantsIn(received["remediation"], d)) ELSE 0

\* The remediation agent issues a dangerous action at most as often as it was authorized
\* to, whatever texts it is answered: late, cached or meant for another prompt.
DangerousNeedsGrant == \A d \in DANGEROUS_ACTIONS : used[d] <= Grants(d)

\* A message is put into one prompt, in the order of arrival, also when it comes while
\* the agent waits for an answer; until then it is in the mailbox.
ShownOnce == \A a \in Callers : shown[a] \o mailbox[a] = received[a]

\* Whatever the models and Redis do, act() ends: with an action or with an exception.
ActsEnd == \A a \in Callers : call[a] # Idle ~> call[a] = Idle
=============================================================================
