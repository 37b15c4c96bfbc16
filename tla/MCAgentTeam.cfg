SPECIFICATION Spec
CONSTANTS
    Callers = {"remediation", "incident_commander"}
    Situations = {1}
    Prompts <- MCPrompts
    ChatPrompts = {}
    Answers <- MCAnswers
    Empty <- MCEmpty
    DailyLimit = 1
    SdkRetries = 1
    RecentLimit = 1
    OllamaTimeout = 30
    OpenRouterTimeout = 20
    LLM_TIMEOUT = 30
    Mails = {"isolate_pod"}
    MaxDays = 2
    MaxActs = 2
    MaxMessages = 2
INVARIANTS
    TypeOK
    BudgetHeld
    AnswersItsPrompt
    DangerousNeedsGrant
    ShownOnce
PROPERTY
    ActsEnd
CHECK_DEADLOCK FALSE
