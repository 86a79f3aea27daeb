SPECIFICATION MCSpec
CHECK_DEADLOCK FALSE
CONSTANTS
    c1 = c1
    c2 = c2
    c3 = c3
    c4 = c4
    Calls = {c1, c2, c3, c4}
    Scopes = {"direct", "linked"}
    None = None
    Original = None
    Cancels = TRUE
    Tool <- MCTool
    Spelling <- MCSpelling
INVARIANTS TypeOK OneMutationAtATime FirstInFirstOut QueueDropped RegistrationInOrder
    EditsKept ProviderHonest SkillsFound TextsExact
PROPERTY CallsSettle
