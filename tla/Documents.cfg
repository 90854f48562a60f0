\* Packed graphs, documents that run and import one another, nested workflows with
\* requirements at every level, two budgets.
SPECIFICATION Spec
CONSTANTS
    Terms <- MCTerms
    Vocabulary <- MCVocabulary
    Namespaces <- MCNamespaces
    Loads <- AllLoads
    Declarations <- MCDeclarations
    Directives <- MCDirectives
    ForeignKeys <- MCForeign
    Handlers <- MCHandlers
    CoreClasses <- Core
    AllowRequirements = {"acme#Trusted"}
    WorkflowOnly <- MCWorkflowOnly
    V10Renames <- MCRenames
    V10Defaults <- MCDefaults
    Budgets <- MCBudgets
INVARIANTS
    InnermostLinks
    CyclesRefused
    RunsWhatItNames
    InheritedThroughLevels
    ExtendedStaysValid
    GrantedInFull
\* A load is refused or a run reaches a tool.
CHECK_DEADLOCK FALSE
