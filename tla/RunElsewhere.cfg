\* A document that declares a name which a document it runs declares too.
SPECIFICATION Spec
CONSTANTS
    Terms <- MCTerms
    Vocabulary <- MCVocabulary
    Namespaces <- MCNamespaces
    Loads <- Clashing
    Declarations <- MCDeclarations
    Directives <- MCDirectives
    ForeignKeys <- MCForeign
    Handlers <- MCHandlers
    CoreClasses <- Core
    AllowRequirements = {"acme#Trusted"}
    WorkflowOnly <- MCWorkflowOnly
    V10Renames <- MCRenames
    V10Defaults <- MCDefaults
    Budgets <- MCBudgets
INVARIANT RunsWhatItNames
\* A load is refused or a run reaches a tool.
CHECK_DEADLOCK FALSE
