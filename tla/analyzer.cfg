SPECIFICATION Spec
CONSTANT MaxTokens = 4
INVARIANTS SnippetShowsConstruct ReportIsTheCode SecretsAreCovered ExitAgreesWithBoxes
\* the analyzer exits
CHECK_DEADLOCK FALSE
