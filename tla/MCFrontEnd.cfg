CONSTANTS
    Texts <- MCTexts
    Sentences <- MCSentences
    Queries <- MCQueries
    Declared <- MCDeclared
SPECIFICATION FESpec
INVARIANTS
    NeverLost
    GroupsAsOperatorsBind
PROPERTIES
    VerdictRight
    Answered
