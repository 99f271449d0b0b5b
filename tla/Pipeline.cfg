\* One note, every kind of rule, reply and chain.  A run ends: no deadlock check.
SPECIFICATION FairSpec
CONSTANTS
    Malformed <- MCMalformed
    MaxConf = 3
    Threshold = 2
    NaN = NaN
    Unparsable = Unparsable
    NonDict = NonDict
    TagIds <- MCTagIds
    TagLoads <- MCTagLoads
    RuleLoads <- MCRuleLoads
    Texts <- MCTexts
    Replies <- MCReplies
    ForeignLists <- MCForeignLists

CHECK_DEADLOCK FALSE
INVARIANTS
    TypeOK
    RulesExact
    RulesLead
    LLMInBand
    OrderDecided
    LLMComplete
    RaisesOnlyOnPattern
PROPERTIES
    Terminates
    ImplementsNoteTagging
