SPECIFICATION GrammarSpec
CONSTANTS
    MaxName = 2
    MaxVersion = 2
    NotAString = NotAString
    Requests <- AllRequests
    LockKeys <- AllKeys
    Specs <- AllSpecs
INVARIANTS
    KeysNameRequests
    RequirementsAreFetchable
