SPECIFICATION Spec
CONSTANTS
    Texts <- AnyText
    Usages <- SomeUsages
    MaxChunks = 3
INVARIANT NoDocumentAfterHeaders
CHECK_DEADLOCK FALSE
