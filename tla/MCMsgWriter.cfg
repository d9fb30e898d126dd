SPECIFICATION Spec
CONSTANTS
    Names <- MCNames
    Payloads <- MCPayloads
    Identifiers <- MCIdentifiers
INVARIANT TypeOK
INVARIANT WriterClosedExactlyOnce
INVARIANT InvalidWritesNothing
INVARIANT RoundTrip
