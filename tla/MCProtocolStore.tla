--------------------------- MODULE MCProtocolStore ---------------------------
\* ProtocolStore for TLC: two commands of one entity and one of another.
EXTENDS ProtocolStore

MCSubmissions ==
    {[entity |-> "one", key |-> "a"], [entity |-> "one", key |-> "b"], [entity |-> "two", key |-> "a"]}
=============================================================================
