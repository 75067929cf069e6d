CONSTANT Chunks = 24
SPECIFICATION Spec
INVARIANTS SourcesDecode CompletenessExact
