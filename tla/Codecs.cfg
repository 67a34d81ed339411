SPECIFICATION Spec
INVARIANTS RoundTrip ValidHasWhatHandlersRead    SessionAttrsDecode
CHECK_DEADLOCK FALSE
