SPECIFICATION Spec
INVARIANT Exclusion
