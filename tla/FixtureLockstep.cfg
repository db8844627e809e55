SPECIFICATION LockstepSpec
INVARIANTS RtlMatchesModel ControlIndependentOfSecret SecureVariantsIsolate LeaksStayInTheCache
