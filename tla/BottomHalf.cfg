SPECIFICATION BhSpec
INVARIANTS BhTypeOK NoStrandedWork OneActivation
PROPERTIES ImplementsPromise EventuallyServed
