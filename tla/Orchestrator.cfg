SPECIFICATION Spec
INVARIANTS
  TypeOK
  StepGate
  FreshConsent
  BothPresentToPair
  StepsInOrder
  RollbackIffDeactivated
PROPERTIES
  OnlyStartThrows
  ChangesChain
  ImplementsLifecycle
