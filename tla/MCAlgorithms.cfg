SPECIFICATION Spec
CHECK_DEADLOCK FALSE
CONSTANTS
  None = None
  NoRoot = NoRoot
  NoJdk = NoJdk
PROPERTIES
  IndexAnswersComplete
  EditsFaithful
  CompletionsHonest
  TypesConsistent
  
