SPECIFICATION Spec
CONSTANTS
  Letters = {"a"}
  Digits = {"1"}
  Scripts <- AllScripts
INVARIANTS
  ScriptRead
  GrammarFollowed
  RulesFollowed
CHECK_DEADLOCK FALSE
