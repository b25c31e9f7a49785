CONSTANTS
  other = other
  Messages <- MCMessages
  AlertBuffer = 1
  Stopper = Stopper
  Free = Free
  Events <- MCEvents
  NoEvent = NoEvent
  EventType <- MCEventType
  EventData <- MCEventData
  RuleSets <- MCRuleSets
SPECIFICATION FairAlertSpec
INVARIANTS NeverSendOnClosed StoppedIsDrained JudgedByOneRuleSet
PROPERTIES NotifierStops EvaluationEnds
CHECK_DEADLOCK FALSE
