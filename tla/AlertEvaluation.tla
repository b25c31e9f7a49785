--------------------------- MODULE AlertEvaluation ---------------------------
(***************************************************************************)
(* AlertEvaluationService (domain/services/alert_evaluation_service.go)    *)
(* and the notifier it calls.  The consumer goroutine evaluates events one *)
(* after the other, each on the slice of rules it reads at the beginning;  *)
(* a goroutine replaces the slice every 30 seconds.  Shutdown stops the    *)
(* service, then the notifier, while the consumer may still evaluate.      *)
(*                                                                         *)
(* RuleSets[0] are the rules in the code, used when the table cannot be    *)
(* read at the start; RuleSets[v] is the v-th content of the table.  The   *)
(* message of the i-th rule of the slice for event e is <<e, i>>.          *)
(*                                                                         *)
(* A value in an event's data is what the conditions tell apart: its kind, *)
(* the number it reads as, the numbers it is printed like and the words it *)
(* contains.                                                               *)
(***************************************************************************)
EXTENDS TelegramNotifier, Integers

CONSTANTS Events,    \* what is evaluated
          NoEvent,
          EventType,
          EventData, \* for each event, from field paths to values
          RuleSets

Versions == DOMAIN RuleSets
RuleNumbers == UNION {DOMAIN RuleSets[v] : v \in Versions}

ASSUME EvaluationAssumption ==
  /\ {0, 1} \subseteq Versions /\ Versions \subseteq Nat
  /\ \A v \in Versions : RuleSets[v] \in Seq(Range(RuleSets[v]))
  /\ Events \X RuleNumbers \subseteq Messages
  /\ NoEvent \notin Events

VARIABLES tableRules, \* the version of the active rules in master.alert_rules
          rules,      \* the version in s.rules
          stopping,   \* s.stopCh is closed
          reloading,  \* the goroutine of Start runs
          evaluating, \* the event the consumer goroutine is at
          next,       \* the rule it is at
          judgedBy    \* the version it has read for each event, or Unjudged

rulesVars == <<tableRules, rules, stopping, reloading>>
evaluationVars == <<evaluating, next, judgedBy>>
alertVars == <<notifierVars, rulesVars, evaluationVars>>

-----------------------------------------------------------------------------
(* Conditions *)

\* toFloat64: a number, or a string that begins with one.
IsNumber(value) == value.kind \in {"number", "numeral"}

\* containsString: only a string contains one.
Contains(value, word) == value.kind \in {"numeral", "text"} /\ word \in value.words

\* evaluateCondition.  "eq" compares the printed forms and needs no number.
Holds(rule, value) ==
  \/ rule.condition = "gt" /\ IsNumber(value) /\ value.number > rule.threshold
  \/ rule.condition = "gte" /\ IsNumber(value) /\ value.number >= rule.threshold
  \/ rule.condition = "lt" /\ IsNumber(value) /\ value.number < rule.threshold
  \/ rule.condition = "lte" /\ IsNumber(value) /\ value.number <= rule.threshold
  \/ rule.condition = "eq" /\ rule.threshold \in value.prints
  \/ rule.condition = "contains" /\ Contains(value, rule.word)

\* getFieldValue finds something.
HasField(e, field) == field \in DOMAIN EventData[e]

Triggers(rule, e) ==
  /\ rule.event_type \in {"*", EventType[e]}
  /\ HasField(e, rule.field)
  /\ Holds(rule, EventData[e][rule.field])

-----------------------------------------------------------------------------
(* The service *)

Unjudged == -1

defaultAlertRules == 0

FindActive == tableRules

AlertInit ==
  /\ NotifierInit
  /\ tableRules = 1
  /\ rules \in {defaultAlertRules, FindActive}
  /\ stopping = FALSE /\ reloading = TRUE
  /\ evaluating = NoEvent
  /\ next = 1
  /\ judgedBy = [e \in Events |-> Unjudged]

\* The table is changed.
ChangeRules ==
  /\ tableRules + 1 \in Versions
  /\ tableRules' = tableRules + 1
  /\ UNCHANGED <<notifierVars, rules, stopping, reloading, evaluationVars>>

\* The ticker, when FindActive succeeds.  A change of the table between the query
\* and the assignment is one after both.  With stopCh closed a reload may be under
\* way, and select may still take a tick.
ReloadRules ==
  /\ reloading
  /\ rules' = FindActive
  /\ UNCHANGED <<notifierVars, tableRules, stopping, reloading, evaluationVars>>

\* Stop closes stopCh and waits for nobody.
StopEvaluator ==
  /\ ~stopping
  /\ stopping' = TRUE
  /\ UNCHANGED <<notifierVars, tableRules, rules, reloading, evaluationVars>>

ReloaderEnds ==
  /\ stopping /\ reloading
  /\ reloading' = FALSE
  /\ UNCHANGED <<notifierVars, tableRules, rules, stopping, evaluationVars>>

\* EvaluateEvent up to the end of its critical section.
EvaluateEvent(e) ==
  /\ evaluating = NoEvent
  /\ judgedBy[e] = Unjudged
  /\ evaluating' = e
  /\ next' = 1
  /\ judgedBy' = [judgedBy EXCEPT ![e] = rules]
  /\ UNCHANGED <<notifierVars, rulesVars>>

RulesFor(e) == RuleSets[judgedBy[e]]

\* enqueue has not returned to the loop.
InCalls == {m \in Messages : send[m] \in {"locking", "locked", "checked"}}
Calling == evaluating # NoEvent /\ \E i \in RuleNumbers : <<evaluating, i>> \in InCalls

\* triggerAlert: an error of the notifier is logged.
TriggerAlert(e, i) == SendErrorNotification(<<e, i>>)

\* One round of the loop, with the rule of that number in the slice it goes over.
JudgeRule(slice) ==
  /\ evaluating # NoEvent /\ ~Calling
  /\ next <= Len(slice)
  /\ next' = next + 1
  /\ IF Triggers(slice[next], evaluating)
       THEN TriggerAlert(evaluating, next)
       ELSE UNCHANGED notifierVars
  /\ UNCHANGED <<rulesVars, evaluating, judgedBy>>

\* Mutant: the loop reads s.rules in each round.
EvaluateRuleNow == JudgeRule(RuleSets[rules])

EvaluateRule == JudgeRule(RulesFor(evaluating))

EvaluateReturns ==
  /\ evaluating # NoEvent /\ ~Calling
  /\ next > Len(RulesFor(evaluating))
  /\ evaluating' = NoEvent
  /\ next' = 1
  /\ UNCHANGED <<notifierVars, rulesVars, judgedBy>>

-----------------------------------------------------------------------------
Alerts == Events \X RuleNumbers

\* What else calls the notifier: validation errors and test handlers.
OtherMessages == Messages \ Alerts

\* The notifier goes on alone; its Stop comes after the service's.
NotifierAlone ==
  /\ \/ \E m \in OtherMessages : SendErrorNotification(m)
     \/ \E m \in Messages : SendCall(m)
     \/ SenderStep
     \/ stopping /\ StopBegins
     \/ StopCall
  /\ UNCHANGED <<rulesVars, evaluationVars>>

EvaluateStep == EvaluateRule \/ EvaluateReturns

AlertNext ==
  \/ ChangeRules \/ ReloadRules \/ StopEvaluator \/ ReloaderEnds
  \/ \E e \in Events : EvaluateEvent(e)
  \/ EvaluateStep
  \/ NotifierAlone

AlertSpec == AlertInit /\ [][AlertNext]_alertVars

\* A call, the worker and a Stop that were begun go on; the mutex is handed over in
\* some order, so Stop gets it even if callers keep coming (sync.Mutex is fair to a
\* waiter that has waited for a millisecond).  A goroutine in EvaluateEvent goes on.
FairAlertSpec ==
  /\ AlertSpec
  /\ \A m \in Messages : SF_alertVars(SendCall(m) /\ UNCHANGED <<rulesVars, evaluationVars>>)
  /\ WF_alertVars(SenderStep /\ UNCHANGED <<rulesVars, evaluationVars>>)
  /\ SF_alertVars(StopCall /\ UNCHANGED <<rulesVars, evaluationVars>>)
  /\ WF_alertVars(EvaluateStep)

-----------------------------------------------------------------------------
(* Properties *)

Judged(e) == IF evaluating = e THEN next - 1 ELSE Len(RulesFor(e))

\* An event is judged by one set of rules, whatever is loaded meanwhile: it has
\* called the notifier for exactly those rules, among the ones the loop has passed,
\* of the slice read at its beginning that apply to it.
JudgedByOneRuleSet ==
  \A e \in Events :
    {i \in RuleNumbers : send[<<e, i>>] # "new"} =
      IF judgedBy[e] = Unjudged THEN {}
      ELSE {i \in 1..Judged(e) : Triggers(RulesFor(e)[i], e)}

\* alert_evaluation_service.go:18, "It does not block event ingestion": an evaluation
\* ends, with a full channel, a Telegram that never answers in time, other callers
\* and Stop.
EvaluationEnds == evaluating # NoEvent ~> evaluating = NoEvent
=============================================================================
