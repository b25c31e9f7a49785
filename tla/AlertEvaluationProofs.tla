------------------------ MODULE AlertEvaluationProofs ------------------------
(***************************************************************************)
(* Proofs about TelegramNotifier and, on top of it, AlertEvaluation, for   *)
(* any messages, buffer, events and sets of rules.                         *)
(*                                                                         *)
(* The notifier's invariant relates the mutex, the flag and the progress   *)
(* of Stop: a caller past its test of the flag holds the mutex, so the     *)
(* flag, which is set with the mutex held, is down, and the channel, which *)
(* is closed after the flag is up, is open.  All of it holds under the     *)
(* callers that AlertEvaluation has, where an event is judged by one set   *)
(* of rules, however often they are loaded while the loop goes over them.  *)
(***************************************************************************)
EXTENDS AlertEvaluation, ChannelLemmas

-----------------------------------------------------------------------------
(* The notifier *)

\* The mutex is held by one goroutine at a time, the one that is inside.
MutexHeld ==
  /\ \A m \in Messages : send[m] \in {"locked", "checked"} <=> stopMu = m
  /\ stopPc = "locked" <=> stopMu = Stopper

\* The flag and the channel follow the steps of Stop.
StopOrder ==
  /\ stopped <=> stopPc \in {"unlocked", "waiting", "returned"}
  /\ chanClosed <=> stopPc \in {"waiting", "returned"}

\* A caller that has found the flag down is ahead of Stop's assignment.
CheckedBeforeFlag == \A m \in Messages : send[m] = "checked" => ~stopped

\* The worker leaves an empty, closed channel, and Stop waits for that.
WorkerGone ==
  /\ sender = "gone" => chanClosed /\ alertChan = <<>>
  /\ stopPc = "returned" => sender = "gone"

NotifierInv == /\ NotifierTypeOK
               /\ MutexHeld
               /\ StopOrder
               /\ CheckedBeforeFlag
               /\ WorkerGone
               /\ AlertsAccounted

-----------------------------------------------------------------------------
\* The invariant holds at NewNotifier.
LEMMA NotifierInvInit == NotifierInit => NotifierInv
<1> SUFFICES ASSUME NotifierInit PROVE NotifierInv
  OBVIOUS
<1> USE NotifierAssumption DEF NotifierInit
<1>1. NotifierTypeOK
  <2>1. alertChan \in Seq(Messages) /\ Len(alertChan) <= AlertBuffer
    OBVIOUS
  <2>2. send \in [Messages -> SendStates]
    BY DEF SendStates
  <2> QED BY <2>1, <2>2 DEF NotifierTypeOK, Configs, StopPcs, Holders
<1>2. MutexHeld /\ StopOrder /\ CheckedBeforeFlag /\ WorkerGone
  BY DEF MutexHeld, StopOrder, CheckedBeforeFlag, WorkerGone
<1>3. AlertsAccounted
  BY EmptyLemma DEF AlertsAccounted
<1> QED BY <1>1, <1>2, <1>3 DEF NotifierInv

\* Every step of a caller, of the worker and of Stop preserves it.
LEMMA NotifierInvStep == NotifierInv /\ [NotifierNext]_notifierVars => NotifierInv'
<1> SUFFICES ASSUME NotifierInv, [NotifierNext]_notifierVars
             PROVE  NotifierInv'
  OBVIOUS
<1> USE NotifierAssumption
<1> USE DEF NotifierInv, NotifierTypeOK, Configs, SendStates, StopPcs, Holders
<1> USE DEF MutexHeld, StopOrder, CheckedBeforeFlag, WorkerGone
<1>1. ASSUME NEW m \in Messages, SendErrorNotification(m)
      PROVE  NotifierInv'
  <2>1. EntryFor[config] \in {"ignored", "refused", "locking"}
    BY DEF EntryFor
  <2> QED BY <1>1, <2>1 DEF SendErrorNotification, AlertsAccounted
<1>2. ASSUME NEW m \in Messages, Lock(m)
      PROVE  NotifierInv'
  BY <1>2 DEF Lock, AlertsAccounted
<1>3. ASSUME NEW m \in Messages, CheckStopped(m)
      PROVE  NotifierInv'
  BY <1>3 DEF CheckStopped, AlertsAccounted
<1>4. ASSUME NEW m \in Messages, TrySendAlert(m)
      PROVE  NotifierInv'
  <2>1. CASE Len(alertChan) < AlertBuffer
    <3>1. /\ alertChan' = Append(alertChan, m)
          /\ send' = [send EXCEPT ![m] = "sent"]
          /\ send[m] = "checked"
      BY <1>4, <2>1 DEF TrySendAlert
    <3>2. m \notin Range(alertChan) /\ m \notin attempted
      BY <3>1 DEF AlertsAccounted
    <3>3. /\ alertChan' \in Seq(Messages)
          /\ Len(alertChan') = Len(alertChan) + 1
          /\ Range(alertChan') = Range(alertChan) \cup {m}
          /\ IsInjective(alertChan')
      BY <3>1, <3>2, SendLemma DEF AlertsAccounted
    <3>4. NotifierTypeOK'
      BY <1>4, <2>1, <3>1, <3>3 DEF TrySendAlert
    <3>5. (MutexHeld /\ StopOrder /\ CheckedBeforeFlag /\ WorkerGone)'
      BY <1>4, <2>1, <3>1 DEF TrySendAlert
    <3>6. AlertsAccounted'
      BY <1>4, <2>1, <3>1, <3>2, <3>3 DEF TrySendAlert, AlertsAccounted
    <3> QED BY <3>4, <3>5, <3>6
  <2>2. CASE ~(Len(alertChan) < AlertBuffer)
    BY <1>4, <2>2 DEF TrySendAlert, AlertsAccounted
  <2> QED BY <2>1, <2>2
<1>5. CASE NextAlert
  <2>1. /\ alertChan' = Tail(alertChan)
        /\ attempted' = attempted \cup {Head(alertChan)}
        /\ alertChan # <<>>
    BY <1>5 DEF NextAlert
  <2>2. /\ Head(alertChan) \in Messages
        /\ alertChan' \in Seq(Messages)
        /\ Len(alertChan') = Len(alertChan) - 1
        /\ Range(alertChan) = Range(alertChan') \cup {Head(alertChan)}
        /\ IsInjective(alertChan')
        /\ Head(alertChan) \notin Range(alertChan')
    BY <2>1, ReceiveLemma DEF AlertsAccounted
  <2>3. NotifierTypeOK'
    BY <1>5, <2>1, <2>2 DEF NextAlert
  <2>4. (MutexHeld /\ StopOrder /\ CheckedBeforeFlag /\ WorkerGone)'
    BY <1>5, <2>1 DEF NextAlert
  <2>5. AlertsAccounted'
    BY <1>5, <2>1, <2>2 DEF NextAlert, AlertsAccounted
  <2> QED BY <2>3, <2>4, <2>5
<1>6. CASE AlertDone
  BY <1>6 DEF AlertDone, AlertsAccounted
<1>7. CASE RangeEnds
  BY <1>7 DEF RangeEnds, AlertsAccounted
<1>8. CASE StopBegins
  BY <1>8 DEF StopBegins, AlertsAccounted
<1>9. CASE StopLocks
  BY <1>9 DEF StopLocks, AlertsAccounted
<1>10. CASE StopSetsFlag
  BY <1>10 DEF StopSetsFlag, AlertsAccounted
<1>11. CASE StopCloses
  BY <1>11 DEF StopCloses, AlertsAccounted
<1>12. CASE StopReturnsNow
  BY <1>12 DEF StopReturnsNow, AlertsAccounted
<1>13. CASE UNCHANGED notifierVars
  BY <1>13 DEF notifierVars, AlertsAccounted
<1> QED BY <1>1, <1>2, <1>3, <1>4, <1>5, <1>6, <1>7, <1>8, <1>9, <1>10, <1>11,
           <1>12, <1>13 DEF NotifierNext, SendCall, SenderStep, StopCall

\* The invariant holds in every behaviour.
THEOREM NotifierInvariant == NotifierSpec => []NotifierInv
<1>1. NotifierInit => NotifierInv
  BY NotifierInvInit
<1>2. NotifierInv /\ [NotifierNext]_notifierVars => NotifierInv'
  BY NotifierInvStep
<1> QED BY <1>1, <1>2, PTL DEF NotifierSpec

\* Type correctness.
THEOREM NotifierTypeCorrect == NotifierSpec => []NotifierTypeOK
<1>1. NotifierInv => NotifierTypeOK
  BY DEF NotifierInv
<1> QED BY <1>1, NotifierInvariant, PTL

\* No caller is about to send on alertChan while it is closed, for any number of
\* callers: Go would panic there.
THEOREM NoSendOnClosedChannel == NotifierSpec => []NeverSendOnClosed
<1>1. NotifierInv => NeverSendOnClosed
  BY DEF NotifierInv, NotifierTypeOK, StopPcs, StopOrder, CheckedBeforeFlag,
         NeverSendOnClosed
<1> QED BY <1>1, NotifierInvariant, PTL

\* Stop returns only after every message that got into the channel was tried, and
\* no caller can put one there afterwards.
THEOREM StopDrainsNotifier == NotifierSpec => []StoppedIsDrained
<1>1. NotifierInv => StoppedIsDrained
  <2> SUFFICES ASSUME NotifierInv, stopPc = "returned"
               PROVE  /\ alertChan = <<>>
                      /\ \A m \in Messages : send[m] = "sent" => m \in attempted
                      /\ \A m \in Messages : send[m] # "checked"
    BY DEF StoppedIsDrained
  <2>1. alertChan = <<>>
    BY DEF NotifierInv, WorkerGone
  <2>2. \A m \in Messages : send[m] = "sent" => m \in attempted
    BY <2>1, EmptyLemma DEF NotifierInv, AlertsAccounted
  <2>3. \A m \in Messages : send[m] # "checked"
    BY DEF NotifierInv, StopOrder, CheckedBeforeFlag
  <2> QED BY <2>1, <2>2, <2>3
<1> QED BY <1>1, NotifierInvariant, PTL

\* No message is lost or sent twice between the channel and the worker.
THEOREM AlertsAreAccounted == NotifierSpec => []AlertsAccounted
<1>1. NotifierInv => AlertsAccounted
  BY DEF NotifierInv
<1> QED BY <1>1, NotifierInvariant, PTL
-----------------------------------------------------------------------------
(* The evaluation *)

\* The rules in use exist, and the loop is inside the slice it goes over or has just
\* passed its end.
EvaluationTypeOK ==
  /\ tableRules \in Versions
  /\ rules \in Versions
  /\ judgedBy \in [Events -> Versions \cup {Unjudged}]
  /\ evaluating \in Events \cup {NoEvent}
  /\ next \in Nat \ {0}
  /\ evaluating # NoEvent =>
       judgedBy[evaluating] \in Versions /\ next <= Len(RulesFor(evaluating)) + 1

\* JudgedByOneRuleSet for one rule at a time.
JudgedOnce ==
  \A e \in Events, i \in RuleNumbers :
    send[<<e, i>>] # "new" <=>
      /\ judgedBy[e] \in Versions
      /\ i <= Judged(e)
      /\ Triggers(RulesFor(e)[i], e)

-----------------------------------------------------------------------------
(* The slices of rules *)

\* The rules of a version are numbered from one.
LEMMA RulesAreNumbered ==
  ASSUME NEW v \in Versions
  PROVE  /\ Len(RuleSets[v]) \in Nat
         /\ 1..Len(RuleSets[v]) \subseteq RuleNumbers
         /\ v # Unjudged
<1>1. RuleSets[v] \in Seq(Range(RuleSets[v])) /\ v \in Nat
  BY EvaluationAssumption
<1>2. Len(RuleSets[v]) \in Nat /\ DOMAIN RuleSets[v] = 1..Len(RuleSets[v])
  BY <1>1
<1>3. DOMAIN RuleSets[v] \subseteq RuleNumbers
  BY DEF RuleNumbers
<1> QED BY <1>1, <1>2, <1>3 DEF Unjudged

\* Every number of a rule is positive, and a rule's message is one of the notifier's.
LEMMA RulesHaveMessages ==
  /\ RuleNumbers \subseteq Nat \ {0}
  /\ \A e \in Events, i \in RuleNumbers : <<e, i>> \in Messages
<1>1. ASSUME NEW v \in Versions PROVE DOMAIN RuleSets[v] \subseteq Nat \ {0}
  <2>1. RuleSets[v] \in Seq(Range(RuleSets[v]))
    BY EvaluationAssumption
  <2> QED BY <2>1
<1>2. RuleNumbers \subseteq Nat \ {0}
  BY <1>1 DEF RuleNumbers
<1> QED BY <1>2, EvaluationAssumption

-----------------------------------------------------------------------------
(* Types *)

LEMMA EvaluationTypesInit == AlertInit => EvaluationTypeOK
  BY EvaluationAssumption
     DEF AlertInit, EvaluationTypeOK, defaultAlertRules, FindActive

LEMMA EvaluationTypesStep ==
  EvaluationTypeOK /\ [AlertNext]_alertVars => EvaluationTypeOK'
<1> SUFFICES ASSUME EvaluationTypeOK, [AlertNext]_alertVars PROVE EvaluationTypeOK'
  OBVIOUS
<1> USE EvaluationAssumption DEF EvaluationTypeOK, RulesFor
<1>1. CASE ChangeRules \/ ReloadRules \/ StopEvaluator \/ ReloaderEnds
  BY <1>1 DEF ChangeRules, ReloadRules, StopEvaluator, ReloaderEnds, evaluationVars, FindActive
<1>2. ASSUME NEW e \in Events, EvaluateEvent(e)
      PROVE  EvaluationTypeOK'
  <2>1. judgedBy' \in [Events -> Versions \cup {Unjudged}] /\ judgedBy'[e] = rules
    BY <1>2 DEF EvaluateEvent
  <2>2. Len(RuleSets[rules]) \in Nat
    BY RulesAreNumbered
  <2> QED BY <1>2, <2>1, <2>2 DEF EvaluateEvent, rulesVars
<1>3. CASE EvaluateRule
  <2>1. judgedBy[evaluating] \in Versions /\ Len(RulesFor(evaluating)) \in Nat
    BY <1>3, RulesAreNumbered DEF EvaluateRule, JudgeRule
  <2> QED BY <1>3, <2>1 DEF EvaluateRule, JudgeRule, rulesVars
<1>4. CASE EvaluateReturns
  BY <1>4 DEF EvaluateReturns, rulesVars
<1>5. CASE NotifierAlone
  BY <1>5 DEF NotifierAlone, rulesVars, evaluationVars
<1>6. CASE UNCHANGED alertVars
  BY <1>6 DEF alertVars, rulesVars, evaluationVars
<1> QED BY <1>1, <1>2, <1>3, <1>4, <1>5, <1>6 DEF AlertNext, EvaluateStep

\* The loop never reads a rule behind the end of its slice.
THEOREM EvaluationTypeCorrect == AlertSpec => []EvaluationTypeOK
  BY EvaluationTypesInit, EvaluationTypesStep, PTL DEF AlertSpec

-----------------------------------------------------------------------------
(* The notifier *)

\* An evaluation calls the notifier as any goroutine may, and the rules are none of
\* the notifier's business.
LEMMA AlertStepsNotifier ==
  EvaluationTypeOK /\ [AlertNext]_alertVars => [NotifierNext]_notifierVars
<1> SUFFICES ASSUME EvaluationTypeOK, [AlertNext]_alertVars
             PROVE  [NotifierNext]_notifierVars
  OBVIOUS
<1>1. CASE EvaluateRule
  <2>1. /\ evaluating \in Events
        /\ judgedBy[evaluating] \in Versions
        /\ next \in Nat \ {0}
        /\ next <= Len(RulesFor(evaluating))
        /\ UNCHANGED notifierVars \/ TriggerAlert(evaluating, next)
    BY <1>1 DEF EvaluateRule, JudgeRule, EvaluationTypeOK
  <2>2. next \in RuleNumbers
    BY <2>1, RulesAreNumbered DEF RulesFor
  <2>3. <<evaluating, next>> \in Messages
    BY <2>1, <2>2, RulesHaveMessages
  <2> QED BY <2>1, <2>3 DEF TriggerAlert, NotifierNext
<1>2. CASE NotifierAlone
  BY <1>2 DEF NotifierAlone, NotifierNext, OtherMessages
<1>3. CASE ~EvaluateRule /\ ~NotifierAlone
  BY <1>3 DEF AlertNext, EvaluateStep, ChangeRules, ReloadRules, StopEvaluator,
              ReloaderEnds, EvaluateEvent, EvaluateReturns, alertVars
<1> QED BY <1>1, <1>2, <1>3

\* The notifier under evaluation is the notifier of TelegramNotifier.
THEOREM AlertsUseNotifier == AlertSpec => NotifierSpec
<1>1. AlertInit => NotifierInit
  BY DEF AlertInit
<1> QED BY <1>1, AlertStepsNotifier, EvaluationTypeCorrect, PTL
        DEF AlertSpec, NotifierSpec

-----------------------------------------------------------------------------
(* One set of rules for an event *)

LEMMA JudgedOnceInit == AlertInit => JudgedOnce
  BY RulesHaveMessages, RulesAreNumbered
     DEF AlertInit, NotifierInit, JudgedOnce

\* A call inside the notifier stays a call.
LEMMA CallsStayCalls ==
  ASSUME NotifierTypeOK, NEW m \in Messages, SendCall(m)
  PROVE  \A k \in Messages : send'[k] = "new" <=> send[k] = "new"
BY DEF NotifierTypeOK, SendCall, Lock, CheckStopped, TrySendAlert

LEMMA JudgedOnceStep ==
  /\ EvaluationTypeOK /\ EvaluationTypeOK' /\ NotifierTypeOK /\ JudgedOnce
  /\ [AlertNext]_alertVars
  => JudgedOnce'
<1> SUFFICES ASSUME EvaluationTypeOK, EvaluationTypeOK', NotifierTypeOK, JudgedOnce,
                    [AlertNext]_alertVars,
                    NEW e \in Events, NEW i \in RuleNumbers
             PROVE  send'[<<e, i>>] # "new" <=>
                      /\ judgedBy'[e] \in Versions
                      /\ i <= Judged(e)'
                      /\ Triggers(RuleSets[judgedBy'[e]][i], e)
  BY DEF JudgedOnce, RulesFor
<1>0. /\ send[<<e, i>>] # "new" <=>
           /\ judgedBy[e] \in Versions
           /\ i <= Judged(e)
           /\ Triggers(RuleSets[judgedBy[e]][i], e)
      /\ <<e, i>> \in Messages
      /\ i \in Nat \ {0}
      /\ e # NoEvent
  BY RulesHaveMessages, EvaluationAssumption DEF JudgedOnce, RulesFor
<1>1. ASSUME UNCHANGED evaluationVars, send'[<<e, i>>] = "new" <=> send[<<e, i>>] = "new"
      PROVE  send'[<<e, i>>] # "new" <=>
                      /\ judgedBy'[e] \in Versions
                      /\ i <= Judged(e)'
                      /\ Triggers(RuleSets[judgedBy'[e]][i], e)
  BY <1>0, <1>1 DEF evaluationVars, Judged, RulesFor
<1>2. CASE ChangeRules \/ ReloadRules \/ StopEvaluator \/ ReloaderEnds \/ UNCHANGED alertVars
  BY <1>1, <1>2 DEF ChangeRules, ReloadRules, StopEvaluator, ReloaderEnds, alertVars, notifierVars
<1>3. ASSUME NEW f \in Events, EvaluateEvent(f)
      PROVE  send'[<<e, i>>] # "new" <=>
                      /\ judgedBy'[e] \in Versions
                      /\ i <= Judged(e)'
                      /\ Triggers(RuleSets[judgedBy'[e]][i], e)
  <2>1. /\ evaluating = NoEvent /\ evaluating' = f /\ next' = 1
        /\ judgedBy[f] = Unjudged /\ judgedBy' = [judgedBy EXCEPT ![f] = rules]
        /\ send' = send
    BY <1>3 DEF EvaluateEvent, notifierVars
  <2>2. CASE e = f
    <3>1. judgedBy[e] \notin Versions
      BY <2>1, <2>2, RulesAreNumbered
    <3>2. Judged(e)' = 0
      BY <2>1, <2>2 DEF Judged
    <3> QED BY <1>0, <2>1, <3>1, <3>2
  <2>3. CASE e # f
    <3>1. judgedBy'[e] = judgedBy[e]
      BY <2>1, <2>3 DEF EvaluationTypeOK
    <3>2. Judged(e)' = Judged(e)
      BY <1>0, <2>1, <2>3, <3>1 DEF Judged, RulesFor
    <3> QED BY <1>0, <2>1, <3>1, <3>2
  <2> QED BY <2>2, <2>3
<1>4. CASE EvaluateRule
  <2>1. /\ evaluating \in Events
        /\ evaluating' = evaluating
        /\ judgedBy[evaluating] \in Versions
        /\ judgedBy' = judgedBy
        /\ next \in Nat \ {0}
        /\ next' = next + 1
    BY <1>4 DEF EvaluateRule, JudgeRule, EvaluationTypeOK
  <2>2. next \in RuleNumbers
    BY <1>4, <2>1, RulesAreNumbered DEF EvaluateRule, JudgeRule, RulesFor
  <2>3. <<evaluating, next>> \in Messages
    BY <2>1, <2>2, RulesHaveMessages
  <2>4. CASE <<e, i>> = <<evaluating, next>>
    <3>1. e = evaluating /\ i = next
      BY <2>4
    <3>2. Judged(e) = next - 1 /\ Judged(e)' = next
      BY <2>1, <3>1 DEF Judged
    <3>3. send[<<e, i>>] = "new"
      BY <1>0, <2>1, <3>1, <3>2
    <3>4. CASE Triggers(RuleSets[judgedBy[e]][i], e)
      <4>1. send' = [send EXCEPT ![<<e, i>>] = EntryFor[config]]
        BY <1>4, <3>1, <3>4
           DEF EvaluateRule, JudgeRule, RulesFor, TriggerAlert, SendErrorNotification
      <4>2. EntryFor[config] # "new"
        BY DEF NotifierTypeOK, Configs, EntryFor
      <4>3. send'[<<e, i>>] # "new"
        BY <1>0, <4>1, <4>2 DEF NotifierTypeOK
      <4> QED BY <2>1, <3>1, <3>2, <3>4, <4>3
    <3>5. CASE ~Triggers(RuleSets[judgedBy[e]][i], e)
      <4>1. send' = send
        BY <1>4, <3>1, <3>5 DEF EvaluateRule, JudgeRule, RulesFor, notifierVars
      <4> QED BY <2>1, <3>3, <3>5, <4>1
    <3> QED BY <3>4, <3>5
  <2>5. CASE <<e, i>> # <<evaluating, next>>
    <3>1. send'[<<e, i>>] = send[<<e, i>>]
      <4>1. \/ send' = [send EXCEPT ![<<evaluating, next>>] = EntryFor[config]]
            \/ send' = send
        BY <1>4 DEF EvaluateRule, JudgeRule, TriggerAlert, SendErrorNotification,
                    notifierVars
      <4> QED BY <1>0, <2>3, <2>5, <4>1 DEF NotifierTypeOK
    <3>2. i <= Judged(e)' <=> i <= Judged(e)
      <4>1. CASE e = evaluating
        <5>1. i # next /\ Judged(e) = next - 1 /\ Judged(e)' = next
          BY <2>1, <2>5, <4>1 DEF Judged
        <5> QED BY <1>0, <2>1, <5>1
      <4>2. CASE e # evaluating
        BY <2>1, <4>2 DEF Judged, RulesFor
      <4> QED BY <4>1, <4>2
    <3> QED BY <1>0, <2>1, <3>1, <3>2
  <2> QED BY <2>4, <2>5
<1>5. CASE EvaluateReturns
  <2>1. /\ evaluating \in Events
        /\ judgedBy[evaluating] \in Versions
        /\ judgedBy' = judgedBy /\ send' = send /\ evaluating' = NoEvent
        /\ next \in Nat /\ next > Len(RulesFor(evaluating))
        /\ next <= Len(RulesFor(evaluating)) + 1
    BY <1>5 DEF EvaluateReturns, EvaluationTypeOK, notifierVars
  <2>2. Len(RulesFor(evaluating)) \in Nat
    BY <2>1, RulesAreNumbered DEF RulesFor
  <2>3. next - 1 = Len(RulesFor(evaluating))
    BY <2>1, <2>2
  <2>4. Judged(e)' = Judged(e)
    BY <1>0, <2>1, <2>3 DEF Judged, RulesFor
  <2> QED BY <1>0, <2>1, <2>4
<1>6. CASE NotifierAlone
  <2>1. UNCHANGED evaluationVars
    BY <1>6 DEF NotifierAlone
  <2>2. CASE \E m \in OtherMessages : SendErrorNotification(m)
    <3>1. PICK m \in OtherMessages : SendErrorNotification(m)
      BY <2>2
    <3>2. m # <<e, i>> /\ m \in Messages
      BY <3>1 DEF OtherMessages, Alerts
    <3>3. send'[<<e, i>>] = send[<<e, i>>]
      BY <1>0, <3>1, <3>2 DEF SendErrorNotification, NotifierTypeOK
    <3> QED BY <1>1, <2>1, <3>3
  <2>3. CASE \E m \in Messages : SendCall(m)
    BY <1>0, <1>1, <2>1, <2>3, CallsStayCalls
  <2>4. CASE SenderStep \/ StopBegins \/ StopCall
    <3>1. send' = send
      BY <2>4 DEF SenderStep, NextAlert, AlertDone, RangeEnds, StopBegins, StopCall,
                  StopLocks, StopSetsFlag, StopCloses, StopReturnsNow
    <3> QED BY <1>1, <2>1, <3>1
  <2> QED BY <1>6, <2>2, <2>3, <2>4 DEF NotifierAlone
<1> QED BY <1>2, <1>3, <1>4, <1>5, <1>6 DEF AlertNext, EvaluateStep

\* What is said rule by rule says which rules an event has triggered.
LEMMA JudgedOnceSays == EvaluationTypeOK /\ JudgedOnce => JudgedByOneRuleSet
<1> SUFFICES ASSUME EvaluationTypeOK, JudgedOnce, NEW e \in Events
             PROVE  {i \in RuleNumbers : send[<<e, i>>] # "new"} =
                      IF judgedBy[e] = Unjudged THEN {}
                      ELSE {i \in 1..Judged(e) : Triggers(RulesFor(e)[i], e)}
  BY DEF JudgedByOneRuleSet
<1>1. CASE judgedBy[e] = Unjudged
  <2>1. judgedBy[e] \notin Versions
    BY <1>1, RulesAreNumbered
  <2> QED BY <1>1, <2>1 DEF JudgedOnce
<1>2. CASE judgedBy[e] # Unjudged
  <2>1. judgedBy[e] \in Versions
    BY <1>2 DEF EvaluationTypeOK
  <2>2. /\ Len(RulesFor(e)) \in Nat
        /\ 1..Len(RulesFor(e)) \subseteq RuleNumbers
    BY <2>1, RulesAreNumbered DEF RulesFor
  <2>3. Judged(e) \in Nat /\ Judged(e) <= Len(RulesFor(e))
    BY <2>2, EvaluationAssumption DEF Judged, EvaluationTypeOK
  <2>4. 1..Judged(e) \subseteq RuleNumbers
    BY <2>2, <2>3
  <2>5. \A i \in RuleNumbers :
          send[<<e, i>>] # "new" <=> i \in 1..Judged(e) /\ Triggers(RulesFor(e)[i], e)
    BY <2>1, <2>3, RulesHaveMessages DEF JudgedOnce
  <2> QED BY <1>2, <2>4, <2>5
<1> QED BY <1>1, <1>2

\* Every event is judged by the slice read at its beginning: it has called the
\* notifier for the rules of that slice that apply to it, each once, and for no
\* other, whatever was loaded meanwhile.
THEOREM JudgedBySliceRead == AlertSpec => []JudgedByOneRuleSet
<1>1. AlertSpec => []NotifierTypeOK
  BY AlertsUseNotifier, NotifierTypeCorrect, PTL
<1>2. AlertSpec => []JudgedOnce
  BY <1>1, EvaluationTypeCorrect, JudgedOnceInit, JudgedOnceStep, PTL DEF AlertSpec
<1> QED BY <1>2, EvaluationTypeCorrect, JudgedOnceSays, PTL
=============================================================================
