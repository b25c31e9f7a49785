-------------------------- MODULE MCAlertEvaluation --------------------------
(***************************************************************************)
(* AlertEvaluation and the notifier on a small instance: two events, rules *)
(* that differ in every version, and a message from elsewhere.             *)
(***************************************************************************)
EXTENDS AlertEvaluation

CONSTANT other

MCEvents == {"hot", "off"}

MCNumber(n) == [kind |-> "number", number |-> n, prints |-> {n}, words |-> {"6"}]
MCText(n, word) == [kind |-> "numeral", number |-> n, prints |-> {}, words |-> {word}]

MCEventType == [hot |-> "temperature", off |-> "status"]
MCEventData == [hot |-> [temperature |-> MCNumber(60)],
                off |-> [status |-> MCText(0, "off"), temperature |-> MCNumber(20)]]

MCRule(type, field, condition, threshold, word) ==
  [event_type |-> type, field |-> field, condition |-> condition,
   threshold |-> threshold, word |-> word]

MCRuleSets == [v \in 0..2 |->
  CASE v = 0 -> <<MCRule("temperature", "temperature", "gt", 50, ""),
                  MCRule("status", "status", "eq", 0, "")>>
    [] v = 1 -> <<MCRule("*", "temperature", "gte", 60, ""),
                  MCRule("*", "status", "contains", 0, "off")>>
    [] v = 2 -> <<MCRule("*", "temperature", "lt", 60, ""),
                  MCRule("status", "status", "lte", 0, "")>>]

MCMessages == (MCEvents \X {1, 2}) \cup {<<other>>}
=============================================================================
