-------------------------- MODULE TelegramNotifier --------------------------
(***************************************************************************)
(* The Telegram notifier (telegram/notifier.go): callers put messages into *)
(* a bounded channel under a mutex, one worker sends them, and Stop sets a *)
(* flag under the mutex, closes the channel and waits for the worker.      *)
(*                                                                         *)
(* A message stands for the goroutine that sends it: the consumer's, for   *)
(* validation errors and alerts, or an HTTP handler's (test_handlers.go),  *)
(* which goes on while Shutdown runs.                                      *)
(***************************************************************************)
EXTENDS Naturals, Sequences, FiniteSets, Functions

CONSTANTS Messages,    \* the notifications callers ask for
          AlertBuffer, \* capacity of alertChan (100 in the code)
          Stopper,     \* the goroutine in Stop, as a holder of stopMu
          Free         \* stopMu is not held

ASSUME NotifierAssumption ==
  /\ AlertBuffer \in Nat \ {0}
  /\ Stopper \notin Messages
  /\ Free \notin Messages
  /\ Free # Stopper

VARIABLES
  config,     \* enabled, and with token and chat id, since NewNotifier
  send,       \* where the call for a message is
  stopMu,     \* who holds the mutex
  stopped,    \* the flag
  stopPc,     \* how far Stop has come
  alertChan,  \* the channel's buffer
  chanClosed,
  sender,     \* the worker: waiting, sending a message, or gone
  attempted   \* history: messages the worker has tried to send

notifierVars == <<config, send, stopMu, stopped, stopPc, alertChan, chanClosed,
                  sender, attempted>>

-----------------------------------------------------------------------------
Configs == {"disabled", "incomplete", "ready"}

\* "checked" is inside enqueue, past the test of the flag.  The rest after it
\* are the ends of a call.
SendStates == {"new", "locking", "locked", "checked", "sent", "dropped",
               "ignored", "refused"}
StopPcs == {"up", "locking", "locked", "unlocked", "waiting", "returned"}
Holders == Messages \cup {Stopper, Free}

NotifierInit ==
  /\ config \in Configs
  /\ send = [m \in Messages |-> "new"]
  /\ stopMu = Free
  /\ stopped = FALSE
  /\ stopPc = "up"
  /\ alertChan = <<>>
  /\ chanClosed = FALSE
  /\ sender = "waiting"
  /\ attempted = {}

\* SendErrorNotification up to enqueue: nil, an error, or on to the mutex.
EntryFor == [disabled |-> "ignored", incomplete |-> "refused", ready |-> "locking"]

SendErrorNotification(m) ==
  /\ send[m] = "new"
  /\ send' = [send EXCEPT ![m] = EntryFor[config]]
  /\ UNCHANGED <<config, stopMu, stopped, stopPc, alertChan, chanClosed, sender,
                 attempted>>

\* enqueue: the mutex, the flag, and the non-blocking send with the mutex held.
Lock(m) == /\ send[m] = "locking"
           /\ stopMu = Free
           /\ stopMu' = m
           /\ send' = [send EXCEPT ![m] = "locked"]
           /\ UNCHANGED <<config, stopped, stopPc, alertChan, chanClosed, sender,
                          attempted>>

\* Mutant: enqueue releases the mutex after the test of the flag.
CheckStoppedUnlocks(m) ==
  /\ send[m] = "locked"
  /\ stopMu' = Free
  /\ send' = [send EXCEPT ![m] = IF stopped THEN "dropped" ELSE "checked"]
  /\ UNCHANGED <<config, stopped, stopPc, alertChan, chanClosed, sender,
                 attempted>>

\* Mutant: the way out of a stopped notifier keeps the mutex.
CheckStoppedKeeps(m) ==
  /\ send[m] = "locked"
  /\ send' = [send EXCEPT ![m] = IF stopped THEN "dropped" ELSE "checked"]
  /\ UNCHANGED <<config, stopMu, stopped, stopPc, alertChan, chanClosed, sender,
                 attempted>>

CheckStopped(m) ==
  /\ send[m] = "locked"
  /\ IF stopped
       THEN stopMu' = Free /\ send' = [send EXCEPT ![m] = "dropped"]
       ELSE send' = [send EXCEPT ![m] = "checked"] /\ UNCHANGED stopMu
  /\ UNCHANGED <<config, stopped, stopPc, alertChan, chanClosed, sender,
                 attempted>>

TrySendAlert(m) ==
  /\ send[m] = "checked"
  /\ IF Len(alertChan) < AlertBuffer
       THEN /\ alertChan' = Append(alertChan, m)
            /\ send' = [send EXCEPT ![m] = "sent"]
       ELSE /\ send' = [send EXCEPT ![m] = "dropped"]
            /\ UNCHANGED alertChan
  /\ stopMu' = Free
  /\ UNCHANGED <<config, stopped, stopPc, chanClosed, sender, attempted>>

-----------------------------------------------------------------------------
\* worker: range over the channel.
NextAlert == /\ sender = "waiting"
             /\ alertChan # <<>>
             /\ sender' = "sending"
             /\ alertChan' = Tail(alertChan)
             /\ attempted' = attempted \cup {Head(alertChan)}
             /\ UNCHANGED <<config, send, stopMu, stopped, stopPc, chanClosed>>

\* The request to Telegram succeeds or fails or times out, and the pause after it.
AlertDone == /\ sender = "sending"
             /\ sender' = "waiting"
             /\ UNCHANGED <<config, send, stopMu, stopped, stopPc, alertChan,
                            chanClosed, attempted>>

RangeEnds == /\ sender = "waiting"
             /\ alertChan = <<>>
             /\ chanClosed
             /\ sender' = "gone"
             /\ UNCHANGED <<config, send, stopMu, stopped, stopPc, alertChan,
                            chanClosed, attempted>>

-----------------------------------------------------------------------------
\* Stop, inside its Once.
StopBegins == /\ stopPc = "up"
              /\ stopPc' = "locking"
              /\ UNCHANGED <<config, send, stopMu, stopped, alertChan, chanClosed,
                             sender, attempted>>

StopLocks == /\ stopPc = "locking"
             /\ stopMu = Free
             /\ stopMu' = Stopper
             /\ stopPc' = "locked"
             /\ UNCHANGED <<config, send, stopped, alertChan, chanClosed, sender,
                            attempted>>

StopSetsFlag == /\ stopPc = "locked"
                /\ stopped' = TRUE
                /\ stopMu' = Free
                /\ stopPc' = "unlocked"
                /\ UNCHANGED <<config, send, alertChan, chanClosed, sender,
                               attempted>>

\* Mutant: Stop does not close the channel.
StopLeavesOpen == /\ stopPc = "unlocked"
                  /\ stopPc' = "waiting"
                  /\ UNCHANGED <<config, send, stopMu, stopped, alertChan,
                                 chanClosed, sender, attempted>>

StopCloses == /\ stopPc = "unlocked"
              /\ chanClosed' = TRUE
              /\ stopPc' = "waiting"
              /\ UNCHANGED <<config, send, stopMu, stopped, alertChan, sender,
                             attempted>>

\* Mutant: Stop does not wait for the worker.
StopReturnsAtOnce == /\ stopPc = "waiting"
                     /\ stopPc' = "returned"
                     /\ UNCHANGED <<config, send, stopMu, stopped, alertChan,
                                    chanClosed, sender, attempted>>

StopReturnsNow == /\ stopPc = "waiting"
                  /\ sender = "gone"
                  /\ stopPc' = "returned"
                  /\ UNCHANGED <<config, send, stopMu, stopped, alertChan,
                                 chanClosed, sender, attempted>>

-----------------------------------------------------------------------------
SendCall(m) == Lock(m) \/ CheckStopped(m) \/ TrySendAlert(m)
SenderStep == NextAlert \/ AlertDone \/ RangeEnds
StopCall == StopLocks \/ StopSetsFlag \/ StopCloses \/ StopReturnsNow

NotifierNext == \/ \E m \in Messages : SendErrorNotification(m) \/ SendCall(m)
                \/ SenderStep
                \/ StopBegins \/ StopCall

NotifierSpec == NotifierInit /\ [][NotifierNext]_notifierVars

-----------------------------------------------------------------------------
(* Properties *)

\* The type invariant.
NotifierTypeOK ==
  /\ config \in Configs
  /\ send \in [Messages -> SendStates]
  /\ stopMu \in Holders
  /\ stopped \in BOOLEAN
  /\ stopPc \in StopPcs
  /\ alertChan \in Seq(Messages)
  /\ Len(alertChan) <= AlertBuffer
  /\ chanClosed \in BOOLEAN
  /\ sender \in {"waiting", "sending", "gone"}
  /\ attempted \in SUBSET Messages

\* Nobody sends on the closed channel, which would panic: while a caller is
\* between its test of the flag and its send, Stop has not closed the channel,
\* although Stop closes it without holding the mutex.
NeverSendOnClosed ==
  \A m \in Messages : send[m] = "checked" => ~chanClosed

\* When Stop returns, every message that a caller got into the channel has been
\* tried, and none can be put there any more: a call either came before the flag
\* and was drained, or after it and was dropped.
StoppedIsDrained ==
  stopPc = "returned" =>
    /\ alertChan = <<>>
    /\ \A m \in Messages : send[m] = "sent" => m \in attempted
    /\ \A m \in Messages : send[m] # "checked"

\* A message in the channel waits there or has been taken, never both and never
\* neither, and only messages that were enqueued are sent.
AlertsAccounted ==
  /\ {m \in Messages : send[m] = "sent"} = attempted \cup Range(alertChan)
  /\ attempted \cap Range(alertChan) = {}
  /\ IsInjective(alertChan)

\* Stop returns, however many callers compete for the mutex and whatever the
\* worker is doing.
NotifierStops == stopPc = "locking" ~> stopPc = "returned"
=============================================================================
