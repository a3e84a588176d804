-------------------------- MODULE KubeletNotifier --------------------------
(***************************************************************************)
(* The event source of the topology updater: Notifier.Run, the ticker it   *)
(* selects on and the file watcher that feeds it.                          *)
(*                                                                         *)
(* Notifier.Run is a goroutine of its own.  It sends on an unbuffered      *)
(* channel, so it stands still until the updater's loop takes the event;   *)
(* meanwhile one tick waits in the ticker's channel (further ticks are     *)
(* dropped) and file events wait in the kernel's bounded queue.  The       *)
(* notifier takes only the Events channel of the watcher: the error that   *)
(* the watcher sends when the kernel queue overflowed has no receiver, and *)
(* its reader goroutine stands still for good.                             *)
(***************************************************************************)
EXTENDS Naturals, Sequences

CONSTANTS
  Configurations, \* argument records a process may be started with
  MaxQueue,       \* bound: events the kernel queues (16384 by default)
  Overflows       \* whether the kernel queue may overflow

ASSUME NotifierAssumption ==
  /\ Configurations \subseteq
       [oneshot : BOOLEAN, noPublish : BOOLEAN, podsFingerprint : BOOLEAN,
        sleepInterval : BOOLEAN, kubeletStateDir : BOOLEAN]
  /\ MaxQueue \in Nat \ {0}
  /\ Overflows \in BOOLEAN

VARIABLES
  args,     \* the arguments; sleepInterval is "positive", kubeletStateDir "set"
  ticker,   \* a tick waits in the ticker's channel
  fsQueue,  \* file events the kernel or the watcher holds
  watcher,  \* "reading", or "stuck" sending an error nobody receives
  notifier  \* "select", or sending an event of one of the two kinds

notifierVars == <<ticker, fsQueue, watcher, notifier>>

FileEvents == {"state", "other", "overflow"}

NotifierTypeOK ==
  /\ args \in Configurations
  /\ ticker \in BOOLEAN
  /\ fsQueue \in Seq(FileEvents) /\ Len(fsQueue) <= MaxQueue + 1
  /\ watcher \in {"reading", "stuck"}
  /\ notifier \in {"select", "IntervalBased", "FSUpdate"}

\* New and Run of a new process: new ticker, new watcher, nothing pending.
\* There is no event for the state the process starts in.
NotifierInit ==
  /\ ticker = FALSE
  /\ fsQueue = <<>>
  /\ watcher = "reading"
  /\ notifier = "select"

NotifierRestart ==
  /\ ticker' = FALSE
  /\ fsQueue' = <<>>
  /\ watcher' = "reading"
  /\ notifier' = "select"

-----------------------------------------------------------------------------
Tick ==
  /\ args.sleepInterval
  /\ ~ticker
  /\ ticker' = TRUE
  /\ UNCHANGED <<fsQueue, watcher, notifier>>

\* A file changes in a watched directory.  The kernel appends one overflow event
\* when its queue is full and drops the rest.
FileEvent(kind) ==
  /\ IF ~args.kubeletStateDir
       THEN UNCHANGED fsQueue
       ELSE \/ /\ Len(fsQueue) < MaxQueue
               /\ fsQueue' = Append(fsQueue, kind)
            \/ /\ Overflows
               /\ Len(fsQueue) >= MaxQueue
               /\ IF \E i \in DOMAIN fsQueue : fsQueue[i] = "overflow"
                    THEN UNCHANGED fsQueue
                    ELSE fsQueue' = Append(fsQueue, "overflow")
  /\ UNCHANGED <<ticker, watcher, notifier>>

\* The watcher reads the overflow event and sends an error that is never taken.
WatcherError ==
  /\ watcher = "reading"
  /\ fsQueue # <<>> /\ Head(fsQueue) = "overflow"
  /\ watcher' = "stuck"
  /\ fsQueue' = Tail(fsQueue)
  /\ UNCHANGED <<ticker, notifier>>

\* case <-timeEvents
ReceiveTick ==
  /\ notifier = "select"
  /\ ticker
  /\ ticker' = FALSE
  /\ notifier' = "IntervalBased"
  /\ UNCHANGED <<fsQueue, watcher>>

\* Fault: the events queued behind the one received are dropped with it.
ReceiveFSDraining ==
  /\ notifier = "select"
  /\ watcher = "reading"
  /\ fsQueue # <<>> /\ Head(fsQueue) # "overflow"
  /\ fsQueue' = <<>>
  /\ notifier' = IF Head(fsQueue) = "state" THEN "FSUpdate" ELSE "select"
  /\ UNCHANGED <<ticker, watcher>>

\* case e := <-n.fsEvent: only the kubelet's state files make an event.
ReceiveFS ==
  /\ notifier = "select"
  /\ watcher = "reading"
  /\ fsQueue # <<>> /\ Head(fsQueue) # "overflow"
  /\ fsQueue' = Tail(fsQueue)
  /\ notifier' = IF Head(fsQueue) = "state" THEN "FSUpdate" ELSE "select"
  /\ UNCHANGED <<ticker, watcher>>

\* The send completes: the updater's loop takes the event.
Send(event) ==
  /\ notifier = event
  /\ event # "select"
  /\ notifier' = "select"
  /\ UNCHANGED <<ticker, fsQueue, watcher>>

NotifierStep == Tick \/ WatcherError \/ ReceiveTick \/ ReceiveFS

=============================================================================
