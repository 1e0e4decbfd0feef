---------------------------- MODULE Notifications ----------------------------
(***************************************************************************)
(* The reminders of interviews: the loop of main.py, the sweep that finds  *)
(* the interviews of the next day, and the delivery of a mail in several   *)
(* attempts (app/modules/notifications).                                   *)
(*                                                                         *)
(* Time is counted in minutes.  A sleep lasts as long as it says and what  *)
(* happens between two sleeps takes no time: an attempt comes back at once *)
(* or, as nothing limits it, never.  The records of a sweep are   *)
(* flushed and never committed: nobody sees them.  What is assumed of the  *)
(* constants is in module Records.                                         *)
(***************************************************************************)
EXTENDS Integers, FiniteSets

CONSTANTS
  Slots,
  Interval,      (* INTERVIEW_REMINDER_INTERVAL_MINUTES, 15                 *)
  Window,        (* 24 hours                                                *)
  MaxAttempts,   (* 5                                                       *)
  MaxFaults      (* sweeps that fail and restarts in one behaviour          *)

VARIABLES
  left,          (* minutes to the start of each interview                  *)
  open,          (* SCHEDULED, and the invitation pending or accepted       *)
  sweep,
  faults,
  waited,        (* history: minutes a slot has been due and not taken up   *)
  reminded       (* history: slots a mail has gone out for                  *)

vars == <<left, open, sweep, faults, waited, reminded>>

BackOff(attempt) == 2 ^ (attempt - 1)

(* All the back-offs of one delivery.                                      *)
Total == 2 ^ (MaxAttempts - 1) - 1

(* An interview that is long over, or not there.                           *)
Over == -Total - 1

Horizon == Window + 1

Asleep == [phase |-> "asleep", wait |-> Interval]

Sweeps ==
  [phase: {"asleep"}, wait: 0..Interval]
    \cup [phase: {"next"}, found: SUBSET Slots]
    \cup [phase: {"trying"}, found: SUBSET Slots, slot: Slots, attempt: 1..MaxAttempts]
    \cup [phase: {"backing"}, found: SUBSET Slots, slot: Slots, attempt: 1..MaxAttempts,
          wait: 0..Total]

TypeOK ==
  /\ left \in [Slots -> Over..Horizon]
  /\ open \in [Slots -> BOOLEAN]
  /\ sweep \in Sweeps
  /\ faults \in 0..MaxFaults
  /\ waited \in [Slots -> Nat]
  /\ reminded \in SUBSET Slots

Init ==
  /\ left = [s \in Slots |-> Over]
  /\ open = [s \in Slots |-> FALSE]
  /\ sweep = Asleep
  /\ faults = 0
  /\ waited = [s \in Slots |-> 0]
  /\ reminded = {}

Soon(s) == left[s] \in 0..Window

Due(s) == open[s] /\ Soon(s)

(* What the sweep still has to do with.                                    *)
InHand ==
  CASE sweep.phase = "asleep" -> {}
    [] sweep.phase = "next" -> sweep.found
    [] OTHER -> sweep.found \cup {sweep.slot}

Backing(s) == sweep.phase = "backing" /\ sweep.slot = s

-----------------------------------------------------------------------------
(* The interviews, which the endpoints of the slots write.                 *)

Plan(s, t) ==
  /\ left[s] = Over
  /\ s \notin InHand
  /\ left' = [left EXCEPT ![s] = t]
  /\ open' = [open EXCEPT ![s] = TRUE]
  /\ waited' = [waited EXCEPT ![s] = 0]
  /\ reminded' = reminded \ {s}
  /\ UNCHANGED <<sweep, faults>>

(* Cancelled, declined, or back again.                                     *)
Change(s) ==
  /\ left[s] > Over
  /\ open' = [open EXCEPT ![s] = ~@]
  /\ waited' = [waited EXCEPT ![s] = 0]
  /\ UNCHANGED <<left, sweep, faults, reminded>>

(* A minute passes when nothing remains to be done in this one.            *)
Tick ==
  /\ sweep.phase \in {"asleep", "backing"}
  /\ sweep.wait > 0
  /\ sweep' = [sweep EXCEPT !.wait = @ - 1]
  /\ left' = [s \in Slots |-> IF left[s] > Over THEN left[s] - 1 ELSE Over]
  /\ waited' = [s \in Slots |-> IF Due(s) /\ ~Backing(s) THEN waited[s] + 1 ELSE 0]
  /\ open' = [s \in Slots |-> open[s] /\ left[s] > Over + 1]
  /\ UNCHANGED <<faults, reminded>>

-----------------------------------------------------------------------------
(* The sweep.                                                              *)

(* run_reminder_check: the due slots of every organization, in an order    *)
(* the query leaves open.                                                  *)
Select ==
  /\ sweep.phase = "asleep"
  /\ sweep.wait = 0
  /\ sweep' = [phase |-> "next", found |-> {s \in Slots : Due(s)}]
  /\ UNCHANGED <<left, open, faults, waited, reminded>>

Rest(s) == sweep.found \ {s}

TakeUnchecked(s) ==  (* mutation: no look at the clock before the delivery  *)
  /\ sweep.phase = "next"
  /\ s \in sweep.found
  /\ waited' = [waited EXCEPT ![s] = 0]
  /\ sweep' = [phase |-> "trying", found |-> Rest(s), slot |-> s, attempt |-> 1]
  /\ UNCHANGED <<left, open, faults, reminded>>

(* send_24h_reminder and the beginning of deliver.  The session still      *)
(* holds the rows of the select: the status that is checked is the one     *)
(* that was found, whatever it is by now; the clock is read again.  A      *)
(* slot that has begun is skipped, and so is any whose delivery is         *)
(* switched off, for the system or the organization, or has no template.   *)
Take(s) ==
  /\ sweep.phase = "next"
  /\ s \in sweep.found
  /\ waited' = [waited EXCEPT ![s] = 0]
  /\ \/ sweep' = [phase |-> "next", found |-> Rest(s)]
     \/ /\ Soon(s)
        /\ sweep' = [phase |-> "trying", found |-> Rest(s), slot |-> s, attempt |-> 1]
  /\ UNCHANGED <<left, open, faults, reminded>>

(* The server has the mail.                                                *)
Deliver ==
  /\ sweep.phase = "trying"
  /\ reminded' = reminded \cup {sweep.slot}
  /\ sweep' = [phase |-> "next", found |-> sweep.found]
  /\ UNCHANGED <<left, open, faults, waited>>

BackAgain ==
  [phase |-> "backing", found |-> sweep.found, slot |-> sweep.slot,
   attempt |-> sweep.attempt, wait |-> BackOff(sweep.attempt)]

(* An attempt fails before the mail has gone, or after: the server takes   *)
(* the mail and then the connection is lost.                               *)
Loses ==
  /\ sweep.phase = "trying"
  /\ reminded' \in {reminded, reminded \cup {sweep.slot}}
  /\ UNCHANGED <<left, open, faults, waited>>

RetryForever ==  (* mutation: the attempts are not counted                  *)
  /\ Loses
  /\ sweep' = [BackAgain EXCEPT !.attempt = 0]

Retry ==
  /\ Loses
  /\ sweep.attempt < MaxAttempts
  /\ sweep' = BackAgain

GiveUpAll ==  (* mutation: the last failure is raised and ends the sweep    *)
  /\ Loses
  /\ sweep.attempt = MaxAttempts
  /\ sweep' = Asleep

(* PERMANENTLY_FAILED: the sweep goes on with the next slot.               *)
GiveUp ==
  /\ Loses
  /\ sweep.attempt = MaxAttempts
  /\ sweep' = [phase |-> "next", found |-> sweep.found]

Wake ==
  /\ sweep.phase = "backing"
  /\ sweep.wait = 0
  /\ sweep' = [phase |-> "trying", found |-> sweep.found, slot |-> sweep.slot,
               attempt |-> sweep.attempt + 1]
  /\ UNCHANGED <<left, open, faults, waited, reminded>>

(* The loop of main.py sleeps again.                                       *)
Finish ==
  /\ sweep.phase = "next"
  /\ sweep.found = {}
  /\ sweep' = Asleep
  /\ UNCHANGED <<left, open, faults, waited, reminded>>

(* The sweep fails (the database, two templates where one is asked for) or *)
(* the process restarts: either way it begins with a sleep.                *)
Fail ==
  /\ faults < MaxFaults
  /\ faults' = faults + 1
  /\ sweep' = Asleep
  /\ UNCHANGED <<left, open, waited, reminded>>

(* What the event loop does by itself.                                     *)
Proceed ==
  \/ Select
  \/ \E s \in Slots : Take(s)
  \/ Wake
  \/ Finish

(* What waits for the mail server: an attempt comes back.                  *)
Attempt ==
  \/ Deliver
  \/ Retry
  \/ GiveUp

Next ==
  \/ \E s \in Slots, t \in 1..Horizon : Plan(s, t)
  \/ \E s \in Slots : Change(s)
  \/ Tick
  \/ Proceed
  \/ Attempt
  \/ Fail

Behaviour == Init /\ [][Next]_vars

(* The process runs and the clock with it.  An attempt owes nothing:       *)
(* smtplib is called in the event loop and without a time-out, so a server *)
(* that takes the connection and says nothing keeps it for ever, and the   *)
(* process with it.                                                        *)
Spec == Behaviour /\ WF_vars(Tick) /\ WF_vars(Proceed)

-----------------------------------------------------------------------------
(* Properties.                                                             *)

(* A reminder goes out within the window before the start; one that is     *)
(* retried, at most the back-offs of its own delivery after the start. The *)
(* back-offs of the slots before it do not count, however many they are:   *)
(* the clock is read again for each.                                       *)
RemindersAreTimely ==
  sweep.phase = "trying" => left[sweep.slot] \in -Total..Window

(* A slot that stays due is taken up, whatever the other deliveries do:    *)
(* it waits for the sweep that runs, for a sleep, and for the other slots  *)
(* of its own sweep, each through all its back-offs; and all that again    *)
(* for every sweep that fails.  What an attempt itself takes is not        *)
(* counted.                                                                *)
LongestWait ==
  (MaxFaults + 1) * Interval + (MaxFaults + 2) * (Cardinality(Slots) - 1) * Total

DueIsTakenUp == \A s \in Slots : waited[s] <= LongestWait

(* Nothing but an attempt that never comes back holds a sweep for ever:    *)
(* attempts that fail, however many, back-offs and slots that keep coming  *)
(* do not.                                                                 *)
SweepEndsOrHangs ==
  (sweep.phase # "asleep") ~> (sweep.phase = "asleep" \/ [](sweep.phase = "trying"))

-----------------------------------------------------------------------------
(* Statements of the documentation that the code does not keep.            *)

(* _run_notification_reminder_scheduler: "runs 24-hour reminder check      *)
(* every 15 minutes".  It does not when an attempt never comes back.       *)
SweepsRecur == []<>(sweep.phase = "asleep")

(* send_24h_reminder: "Conditions: Slot status is SCHEDULED".              *)
CancelledIsNotReminded == [][Deliver => open[sweep.slot]]_vars

(* Requirement 8.5 speaks of "a reminder email"; every sweep of the day    *)
(* sends one.                                                              *)
OneReminder == [][Deliver => sweep.slot \notin reminded]_vars
=============================================================================
