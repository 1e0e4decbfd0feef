---------------------------- MODULE Availability ----------------------------
(***************************************************************************)
(* The windows in which candidates say they are available, and the         *)
(* interviews that fall when a window is taken back                        *)
(* (app/modules/availability and its entries in app/modules/portal).       *)
(*                                                                         *)
(* A window is refused unless its type is known, it lasts 30 to 480        *)
(* minutes and begins at least an hour from now; what is refused changes   *)
(* nothing and is left out.  Rows of interviews have a version, rows of    *)
(* windows have none.                                                      *)
(***************************************************************************)
EXTENDS Integers, FiniteSets

CONSTANTS
  Candidates,
  Windows,
  Interviews,
  MaxActive,     (* MAX_ACTIVE_SLOTS: windows a candidate may have at once  *)
  Callers        (* requests that may be served at once                     *)

VARIABLES
  window,        (* owner, status and the interviews within each window     *)
  interview,     (* status of the interviews of the organization            *)
  booking        (* what each request is doing                              *)

availabilityVars == <<window, interview, booking>>

SlotStatus == {"SCHEDULED", "IN_PROGRESS", "COMPLETE", "CANCELLED"}

WindowRows ==
  [owner: Candidates, status: {"ACTIVE", "CANCELLED"}, within: SUBSET Interviews]

NoWindow == [status |-> "NONE"]

Ready == [phase |-> "ready"]

(* moved: an interview that was found has been written since.              *)
Bookings ==
  {Ready}
    \cup [phase: {"counted"}, owner: Candidates]
    \cup [phase: {"cancel"}, window: Windows]
    \cup [phase: {"cascade"}, window: Windows, found: SUBSET Interviews, moved: BOOLEAN]

AvailabilityTypeOK ==
  /\ window \in [Windows -> WindowRows \cup {NoWindow}]
  /\ interview \in [Interviews -> SlotStatus]
  /\ booking \in [Callers -> Bookings]

Init ==
  /\ window = [w \in Windows |-> NoWindow]
  /\ interview = [i \in Interviews |-> "SCHEDULED"]
  /\ booking = [r \in Callers |-> Ready]

Active(c) == {w \in Windows : window[w].status = "ACTIVE" /\ window[w].owner = c}

-----------------------------------------------------------------------------
(* create_availability.                                                    *)

CountLate(r, c) ==  (* mutation: one window more than the limit            *)
  /\ booking[r] = Ready
  /\ Cardinality(Active(c)) <= MaxActive
  /\ booking' = [booking EXCEPT ![r] = [phase |-> "counted", owner |-> c]]
  /\ UNCHANGED <<window, interview>>

(* _check_active_slot_limit.                                               *)
Count(r, c) ==
  /\ booking[r] = Ready
  /\ Cardinality(Active(c)) < MaxActive
  /\ booking' = [booking EXCEPT ![r] = [phase |-> "counted", owner |-> c]]
  /\ UNCHANGED <<window, interview>>

(* The insert and its commit: nothing counts again.                        *)
Insert(r, w, within) ==
  /\ booking[r].phase = "counted"
  /\ window[w] = NoWindow
  /\ window' = [window EXCEPT ![w] =
       [owner |-> booking[r].owner, status |-> "ACTIVE", within |-> within]]
  /\ booking' = [booking EXCEPT ![r] = Ready]
  /\ UNCHANGED interview

-----------------------------------------------------------------------------
(* cancel_availability, which no endpoint calls yet.                       *)

(* The window, whatever its status.                                        *)
ReadWindow(r, w) ==
  /\ booking[r] = Ready
  /\ window[w] # NoWindow
  /\ booking' = [booking EXCEPT ![r] = [phase |-> "cancel", window |-> w]]
  /\ UNCHANGED <<window, interview>>

(* The scheduled interviews within it, whoever's they are.  The window has *)
(* been flushed by then; the lock that leaves on its row only makes a      *)
(* second cancellation wait.                                               *)
FindInterviews(r) ==
  LET w == booking[r].window
  IN  /\ booking[r].phase = "cancel"
      /\ booking' = [booking EXCEPT ![r] =
           [phase |-> "cascade", window |-> w, moved |-> FALSE,
            found |-> {i \in window[w].within : interview[i] = "SCHEDULED"}]]
      /\ UNCHANGED <<window, interview>>

(* What writes the interviews of a set moves them for the requests that    *)
(* have found one of them.                                                 *)
Moves(written) ==
  [p \in Callers |->
     IF booking[p].phase = "cascade" /\ booking[p].found \cap written # {}
       THEN [booking[p] EXCEPT !.moved = TRUE]
       ELSE booking[p]]

CancelAll(r) ==
  /\ window' = [window EXCEPT ![booking[r].window].status = "CANCELLED"]
  /\ interview' = [i \in Interviews |->
       IF i \in booking[r].found THEN "CANCELLED" ELSE interview[i]]
  /\ booking' = [Moves(booking[r].found) EXCEPT ![r] = Ready]

CascadeUnversioned(r) ==  (* mutation: what moved is overwritten           *)
  /\ booking[r].phase = "cascade"
  /\ CancelAll(r)

(* The window and its interviews fall in one commit, or none does.         *)
Cascade(r) ==
  /\ booking[r].phase = "cascade"
  /\ ~booking[r].moved
  /\ CancelAll(r)

-----------------------------------------------------------------------------
(* The other endpoints of an interview set whatever status they are given. *)
MoveInterview(i, status) ==
  /\ status # interview[i]
  /\ interview' = [interview EXCEPT ![i] = status]
  /\ booking' = Moves({i})
  /\ UNCHANGED window

(* A request that is refused, finds an interview moved, or ends with the   *)
(* process.                                                                *)
Abandon(r) ==
  /\ booking[r] # Ready
  /\ booking' = [booking EXCEPT ![r] = Ready]
  /\ UNCHANGED <<window, interview>>

Next ==
  \/ \E r \in Callers :
       \/ \E c \in Candidates : Count(r, c)
       \/ \E w \in Windows, within \in SUBSET Interviews : Insert(r, w, within)
       \/ \E w \in Windows : ReadWindow(r, w)
       \/ FindInterviews(r)
       \/ Cascade(r)
       \/ Abandon(r)
  \/ \E i \in Interviews, status \in SlotStatus : MoveInterview(i, status)

Spec == Init /\ [][Next]_availabilityVars

-----------------------------------------------------------------------------
(* Properties.                                                             *)

(* Every request that counted before another's insert may exceed the       *)
(* limit, by one window each: nothing counts again, and no constraint does. *)
ActiveOverrunIsBounded ==
  \A c \in Candidates : Cardinality(Active(c)) < MaxActive + Cardinality(Callers)

(* The cancellation of a window cancels no interview that was held or      *)
(* cancelled since it was found: the window stays as it is instead.        *)
CascadeHitsScheduled ==
  [][\A r \in Callers, i \in Interviews :
       /\ booking[r].phase = "cascade" /\ booking'[r] = Ready
       /\ interview'[i] # interview[i]
       => interview[i] = "SCHEDULED"]_availabilityVars

-----------------------------------------------------------------------------
(* Statements of the documentation that the code does not keep.            *)

(* "409: If active slot limit exceeded".                                   *)
LimitIsKept == \A c \in Candidates : Cardinality(Active(c)) <= MaxActive

(* "Automatically cancels any overlapping interview slots that are in      *)
(* SCHEDULED status": one scheduled after they were looked for stays.      *)
CancelledIsClear ==
  [][\A w \in Windows :
       window[w].status = "ACTIVE" /\ window'[w].status = "CANCELLED" =>
         \A i \in window[w].within : interview'[i] # "SCHEDULED"]_window
=============================================================================
