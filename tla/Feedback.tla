------------------------------ MODULE Feedback ------------------------------
(***************************************************************************)
(* The feedback of interviewers on their interviews (app/modules/feedback).*)
(*                                                                         *)
(* The service reads the feedback and its slot, and writes them when the   *)
(* request ends; both have a version, and what has moved since it was read *)
(* fails the write.  A transcript is turned into a draft by an agent, in a *)
(* task of its own that lives as long as the agent takes.                  *)
(*                                                                         *)
(* Ratings outside 1..5, an unknown recommendation, a narrative or a       *)
(* transcript that is too long and a caller who is not the interviewer are *)
(* refused: nothing changes, and they are left out.                        *)
(***************************************************************************)
EXTENDS Integers, FiniteSets

CONSTANTS
  Slots,
  Feedbacks,     (* ids of feedback rows                                    *)
  Contents,      (* ratings, narrative and recommendation                   *)
  NoContent,     (* what a draft of the agent has until the agent answers   *)
  NoFeedback,
  Editors        (* requests that may be served at once                     *)

VARIABLES
  feedback,      (* the rows                                                *)
  pointer,       (* feedback_id of each slot                                *)
  edit,          (* what each request is doing                              *)
  agent          (* the task of each feedback                               *)

feedbackVars == <<feedback, pointer, edit, agent>>

Rows ==
  [slot: Slots, status: {"DRAFT", "SUBMITTED"}, content: Contents \cup {NoContent}]

NoRow == [status |-> "NONE"]

None == [phase |-> "none"]

(* moved: the row that was read has been written since.                    *)
Edits ==
  {None}
    \cup [phase: {"create", "transcript"}, slot: Slots,
          seen: Feedbacks \cup {NoFeedback}, moved: BOOLEAN]
    \cup [phase: {"edit"}, of: Feedbacks, seen: Rows, moved: BOOLEAN]

Tasks ==
  {None} \cup [phase: {"queued"}] \cup [phase: {"asking"}, seen: Rows, moved: BOOLEAN]

FeedbackTypeOK ==
  /\ feedback \in [Feedbacks -> Rows \cup {NoRow}]
  /\ pointer \in [Slots -> Feedbacks \cup {NoFeedback}]
  /\ edit \in [Editors -> Edits]
  /\ agent \in [Feedbacks -> Tasks]

Init ==
  /\ feedback = [f \in Feedbacks |-> NoRow]
  /\ pointer = [s \in Slots |-> NoFeedback]
  /\ edit = [r \in Editors |-> None]
  /\ agent = [f \in Feedbacks |-> None]

-----------------------------------------------------------------------------
(* create_feedback and submit_transcript.                                  *)

(* The slot, of which the caller is the interviewer.                       *)
ReadSlot(r, s, phase) ==
  /\ edit[r] = None
  /\ edit' = [edit EXCEPT ![r] =
       [phase |-> phase, slot |-> s, seen |-> pointer[s], moved |-> FALSE]]
  /\ UNCHANGED <<feedback, pointer, agent>>

(* A write of the slot moves it for whoever has read it.                   *)
SlotMoves(s) ==
  [p \in Editors |->
     IF edit[p].phase \in {"create", "transcript"} /\ edit[p].slot = s
       THEN [edit[p] EXCEPT !.moved = TRUE]
       ELSE edit[p]]

(* The draft, the slot that points to it and, for a transcript, the task   *)
(* of the agent; a reply that fails loses the task.                        *)
AttachUnversioned(r, f, content, task) ==  (* mutation: whatever moved      *)
  LET s == edit[r].slot
  IN  /\ feedback[f] = NoRow
      /\ feedback' = [feedback EXCEPT ![f] =
           [slot |-> s, status |-> "DRAFT", content |-> content]]
      /\ pointer' = [pointer EXCEPT ![s] = f]
      /\ edit' = [SlotMoves(s) EXCEPT ![r] = None]
      /\ agent' = [agent EXCEPT ![f] = task]

Attach(r, f, content, task) ==
  LET s == edit[r].slot
  IN  /\ ~edit[r].moved
      /\ feedback[f] = NoRow
      /\ feedback' = [feedback EXCEPT ![f] =
           [slot |-> s, status |-> "DRAFT", content |-> content]]
      /\ pointer' = [pointer EXCEPT ![s] = f]
      /\ edit' = [SlotMoves(s) EXCEPT ![r] = None]
      /\ agent' = [agent EXCEPT ![f] = task]

Create(r, f, content) ==
  /\ edit[r].phase = "create"
  /\ Attach(r, f, content, None)

SubmitTranscript(r, f) ==
  /\ edit[r].phase = "transcript"
  /\ \E task \in {None, [phase |-> "queued"]} : Attach(r, f, NoContent, task)

(* Any other endpoint that writes the slot.                                *)
MoveSlot(s) ==
  /\ edit' = SlotMoves(s)
  /\ UNCHANGED <<feedback, pointer, agent>>

-----------------------------------------------------------------------------
(* update_feedback, submit_feedback and the task of the agent.             *)

(* The feedback and its slot; a submitted feedback is refused.             *)
ReadFeedback(r, f) ==
  /\ edit[r] = None
  /\ feedback[f].status = "DRAFT"
  /\ edit' = [edit EXCEPT ![r] =
       [phase |-> "edit", of |-> f, seen |-> feedback[f], moved |-> FALSE]]
  /\ UNCHANGED <<feedback, pointer, agent>>

(* A write of a feedback moves it for whoever else has read it.            *)
Moved(p, f) ==
  IF edit[p].phase = "edit" /\ edit[p].of = f
    THEN [edit[p] EXCEPT !.moved = TRUE] ELSE edit[p]

MovedTask(f) ==
  IF agent[f].phase = "asking" THEN [agent[f] EXCEPT !.moved = TRUE] ELSE agent[f]

(* A request writes what it makes of the row it has read: the row is sent, *)
(* and its version compared, when a column changes.                        *)
Write(r, row) ==
  LET f == edit[r].of
  IN  /\ edit[r].phase = "edit"
      /\ IF row = edit[r].seen
           THEN /\ edit' = [edit EXCEPT ![r] = None]
                /\ UNCHANGED <<feedback, agent>>
           ELSE /\ ~edit[r].moved
                /\ feedback' = [feedback EXCEPT ![f] = row]
                /\ edit' = [p \in Editors |-> IF p = r THEN None ELSE Moved(p, f)]
                /\ agent' = [agent EXCEPT ![f] = MovedTask(f)]
      /\ UNCHANGED pointer

(* New content.  Where the agent has given none yet all of it is needed:   *)
(* the validation fails on what is not there.                              *)
Update(r, content) == Write(r, [edit[r].seen EXCEPT !.content = content])

(* Nothing is asked of the content.                                        *)
Submit(r) == Write(r, [edit[r].seen EXCEPT !.status = "SUBMITTED"])

(* The task reads the feedback, whatever its status by then ...            *)
AgentReads(f) ==
  /\ agent[f].phase = "queued"
  /\ agent' = [agent EXCEPT ![f] =
       [phase |-> "asking", seen |-> feedback[f], moved |-> FALSE]]
  /\ UNCHANGED <<feedback, pointer, edit>>

AgentOverwrites(f, content) ==  (* mutation: the version is not compared    *)
  /\ agent[f].phase = "asking"
  /\ feedback' = [feedback EXCEPT ![f].content = content]
  /\ edit' = [p \in Editors |-> Moved(p, f)]
  /\ agent' = [agent EXCEPT ![f] = None]
  /\ UNCHANGED pointer

(* ... asks the agent, and writes what it is told.                         *)
AgentAnswers(f, content) ==
  /\ agent[f].phase = "asking"
  /\ ~agent[f].moved
  /\ feedback' = [feedback EXCEPT ![f].content = content]
  /\ edit' = [p \in Editors |-> Moved(p, f)]
  /\ agent' = [agent EXCEPT ![f] = None]
  /\ UNCHANGED pointer

(* The agent fails, its answer does not fit the row, the row has moved, or *)
(* the process ends: the draft stays, and nothing asks again.              *)
AgentFails(f) ==
  /\ agent[f] # None
  /\ agent' = [agent EXCEPT ![f] = None]
  /\ UNCHANGED <<feedback, pointer, edit>>

(* A request that is refused, finds its row moved, or whose reply fails    *)
(* before the commit: its transaction is rolled back.                      *)
Abandon(r) ==
  /\ edit[r] # None
  /\ edit' = [edit EXCEPT ![r] = None]
  /\ UNCHANGED <<feedback, pointer, agent>>

Next ==
  \/ \E r \in Editors :
       \/ \E s \in Slots, phase \in {"create", "transcript"} : ReadSlot(r, s, phase)
       \/ \E f \in Feedbacks, content \in Contents : Create(r, f, content)
       \/ \E f \in Feedbacks : SubmitTranscript(r, f)
       \/ \E f \in Feedbacks : ReadFeedback(r, f)
       \/ \E content \in Contents : Update(r, content)
       \/ Submit(r)
       \/ Abandon(r)
  \/ \E s \in Slots : MoveSlot(s)
  \/ \E f \in Feedbacks :
       \/ AgentReads(f)
       \/ \E content \in Contents \cup {NoContent} : AgentAnswers(f, content)
       \/ AgentFails(f)

Spec == Init /\ [][Next]_feedbackVars

-----------------------------------------------------------------------------
(* Properties.                                                             *)

(* No one attaches a feedback to a slot over another that was attached     *)
(* after the slot was read: the second of two requests fails, and its      *)
(* feedback with it.                                                       *)
ReplacedWasSeen ==
  [][\A s \in Slots : pointer'[s] # pointer[s] =>
       \E r \in Editors : /\ edit[r].phase \in {"create", "transcript"}
                          /\ edit[r].slot = s /\ edit[r].seen = pointer[s]
                          /\ edit'[r] = None]_feedbackVars

(* What is submitted is what the interviewer had read, and after that only *)
(* an agent's task that read the feedback as submitted still writes it: no *)
(* edit and no task that was under way does.                               *)
SubmittedIsAsRead ==
  [][\A f \in Feedbacks :
       feedback'[f] # feedback[f] /\ "SUBMITTED" \in {feedback[f].status, feedback'[f].status} =>
         \/ \E r \in Editors : /\ edit[r].phase = "edit" /\ edit[r].of = f
                               /\ edit[r].seen = feedback[f]
                               /\ feedback'[f] = [feedback[f] EXCEPT !.status = "SUBMITTED"]
         \/ agent[f].phase = "asking" /\ agent[f].seen = feedback[f]]_feedbackVars

-----------------------------------------------------------------------------
(* Statements of the documentation that the code does not keep.            *)

(* submit_feedback: "After submission, feedback cannot be edited."         *)
SubmittedIsFrozen ==
  [][\A f \in Feedbacks :
       feedback[f].status = "SUBMITTED" => feedback'[f] = feedback[f]]_feedback

(* submit_transcript: "then queues background task to invoke               *)
(* BehavioralFeedbackAgent"; a reply that fails leaves a draft with none.  *)
DraftHasTask ==
  [][\A f \in Feedbacks :
       feedback[f] = NoRow /\ feedback'[f] # NoRow /\ feedback'[f].content = NoContent =>
         agent'[f] # None]_feedbackVars
=============================================================================
