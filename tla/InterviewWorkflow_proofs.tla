----------------------- MODULE InterviewWorkflow_proofs -----------------------
(***************************************************************************)
(* Proofs about modules Journeys and Surveys and their composition         *)
(* InterviewWorkflow, for any journeys, requests and faults.               *)
(*                                                                         *)
(* For a journey the argument rests on LoadedInv: a loaded request whose   *)
(* version is the current one has seen the current stage, so the version   *)
(* test of the UPDATE stands for a test of the stage.  For a survey, whose *)
(* statuses a sweep and a request hold in memory stale, what carries the   *)
(* proofs is that both close a survey and its token together, and that     *)
(* only the sweep writes what a reminder selects on.                       *)
(***************************************************************************)
EXTENDS InterviewWorkflow, SequenceTheorems, FiniteSetTheorems, TLAPS

(* Every permitted transition goes from a stage that is not terminal to a  *)
(* stage other than itself and other than SOURCED.                         *)
LEMMA PermittedStages ==
  ASSUME NEW from \in Stages, NEW to, Permitted(from, to)
  PROVE  /\ to \in Stages
         /\ to # "SOURCED"
         /\ from \notin TERMINAL_STAGES
         /\ from # "OFFER_ACCEPTED"
  BY DEF Stages, Permitted, VALID_TRANSITIONS, TERMINAL_STAGES

(* A request in phase loaded has the fields of one, and so for committed.  *)
LEMMA RequestShape ==
  ASSUME TypeOK, NEW r \in Requests
  PROVE  /\ request[r].phase = "loaded" => request[r] \in Loaded
         /\ request[r].phase = "committed" => request[r] \in Committed
  BY DEF TypeOK, Idle, Loaded, Committed

LEMMA TypeInit == Init => TypeOK
  BY DEF Init, TypeOK, Idle, Answers

LEMMA TypeStep == TypeOK /\ [Next]_vars => TypeOK'
<1> SUFFICES ASSUME TypeOK, [Next]_vars PROVE TypeOK'
  OBVIOUS
<1>1. ASSUME NEW r \in Requests, NEW j \in Journeys, Create(r, j)
      PROVE  TypeOK'
  BY <1>1 DEF TypeOK, Create, Created, EventsOf, Stages, Committed, Idle, Loaded
<1>2. ASSUME NEW r \in Requests, NEW j \in Journeys, NEW to \in Stages,
             NEW tooLong \in BOOLEAN, Load(r, j, to, tooLong)
      PROVE  TypeOK'
  BY <1>2 DEF TypeOK, Load, Loaded, rows
<1>3. ASSUME NEW r \in Requests, NEW code \in Answers, Answer(r, code)
      PROVE  request' \in [Requests -> {Idle(a) : a \in Answers} \cup Loaded \cup Committed]
  BY <1>3 DEF TypeOK, Answer
<1>4. ASSUME NEW r \in Requests, Reject(r) PROVE TypeOK'
  BY <1>3, <1>4 DEF TypeOK, Reject, rows, Answers
<1>5. ASSUME NEW r \in Requests, Transition(r) PROVE TypeOK'
  <2> DEFINE j == request[r].journey
             step == [from |-> request[r].stage, to |-> request[r].to]
  <2>1. j \in Journeys /\ step \in Steps /\ request[r].to \in Stages
    BY <1>5, RequestShape DEF Transition, Completes, Accepted, Loaded, Steps
  <2>2. Changed(step) \in EventsOf
    BY <2>1 DEF Changed, EventsOf, Steps
  <2>3. /\ stage' \in [Journeys -> Stages \cup {"NONE"}]
        /\ overall' \in [Journeys -> {"ACTIVE", "COMPLETED"}]
        /\ version' \in [Journeys -> Nat]
        /\ sealed' \in [Journeys -> BOOLEAN]
        /\ asked' \in [Journeys -> Nat]
        /\ surveyTasks' \in SUBSET Journeys
    BY <1>5, <2>1 DEF Transition, Completes, TypeOK
  <2>4. history' \in [Journeys -> Seq(Steps)]
    BY <1>5, <2>1 DEF Transition, Completes, TypeOK
  <2>5. outbox' \in [Journeys -> Seq(EventsOf)]
    BY <1>5, <2>1, <2>2 DEF Transition, Completes, TypeOK
  <2>6. request' \in [Requests -> {Idle(a) : a \in Answers} \cup Loaded \cup Committed]
    BY <1>5, <2>1 DEF Transition, Completes, TypeOK, Committed, AsksForSurvey
  <2> QED
    BY <2>3, <2>4, <2>5, <2>6 DEF TypeOK
<1>6. ASSUME NEW r \in Requests, Stale(r) \/ Fail(r) PROVE TypeOK'
  BY <1>3, <1>6 DEF TypeOK, Stale, Fail, rows, Answers
<1>7. ASSUME NEW r \in Requests, Respond(r) PROVE TypeOK'
  <2>1. request[r].journey \in Journeys
    BY <1>7, RequestShape DEF Respond, Committed
  <2> QED
    BY <1>3, <1>7, <2>1 DEF TypeOK, Respond, rows, Answers
<1>8. ASSUME NEW r \in Requests, ResponseFails(r) PROVE TypeOK'
  BY <1>3, <1>8 DEF TypeOK, ResponseFails, rows, Answers
<1>9. ASSUME NEW j \in Journeys, TakeSurveyTask(j) PROVE TypeOK'
  BY <1>9 DEF TypeOK, TakeSurveyTask, rows
<1>10. CASE Crash
  BY <1>10 DEF TypeOK, Crash, rows, Answers
<1>11. CASE UNCHANGED vars
  BY <1>11 DEF TypeOK, vars, rows
<1> QED
  BY <1>1, <1>2, <1>4, <1>5, <1>6, <1>7, <1>8, <1>9, <1>10, <1>11 DEF Next, Serve

(* The variables of the service keep their types.                          *)
THEOREM TypeCorrect == Spec => []TypeOK
  BY TypeInit, TypeStep, PTL DEF Spec

-----------------------------------------------------------------------------
(* What a loaded request knows: its journey exists, versions only grow,    *)
(* and at the same version the stage is the one it has read.               *)
LoadedInv ==
  \A r \in Requests :
    request[r].phase = "loaded" =>
      /\ stage[request[r].journey] # "NONE"
      /\ request[r].version <= version[request[r].journey]
      /\ request[r].version = version[request[r].journey]
           => request[r].stage = stage[request[r].journey]

LEMMA LoadedInit == Init => LoadedInv
  BY DEF Init, LoadedInv, Idle

LEMMA LoadedStep == TypeOK /\ LoadedInv /\ [Next]_vars => LoadedInv'
<1> SUFFICES ASSUME TypeOK, LoadedInv, [Next]_vars,
                    NEW s \in Requests, (request[s].phase = "loaded")'
             PROVE  /\ (stage[request[s].journey] # "NONE")'
                    /\ (request[s].version <= version[request[s].journey])'
                    /\ (request[s].version = version[request[s].journey]
                          => request[s].stage = stage[request[s].journey])'
  BY DEF LoadedInv
<1> DEFINE Goal == /\ stage'[request'[s].journey] # "NONE"
                   /\ request'[s].version <= version'[request'[s].journey]
                   /\ request'[s].version = version'[request'[s].journey]
                        => request'[s].stage = stage'[request'[s].journey]
<1>1. ASSUME request'[s] = request[s]
      PROVE  request[s] \in Loaded /\ request[s].journey \in Journeys
  BY <1>1, RequestShape DEF Loaded
<1>2. ASSUME UNCHANGED rows, request'[s] = request[s] PROVE Goal
  BY <1>2 DEF LoadedInv, rows
<1>3. ASSUME NEW r \in Requests, NEW code \in Answers, Answer(r, code)
      PROVE  request'[s] = request[s]
  BY <1>3 DEF Answer, Idle, TypeOK
<1>4. ASSUME NEW r \in Requests, NEW j \in Journeys, Create(r, j) PROVE Goal
  <2>1. request'[s] = request[s]
    BY <1>4 DEF Create, TypeOK
  <2>2. request[s].journey # j
    BY <1>4, <2>1 DEF Create, LoadedInv
  <2> QED
    BY <1>1, <1>4, <2>1, <2>2 DEF Create, TypeOK, LoadedInv
<1>5. ASSUME NEW r \in Requests, NEW j \in Journeys, NEW to \in Stages,
             NEW tooLong \in BOOLEAN, Load(r, j, to, tooLong)
      PROVE  Goal
  <2>1. CASE s = r
    BY <1>5, <2>1 DEF Load, rows, TypeOK
  <2>2. CASE s # r
    BY <1>2, <1>5, <2>2 DEF Load, TypeOK
  <2> QED
    BY <2>1, <2>2
<1>6. ASSUME NEW r \in Requests, Transition(r) PROVE Goal
  <2>1. request'[s] = request[s]
    BY <1>6 DEF Transition, Completes, TypeOK
  <2>2. request[r].journey \in Journeys /\ request[r].to # "NONE"
    BY <1>6, RequestShape DEF Transition, Completes, Accepted, Loaded, Stages
  <2>3. CASE request[s].journey = request[r].journey
    <3>1. version'[request[s].journey] = version[request[s].journey] + 1
      BY <1>6, <2>2, <2>3 DEF Transition, Completes, TypeOK
    <3>2. stage'[request[s].journey] = request[r].to
      BY <1>6, <2>2, <2>3 DEF Transition, Completes, TypeOK
    <3>3. /\ request[s].version \in Nat
          /\ version[request[s].journey] \in Nat
          /\ request[s].version <= version[request[s].journey]
      BY <1>1, <2>1 DEF LoadedInv, Loaded, TypeOK
    <3>4. request[s].version < version'[request[s].journey]
      BY <3>1, <3>3
    <3> QED
      BY <2>1, <2>2, <3>2, <3>3, <3>4, <3>1
  <2>4. CASE request[s].journey # request[r].journey
    BY <1>1, <1>6, <2>1, <2>2, <2>4 DEF Transition, Completes, TypeOK, LoadedInv
  <2> QED
    BY <2>3, <2>4
<1>7. ASSUME NEW r \in Requests,
             Reject(r) \/ Stale(r) \/ Fail(r) \/ Respond(r) \/ ResponseFails(r)
      PROVE  Goal
  <2>1. UNCHANGED rows
    BY <1>7 DEF Reject, Stale, Fail, Respond, ResponseFails
  <2>2. request'[s] = request[s]
    BY <1>3, <1>7 DEF Reject, Stale, Fail, Respond, ResponseFails, Answers
  <2> QED
    BY <1>2, <2>1, <2>2
<1>8. CASE (\E j \in Journeys : TakeSurveyTask(j)) \/ UNCHANGED vars
  BY <1>2, <1>8 DEF TakeSurveyTask, vars
<1>9. CASE Crash
  BY <1>9 DEF Crash, Idle, TypeOK
<1> QED
  BY <1>4, <1>5, <1>6, <1>7, <1>8, <1>9 DEF Next, Serve

THEOREM LoadedCorrect == Spec => []LoadedInv
  BY LoadedInit, LoadedStep, TypeCorrect, PTL DEF Spec

(* The only steps that write rows: the creation of a journey, and a        *)
(* transition, which then leaves the stage its journey is in.              *)
LEMMA RowSteps ==
  ASSUME TypeOK, LoadedInv, [Next]_vars
  PROVE  \/ UNCHANGED <<rows, asked>>
         \/ \E r \in Requests, j \in Journeys : Create(r, j)
         \/ \E r \in Requests :
              /\ Transition(r)
              /\ request[r].journey \in Journeys
              /\ request[r].to \in Stages
              /\ stage[request[r].journey] \in Stages
              /\ request[r].stage = stage[request[r].journey]
              /\ Permitted(stage[request[r].journey], request[r].to)
<1>1. ASSUME NEW r \in Requests, Transition(r)
      PROVE  /\ request[r].journey \in Journeys
             /\ request[r].to \in Stages
             /\ stage[request[r].journey] \in Stages
             /\ request[r].stage = stage[request[r].journey]
             /\ Permitted(stage[request[r].journey], request[r].to)
  BY <1>1, RequestShape DEF Transition, Completes, Accepted, Unchanged, Loaded, LoadedInv, TypeOK
<1> QED
  BY <1>1 DEF Next, Serve, vars, Load, Reject, Stale, Fail, Respond, ResponseFails,
              TakeSurveyTask, Crash

-----------------------------------------------------------------------------
(* Transition, with the facts of RowSteps, seen from the rows it writes.   *)
LEMMA TransitionRows ==
  ASSUME TypeOK, NEW r \in Requests, Transition(r),
         NEW j \in Journeys, j = request[r].journey,
         NEW step, step = [from |-> stage[j], to |-> request[r].to],
         request[r].stage = stage[j]
  PROVE  /\ stage' = [stage EXCEPT ![j] = step.to]
         /\ history' = [history EXCEPT ![j] = Append(@, step)]
         /\ outbox' = [outbox EXCEPT ![j] = Append(@, Changed(step))]
         /\ asked' = [asked EXCEPT ![j] = IF AsksForSurvey(step.from, step.to)
                                          THEN @ + 1 ELSE @]
  BY DEF Transition, Completes

LEMMA HistoryStep ==
  TypeOK /\ LoadedInv /\ HistoryIsPath /\ [Next]_vars => HistoryIsPath'
<1> SUFFICES ASSUME TypeOK, LoadedInv, HistoryIsPath, [Next]_vars
             PROVE  HistoryIsPath'
  OBVIOUS
<1>1. CASE UNCHANGED <<rows, asked>>
  BY <1>1 DEF rows, HistoryIsPath, Reached
<1>2. ASSUME NEW r \in Requests, NEW j \in Journeys, Create(r, j)
      PROVE  HistoryIsPath'
  BY <1>2 DEF Create, HistoryIsPath, Reached, TypeOK
<1>3. ASSUME NEW r \in Requests, Transition(r),
             request[r].journey \in Journeys,
             request[r].to \in Stages,
             stage[request[r].journey] \in Stages,
             request[r].stage = stage[request[r].journey],
             Permitted(stage[request[r].journey], request[r].to)
      PROVE  HistoryIsPath'
  <2> DEFINE j == request[r].journey
             step == [from |-> stage[j], to |-> request[r].to]
  <2>1. /\ stage' = [stage EXCEPT ![j] = step.to]
        /\ history' = [history EXCEPT ![j] = Append(@, step)]
    BY <1>3, TransitionRows
  <2> SUFFICES ASSUME NEW k \in Journeys
               PROVE  /\ stage'[k] = "NONE" => history'[k] = <<>>
                      /\ stage'[k] # "NONE" => stage'[k] = Reached(k)'
                      /\ \A i \in 1 .. Len(history'[k]) :
                           /\ Permitted(history'[k][i].from, history'[k][i].to)
                           /\ history'[k][i].from =
                                IF i = 1 THEN "SOURCED" ELSE history'[k][i - 1].to
    BY DEF HistoryIsPath
  <2>2. CASE k # j
    BY <2>1, <2>2, <1>3 DEF HistoryIsPath, Reached, TypeOK
  <2>3. CASE k = j
    <3>1. /\ history[k] \in Seq(Steps)
          /\ step \in Steps
          /\ history'[k] = Append(history[k], step)
          /\ stage'[k] = step.to
          /\ step.to # "NONE"
          /\ stage[k] = Reached(k)
      BY <1>3, <2>1, <2>3 DEF TypeOK, Steps, Stages, HistoryIsPath
    <3>2. stage'[k] = Reached(k)'
      <4>1. /\ Len(history'[k]) = Len(history[k]) + 1
            /\ history'[k][Len(history[k]) + 1] = step
        BY <3>1
      <4>2. history'[k] # <<>>
        BY <3>1, <4>1
      <4> QED
        BY <3>1, <4>1, <4>2 DEF Reached
    <3>3. ASSUME NEW i \in 1 .. Len(history[k])
          PROVE  /\ history'[k][i] = history[k][i]
                 /\ i # 1 => history'[k][i - 1] = history[k][i - 1]
      BY <3>1
    <3>4. LET n == Len(history[k]) + 1
          IN  /\ history'[k][n] = step
              /\ step.from = IF n = 1 THEN "SOURCED" ELSE history'[k][n - 1].to
      BY <3>1, <2>3 DEF Reached
    <3>5. Permitted(step.from, step.to)
      BY <1>3
    <3> QED
      BY <3>1, <3>2, <3>3, <3>4, <3>5 DEF HistoryIsPath
  <2> QED
    BY <2>2, <2>3
<1> QED
  BY <1>1, <1>2, <1>3, RowSteps

(* Two concurrent transitions never both leave the same stage: the history *)
(* of every journey is a permitted walk that ends in its current stage.    *)
THEOREM HistoryCorrect == Spec => []HistoryIsPath
<1>1. Init => HistoryIsPath
  BY DEF Init, HistoryIsPath
<1> QED
  BY <1>1, HistoryStep, TypeCorrect, LoadedCorrect, PTL DEF Spec

-----------------------------------------------------------------------------
LEMMA AcceptedStep ==
  TypeOK /\ LoadedInv /\ AcceptedCompletedSealed /\ [Next]_vars
    => AcceptedCompletedSealed'
<1> SUFFICES ASSUME TypeOK, LoadedInv, AcceptedCompletedSealed, [Next]_vars
             PROVE  AcceptedCompletedSealed'
  OBVIOUS
<1>1. CASE UNCHANGED <<rows, asked>>
  BY <1>1 DEF rows, AcceptedCompletedSealed
<1>2. ASSUME NEW r \in Requests, NEW j \in Journeys, Create(r, j)
      PROVE  AcceptedCompletedSealed'
  BY <1>2 DEF Create, AcceptedCompletedSealed, TypeOK
<1>3. ASSUME NEW r \in Requests, Transition(r),
             request[r].journey \in Journeys,
             stage[request[r].journey] \in Stages,
             request[r].stage = stage[request[r].journey],
             Permitted(stage[request[r].journey], request[r].to)
      PROVE  AcceptedCompletedSealed'
  <2> DEFINE j == request[r].journey
             step == [from |-> stage[j], to |-> request[r].to]
  <2>1. /\ stage' = [stage EXCEPT ![j] = step.to]
        /\ overall' = [overall EXCEPT ![j] =
                          IF step.to = "OFFER_ACCEPTED" THEN "COMPLETED" ELSE @]
        /\ sealed' = [sealed EXCEPT ![j] = @ \/ step.to = "OFFER_ACCEPTED"]
    BY <1>3 DEF Transition, Completes
  <2>2. stage[j] # "OFFER_ACCEPTED"
    BY <1>3, PermittedStages
  <2> SUFFICES ASSUME NEW k \in Journeys
               PROVE  /\ overall'[k] = "COMPLETED" <=> stage'[k] = "OFFER_ACCEPTED"
                      /\ sealed'[k] <=> stage'[k] = "OFFER_ACCEPTED"
    BY DEF AcceptedCompletedSealed
  <2>3. CASE k # j
    BY <1>3, <2>1, <2>3 DEF AcceptedCompletedSealed, TypeOK
  <2>4. CASE k = j
    <3>1. /\ stage'[k] = step.to
          /\ overall'[k] = IF step.to = "OFFER_ACCEPTED" THEN "COMPLETED" ELSE overall[k]
          /\ overall[k] # "COMPLETED"
      BY <1>3, <2>1, <2>2, <2>4 DEF AcceptedCompletedSealed, TypeOK
    <3>2. sealed'[k] = (sealed[k] \/ step.to = "OFFER_ACCEPTED")
      BY <1>3, <2>1, <2>4, Zenon DEF TypeOK
    <3>3. ~ sealed[k]
      BY <1>3, <2>2, <2>4 DEF AcceptedCompletedSealed
    <3> QED
      BY <3>1, <3>2, <3>3
  <2> QED
    BY <2>3, <2>4
<1> QED
  BY <1>1, <1>2, <1>3, RowSteps

(* No reader of the three tables sees an accepted offer without a complete *)
(* journey and a sealed join record, or either of these without the offer. *)
THEOREM AcceptedCorrect == Spec => []AcceptedCompletedSealed
<1>1. Init => AcceptedCompletedSealed
  BY DEF Init, AcceptedCompletedSealed
<1> QED
  BY <1>1, AcceptedStep, TypeCorrect, LoadedCorrect, PTL DEF Spec

-----------------------------------------------------------------------------
LEMMA TerminalStep ==
  ASSUME TypeOK, LoadedInv, [Next]_vars,
         NEW j \in Journeys, stage[j] \in TERMINAL_STAGES
  PROVE  stage'[j] = stage[j] /\ history'[j] = history[j] /\ version'[j] = version[j]
<1>1. CASE UNCHANGED <<rows, asked>>
  BY <1>1 DEF rows
<1>2. ASSUME NEW r \in Requests, NEW k \in Journeys, Create(r, k)
      PROVE  stage'[j] = stage[j] /\ history'[j] = history[j] /\ version'[j] = version[j]
  BY <1>2 DEF Create, TERMINAL_STAGES, TypeOK
<1>3. ASSUME NEW r \in Requests, Transition(r),
             request[r].journey \in Journeys,
             stage[request[r].journey] \in Stages,
             Permitted(stage[request[r].journey], request[r].to)
      PROVE  stage'[j] = stage[j] /\ history'[j] = history[j] /\ version'[j] = version[j]
  <2>1. j # request[r].journey
    BY <1>3, PermittedStages
  <2> QED
    BY <1>3, <2>1 DEF Transition, Completes, TypeOK
<1> QED
  BY <1>1, <1>2, <1>3, RowSteps

(* No request in flight writes to a journey that has ended.                *)
THEOREM TerminalCorrect == Spec => TerminalIsFinal
<1>1. TypeOK /\ LoadedInv /\ [Next]_vars
        => [\A j \in Journeys :
              stage[j] \in TERMINAL_STAGES =>
                /\ stage'[j] = stage[j]
                /\ history'[j] = history[j]
                /\ version'[j] = version[j]]_rows
  BY TerminalStep
<1> QED
  BY <1>1, TypeCorrect, LoadedCorrect, PTL DEF Spec, TerminalIsFinal

-----------------------------------------------------------------------------
(* The outbox of a journey, event by event.                                *)
OutboxInv ==
  \A j \in Journeys :
    /\ stage[j] = "NONE" => outbox[j] = <<>> /\ history[j] = <<>>
    /\ stage[j] # "NONE" =>
         /\ Len(outbox[j]) = Len(history[j]) + 1
         /\ outbox[j][1] = Created
         /\ \A i \in 1 .. Len(history[j]) : outbox[j][i + 1] = Changed(history[j][i])

LEMMA OutboxStep ==
  TypeOK /\ LoadedInv /\ OutboxInv /\ [Next]_vars => OutboxInv'
<1> SUFFICES ASSUME TypeOK, LoadedInv, OutboxInv, [Next]_vars PROVE OutboxInv'
  OBVIOUS
<1>1. CASE UNCHANGED <<rows, asked>>
  BY <1>1 DEF rows, OutboxInv
<1>2. ASSUME NEW r \in Requests, NEW j \in Journeys, Create(r, j)
      PROVE  OutboxInv'
  BY <1>2 DEF Create, OutboxInv, TypeOK
<1>3. ASSUME NEW r \in Requests, Transition(r),
             request[r].journey \in Journeys,
             request[r].to \in Stages,
             stage[request[r].journey] \in Stages,
             request[r].stage = stage[request[r].journey]
      PROVE  OutboxInv'
  <2> DEFINE j == request[r].journey
             step == [from |-> stage[j], to |-> request[r].to]
  <2>1. /\ stage' = [stage EXCEPT ![j] = step.to]
        /\ history' = [history EXCEPT ![j] = Append(@, step)]
        /\ outbox' = [outbox EXCEPT ![j] = Append(@, Changed(step))]
    BY <1>3, TransitionRows
  <2> SUFFICES ASSUME NEW k \in Journeys
               PROVE  /\ stage'[k] = "NONE" => outbox'[k] = <<>> /\ history'[k] = <<>>
                      /\ stage'[k] # "NONE" =>
                           /\ Len(outbox'[k]) = Len(history'[k]) + 1
                           /\ outbox'[k][1] = Created
                           /\ \A i \in 1 .. Len(history'[k]) :
                                outbox'[k][i + 1] = Changed(history'[k][i])
    BY DEF OutboxInv
  <2>2. CASE k # j
    BY <1>3, <2>1, <2>2 DEF OutboxInv, TypeOK
  <2>3. CASE k = j
    <3>1. /\ history[k] \in Seq(Steps)
          /\ outbox[k] \in Seq(EventsOf)
          /\ history'[k] = Append(history[k], step)
          /\ outbox'[k] = Append(outbox[k], Changed(step))
          /\ stage'[k] # "NONE"
          /\ stage[k] # "NONE"
      BY <1>3, <2>1, <2>3 DEF TypeOK, Stages
    <3>2. /\ Len(outbox[k]) = Len(history[k]) + 1
          /\ outbox[k][1] = Created
          /\ \A i \in 1 .. Len(history[k]) : outbox[k][i + 1] = Changed(history[k][i])
      BY <3>1 DEF OutboxInv
    <3>3. /\ Len(outbox'[k]) = Len(history'[k]) + 1
          /\ outbox'[k][1] = Created
      BY <3>1, <3>2
    <3>4. ASSUME NEW i \in 1 .. Len(history'[k])
          PROVE  outbox'[k][i + 1] = Changed(history'[k][i])
      <4>1. CASE i \in 1 .. Len(history[k])
        BY <3>1, <3>2, <4>1
      <4>2. CASE i = Len(history[k]) + 1
        BY <3>1, <3>2, <4>2
      <4>3. Len(history[k]) \in Nat /\ Len(history'[k]) = Len(history[k]) + 1
        BY <3>1
      <4> QED
        BY <4>1, <4>2, <4>3
    <3> QED
      BY <3>1, <3>3, <3>4
  <2> QED
    BY <2>2, <2>3
<1> QED
  BY <1>1, <1>2, <1>3, RowSteps

LEMMA OutboxImplies == TypeOK /\ OutboxInv => OutboxTellsHistory
<1> SUFFICES ASSUME TypeOK, OutboxInv, NEW j \in Journeys, stage[j] # "NONE"
             PROVE  outbox[j] = <<Created>> \o
                       [i \in 1 .. Len(history[j]) |-> Changed(history[j][i])]
  BY DEF OutboxTellsHistory, OutboxInv
<1> DEFINE told == [i \in 1 .. Len(history[j]) |-> Changed(history[j][i])]
<1>1. /\ history[j] \in Seq(Steps)
      /\ outbox[j] \in Seq(EventsOf)
  BY DEF TypeOK
<1>2. Len(history[j]) \in Nat /\ \A i \in 1 .. Len(history[j]) : history[j][i] \in Steps
  BY <1>1
<1>3. \A i \in 1 .. Len(history[j]) : Changed(history[j][i]) \in EventsOf
  BY <1>2 DEF Changed, EventsOf, Steps
<1>4. Created \in EventsOf
  BY DEF Created, EventsOf, Stages
<1>5. told \in Seq(EventsOf) /\ Len(told) = Len(history[j])
  BY <1>2, <1>3
<1>6. <<Created>> \in Seq(EventsOf) /\ Len(<<Created>>) = 1 /\ <<Created>>[1] = Created
  BY <1>4
<1> HIDE DEF told
<1>7. /\ <<Created>> \o told \in Seq(EventsOf)
      /\ Len(<<Created>> \o told) = 1 + Len(told)
      /\ (<<Created>> \o told)[1] = Created
      /\ \A i \in 1 .. Len(told) : (<<Created>> \o told)[i + 1] = told[i]
  BY <1>5, <1>6
<1>8. ASSUME NEW i \in 1 .. Len(outbox[j])
      PROVE  outbox[j][i] = (<<Created>> \o told)[i]
  <2>1. CASE i = 1
    BY <1>7, <2>1 DEF OutboxInv
  <2>2. CASE i # 1
    <3>1. i - 1 \in 1 .. Len(history[j]) /\ i = (i - 1) + 1
      BY <1>1, <1>2, <2>2 DEF OutboxInv
    <3>2. outbox[j][(i - 1) + 1] = Changed(history[j][i - 1])
      BY <3>1 DEF OutboxInv
    <3>3. (<<Created>> \o told)[(i - 1) + 1] = told[i - 1]
      BY <1>5, <1>7, <3>1
    <3>4. told[i - 1] = Changed(history[j][i - 1])
      BY <3>1 DEF told
    <3> QED
      BY <3>1, <3>2, <3>3, <3>4
  <2> QED
    BY <2>1, <2>2
<1>9. Len(outbox[j]) = Len(<<Created>> \o told)
  BY <1>5, <1>7 DEF OutboxInv
<1>10. outbox[j] = <<Created>> \o told
  BY <1>1, <1>7, <1>8, <1>9, SeqEqual
<1> QED
  BY <1>10 DEF told

(* The committed events of a journey are one creation and then, in order,  *)
(* one change for every history row.                                       *)
THEOREM OutboxCorrect == Spec => []OutboxTellsHistory
<1>1. Init => OutboxInv
  BY DEF Init, OutboxInv
<1> QED
  BY <1>1, OutboxStep, OutboxImplies, TypeCorrect, LoadedCorrect, PTL DEF Spec

-----------------------------------------------------------------------------
(* A journey that has left the interview loop is past it for good, and its *)
(* survey task was counted when it left.                                   *)
SurveyInv ==
  \A j \in Journeys :
    /\ HasLeftLoop(j) => stage[j] \in SurveyStages /\ asked[j] = 1
    /\ ~ HasLeftLoop(j) => asked[j] = 0 /\ j \notin surveyTasks
    /\ \A r \in Requests :
         request[r].phase = "committed" /\ request[r].journey = j /\ request[r].asks
           => HasLeftLoop(j)

(* What VALID_TRANSITIONS says about the loop: it cannot be entered again  *)
(* from the stages after it, and every way out of it asks for a survey.    *)
LEMMA LoopIsLeftOnce ==
  ASSUME NEW from \in Stages, NEW to, Permitted(from, to)
  PROVE  /\ from \in SurveyStages => to \in SurveyStages /\ from # "LOOP_INTERVIEW"
         /\ from = "LOOP_INTERVIEW" <=> AsksForSurvey(from, to)
         /\ AsksForSurvey(from, to) => to \in SurveyStages
  BY DEF Stages, Permitted, VALID_TRANSITIONS, SurveyStages, AsksForSurvey

LEMMA SurveyInit == Init => SurveyInv
  BY DEF Init, SurveyInv, HasLeftLoop, Idle

LEMMA SurveyStep ==
  TypeOK /\ LoadedInv /\ SurveyInv /\ [Next]_vars => SurveyInv'
<1> SUFFICES ASSUME TypeOK, LoadedInv, SurveyInv, [Next]_vars PROVE SurveyInv'
  OBVIOUS
<1>1. ASSUME UNCHANGED <<rows, asked>>,
             surveyTasks' \subseteq surveyTasks,
             \A r \in Requests : request'[r] = request[r] \/ request'[r].phase # "committed"
      PROVE  SurveyInv'
  BY <1>1 DEF rows, SurveyInv, HasLeftLoop
<1>2. ASSUME NEW r \in Requests, NEW code \in Answers, Answer(r, code)
      PROVE  \A s \in Requests : request'[s] = request[s] \/ request'[s].phase # "committed"
  BY <1>2 DEF Answer, Idle, TypeOK
<1>3. ASSUME NEW r \in Requests, NEW j \in Journeys, Create(r, j)
      PROVE  SurveyInv'
  <2>1. ~ HasLeftLoop(j)
    BY <1>3 DEF Create, SurveyInv, SurveyStages
  <2>2. UNCHANGED <<history, asked, surveyTasks>> /\ stage' = [stage EXCEPT ![j] = "SOURCED"]
    BY <1>3 DEF Create
  <2>3. \A s \in Requests : request'[s] = request[s] \/ ~ request'[s].asks
    BY <1>3 DEF Create, TypeOK
  <2>4. \A k \in Journeys : HasLeftLoop(k)' <=> HasLeftLoop(k)
    BY <2>2 DEF HasLeftLoop
  <2>5. \A k \in Journeys : k # j => stage'[k] = stage[k]
    BY <2>2 DEF TypeOK
  <2> QED
    BY <2>1, <2>2, <2>3, <2>4, <2>5 DEF SurveyInv
<1>4. ASSUME NEW r \in Requests, NEW j \in Journeys, NEW to \in Stages,
             NEW tooLong \in BOOLEAN, Load(r, j, to, tooLong)
      PROVE  SurveyInv'
  <2>1. \A s \in Requests : request'[s] = request[s] \/ request'[s].phase # "committed"
    BY <1>4 DEF Load, TypeOK
  <2> QED
    BY <1>1, <1>4, <2>1 DEF Load
<1>5. ASSUME NEW r \in Requests, Transition(r)
      PROVE  SurveyInv'
  <2>0. PICK j \in Journeys : j = request[r].journey
    BY <1>5, RequestShape DEF Transition, Completes, Accepted, Loaded
  <2> DEFINE step == [from |-> stage[j], to |-> request[r].to]
             asks == AsksForSurvey(step.from, step.to)
  <2>1. /\ step \in Steps
        /\ request[r].stage = stage[j]
        /\ Permitted(step.from, step.to)
    BY <1>5, <2>0, RequestShape
    DEF Transition, Completes, Accepted, Unchanged, Loaded, LoadedInv, TypeOK, Steps
  <2>2. /\ stage' = [stage EXCEPT ![j] = step.to]
        /\ history' = [history EXCEPT ![j] = Append(@, step)]
        /\ asked' = [asked EXCEPT ![j] = IF asks THEN @ + 1 ELSE @]
    BY <1>5, <2>0, <2>1, TransitionRows
  <2>3. /\ surveyTasks' = surveyTasks
        /\ request' = [request EXCEPT ![r] =
                         [phase |-> "committed", journey |-> j, asks |-> asks]]
    BY <1>5, <2>0, <2>1 DEF Transition, Completes
  <2>4. HasLeftLoop(j)' <=> HasLeftLoop(j) \/ asks
    <3>1. /\ history[j] \in Seq(Steps)
          /\ history'[j] = Append(history[j], step)
      BY <2>1, <2>2 DEF TypeOK
    <3>2. /\ Len(history[j]) \in Nat
          /\ Len(history'[j]) = Len(history[j]) + 1
          /\ history'[j][Len(history[j]) + 1] = step
          /\ \A i \in 1 .. Len(history[j]) : history'[j][i] = history[j][i]
      BY <2>1, <3>1
    <3>3. step.from = "LOOP_INTERVIEW" <=> asks
      BY <2>1, LoopIsLeftOnce DEF Steps
    <3>4. \A i : i \in 1 .. Len(history'[j]) <=>
                 i \in 1 .. Len(history[j]) \/ i = Len(history[j]) + 1
      BY <3>2
    <3>5. HasLeftLoop(j)' <=>
            \E i \in 1 .. Len(history[j]) + 1 : history'[j][i].from = "LOOP_INTERVIEW"
      BY <3>2 DEF HasLeftLoop
    <3> QED
      BY <3>2, <3>3, <3>4, <3>5 DEF HasLeftLoop
  <2>5. ~ (HasLeftLoop(j) /\ asks)
    BY <2>1, LoopIsLeftOnce DEF SurveyInv, Steps
  <2>6. ASSUME NEW k \in Journeys, k # j
        PROVE  /\ HasLeftLoop(k)' <=> HasLeftLoop(k)
               /\ stage'[k] = stage[k]
               /\ asked'[k] = asked[k]
    BY <2>1, <2>2, <2>6 DEF HasLeftLoop, TypeOK
  <2>7. /\ HasLeftLoop(j)' => stage'[j] \in SurveyStages /\ asked'[j] = 1
        /\ ~ HasLeftLoop(j)' => asked'[j] = 0 /\ j \notin surveyTasks'
    <3>1. stage'[j] = step.to /\ asked'[j] = IF asks THEN asked[j] + 1 ELSE asked[j]
      BY <2>1, <2>2 DEF TypeOK
    <3>2. HasLeftLoop(j) \/ asks => step.to \in SurveyStages
      BY <2>1, LoopIsLeftOnce DEF SurveyInv, Steps
    <3>3. HasLeftLoop(j) => asked[j] = 1
      BY <2>1 DEF SurveyInv
    <3>4. ~ HasLeftLoop(j) => asked[j] = 0 /\ j \notin surveyTasks
      BY <2>1 DEF SurveyInv
    <3> QED
      BY <2>3, <2>4, <2>5, <3>1, <3>2, <3>3, <3>4
  <2>8. ASSUME NEW k \in Journeys, NEW s \in Requests,
               request'[s].phase = "committed", request'[s].journey = k, request'[s].asks
        PROVE  HasLeftLoop(k)'
    <3>1. CASE s = r
      <4>1. k = j /\ asks
        BY <2>3, <2>8, <3>1 DEF TypeOK
      <4> QED
        BY <2>4, <4>1
    <3>2. CASE s # r
      <4>1. HasLeftLoop(k)
        BY <2>3, <2>8, <3>2 DEF SurveyInv, TypeOK
      <4> QED
        BY <2>4, <2>6, <4>1
    <3> QED
      BY <3>1, <3>2
  <2> QED
    BY <2>3, <2>6, <2>7, <2>8 DEF SurveyInv
<1>6. ASSUME NEW r \in Requests, Reject(r) \/ Stale(r) \/ Fail(r) \/ ResponseFails(r)
      PROVE  SurveyInv'
  BY <1>1, <1>2, <1>6 DEF Reject, Stale, Fail, ResponseFails, Answers
<1>7. ASSUME NEW r \in Requests, Respond(r)
      PROVE  SurveyInv'
  <2>1. \A s \in Requests : request'[s] = request[s] \/ request'[s].phase # "committed"
    BY <1>2, <1>7 DEF Respond, Answers
  <2>2. \A j \in surveyTasks' : j \in surveyTasks \/ HasLeftLoop(j)
    BY <1>7, RequestShape DEF Respond, SurveyInv, Committed
  <2> QED
    BY <1>7, <2>1, <2>2 DEF Respond, rows, SurveyInv, HasLeftLoop
<1>8. CASE (\E j \in Journeys : TakeSurveyTask(j)) \/ UNCHANGED vars
  BY <1>1, <1>8 DEF TakeSurveyTask, vars
<1>9. CASE Crash
  BY <1>1, <1>9 DEF Crash, Idle
<1> QED
  BY <1>3, <1>4, <1>5, <1>6, <1>7, <1>8, <1>9 DEF Next, Serve

(* A journey leaves the interview loop at most once, so no behaviour asks  *)
(* for its survey twice, and no queued task is about one still in the loop.*)
THEOREM SurveyCorrect == Spec => []SurveyAskedOnce
<1>1. SurveyInv => SurveyAskedOnce
  BY DEF SurveyInv, SurveyAskedOnce
<1> QED
  BY <1>1, SurveyInit, SurveyStep, TypeCorrect, LoadedCorrect, PTL DEF Spec

-----------------------------------------------------------------------------
LEMMA LifecycleInit == Init => Lifecycle!Init
  BY DEF Init, Lifecycle!Init

LEMMA LifecycleStep ==
  TypeOK /\ LoadedInv /\ [Next]_vars => [Lifecycle!Next]_(Lifecycle!vars)
<1> SUFFICES ASSUME TypeOK, LoadedInv, [Next]_vars
             PROVE  Lifecycle!Next \/ UNCHANGED Lifecycle!vars
  OBVIOUS
<1>1. CASE UNCHANGED <<rows, asked>>
  BY <1>1 DEF rows, Lifecycle!vars
<1>2. ASSUME NEW r \in Requests, NEW j \in Journeys, Create(r, j)
      PROVE  Lifecycle!Next
  BY <1>2 DEF Create, Lifecycle!Next, Lifecycle!Create
<1>3. ASSUME NEW r \in Requests, Transition(r),
             request[r].journey \in Journeys,
             request[r].to \in Stages,
             stage[request[r].journey] \in Stages,
             request[r].stage = stage[request[r].journey],
             Permitted(stage[request[r].journey], request[r].to)
      PROVE  Lifecycle!Next
  <2>0. PICK j \in Journeys, to \in Stages : j = request[r].journey /\ to = request[r].to
    BY <1>3
  <2>1. /\ stage[j] # "NONE"
        /\ stage' = [stage EXCEPT ![j] = to]
    BY <1>3, <2>0 DEF Transition, Completes, Stages
  <2>2. {k \in Journeys : overall'[k] = "COMPLETED"} =
          IF to = "OFFER_ACCEPTED"
          THEN {k \in Journeys : overall[k] = "COMPLETED"} \cup {j}
          ELSE {k \in Journeys : overall[k] = "COMPLETED"}
    BY <1>3, <2>0 DEF Transition, Completes, TypeOK
  <2>3. \A k \in Journeys : sealed'[k] <=> sealed[k] \/ (k = j /\ to = "OFFER_ACCEPTED")
    BY <1>3, <2>0, Zenon DEF Transition, Completes, TypeOK
  <2>4. {k \in Journeys : sealed'[k]} =
          IF to = "OFFER_ACCEPTED"
          THEN {k \in Journeys : sealed[k]} \cup {j}
          ELSE {k \in Journeys : sealed[k]}
    BY <2>3
  <2>5. Lifecycle!Advance(j, to)
    BY <1>3, <2>0, <2>1, <2>2, <2>4
    DEF Lifecycle!Advance, Lifecycle!Permitted, Permitted,
        Lifecycle!VALID_TRANSITIONS, VALID_TRANSITIONS
  <2> QED
    BY <2>5 DEF Lifecycle!Next, Lifecycle!Stages, Stages
<1> QED
  BY <1>1, <1>2, <1>3, RowSteps

(* The concurrent service implements the sequential life cycle: every      *)
(* commit is one permitted step of one journey, every other step is none.  *)
THEOREM LifecycleCorrect == Spec => ImplementsLifecycle
  BY LifecycleInit, LifecycleStep, TypeCorrect, LoadedCorrect, PTL
  DEF Spec, ImplementsLifecycle, Lifecycle!Spec

-----------------------------------------------------------------------------
(* Surveys.                                                                *)

LEMMA ClientShape ==
  ASSUME S!TypeOK, NEW c \in Clients, client[c].phase # "idle"
  PROVE  client[c] \in S!Serving
  BY DEF S!TypeOK, S!Idle

LEMMA SurveysTypeInit == S!Init => S!TypeOK
  BY WorkflowAssumption DEF S!Init, S!TypeOK, S!Idle, S!Answers, S!SurveyStatus, S!Sweeps, S!Asleep

LEMMA SurveysTypeStep == S!TypeOK /\ [S!Next]_(S!vars) => S!TypeOK'
<1> SUFFICES ASSUME S!TypeOK, [S!Next]_(S!vars) PROVE S!TypeOK'
  OBVIOUS
<1>1. ASSUME NEW j \in Journeys, S!Create(j) PROVE S!TypeOK'
  <2>1. CASE survey[j] = "NONE"
    BY <1>1, <2>1 DEF S!TypeOK, S!Create, S!SurveyStatus
  <2>2. CASE survey[j] # "NONE"
    BY <1>1, <2>2 DEF S!TypeOK, S!Create
  <2> QED
    BY <2>1, <2>2
<1>11. ASSUME NEW j \in Journeys, S!Tick(j) PROVE S!TypeOK'
  BY <1>11 DEF S!TypeOK, S!Tick, S!records
<1>2. ASSUME NEW c \in Clients, NEW code \in S!Answers, S!Answer(c, code)
      PROVE  client' \in [Clients -> {S!Idle(a) : a \in S!Answers} \cup S!Serving]
  BY <1>2 DEF S!TypeOK, S!Answer
<1>3. ASSUME NEW c \in Clients, NEW j \in Journeys, S!ReadToken(c, j) PROVE S!TypeOK'
  <2>1. client' \in [Clients -> {S!Idle(a) : a \in S!Answers} \cup S!Serving]
    BY <1>2, <1>3 DEF S!ReadToken, S!TypeOK, S!Serving, S!Answers
  <2> QED
    BY <1>3, <2>1 DEF S!ReadToken, S!TypeOK, S!records
<1>4. ASSUME NEW c \in Clients, S!ReadSurvey(c) PROVE S!TypeOK'
  <2>1. client[c] \in S!Serving
    BY <1>4, ClientShape DEF S!ReadSurvey
  <2>2. client' \in [Clients -> {S!Idle(a) : a \in S!Answers} \cup S!Serving]
    BY <1>2, <1>4, <2>1 DEF S!ReadSurvey, S!TypeOK, S!Serving, S!Answers
  <2> QED
    BY <1>4, <2>2 DEF S!ReadSurvey, S!TypeOK, S!records
<1>5. ASSUME NEW c \in Clients, S!NoSubmission(c) PROVE S!TypeOK'
  BY <1>2, <1>5 DEF S!NoSubmission, S!TypeOK, S!records, S!Answers
<1>6. ASSUME NEW c \in Clients, S!Submit(c) PROVE S!TypeOK'
  <2>1. client[c].journey \in Journeys
    BY <1>6, ClientShape DEF S!Submit, S!Serving
  <2> QED
    BY <1>2, <1>6, <2>1 DEF S!Submit, S!TypeOK, S!Answers, S!SurveyStatus
<1>7. CASE S!SelectReminders \/ S!FlushReminders \/ S!SelectExpired \/ S!SweepFails
  <2>1. sweep' \in S!Sweeps
    <3>1. S!DueForReminder \in SUBSET Journeys /\ S!DueForExpiry \in SUBSET Journeys
      BY DEF S!DueForReminder, S!DueForExpiry
    <3>2. CASE S!SelectReminders
      BY <3>1, <3>2 DEF S!SelectReminders, S!TypeOK, S!Sweeps
    <3>3. CASE S!FlushReminders \/ S!SweepFails
      BY <3>3 DEF S!FlushReminders, S!SweepFails, S!TypeOK, S!Sweeps, S!Asleep
    <3>4. CASE S!SelectExpired
      BY <3>1, <3>4 DEF S!SelectExpired, S!TypeOK, S!Sweeps
    <3> QED
      BY <1>7, <3>2, <3>3, <3>4
  <2>2. faults' \in 0 .. MaxFaults
    BY <1>7, WorkflowAssumption
    DEF S!SelectReminders, S!FlushReminders, S!SelectExpired, S!SweepFails, S!TypeOK
  <2>3. UNCHANGED <<S!records, age, client>>
    BY <1>7 DEF S!SelectReminders, S!FlushReminders, S!SelectExpired, S!SweepFails
  <2> QED
    BY <2>1, <2>2, <2>3 DEF S!TypeOK, S!records
<1>8. CASE S!CommitSweep
  BY <1>8 DEF S!CommitSweep, S!TypeOK, S!Sweeps, S!Asleep, S!SurveyStatus
<1>9. CASE S!Crash
  <2>1. sweep' \in S!Sweeps /\ client' \in [Clients -> {S!Idle(a) : a \in S!Answers}]
    BY <1>9 DEF S!Crash, S!Sweeps, S!Asleep, S!Answers
  <2>2. faults' \in 0 .. MaxFaults
    BY <1>9, WorkflowAssumption DEF S!Crash, S!TypeOK
  <2> QED
    BY <1>9, <2>1, <2>2 DEF S!Crash, S!TypeOK, S!records
<1>10. CASE UNCHANGED S!vars
  BY <1>10 DEF S!TypeOK, S!vars, S!records
<1> QED
  BY <1>1, <1>3, <1>4, <1>5, <1>6, <1>7, <1>8, <1>9, <1>10, <1>11
  DEF S!Next, S!Proceed, S!ClientNext, S!SweepNext

(* The variables of the survey component keep their types.                 *)
THEOREM SurveysTypeCorrect == S!Spec => []S!TypeOK
  BY SurveysTypeInit, SurveysTypeStep, PTL DEF S!Spec

-----------------------------------------------------------------------------
(* The survey a request has read, and every survey a sweep has selected,   *)
(* exists; a survey that does not has no answer; and a sweep holds only    *)
(* surveys whose reminder has not been committed.                          *)
SurveyRows ==
  /\ \A c \in Clients :
       client[c].phase # "idle" => survey[client[c].journey] # "NONE"
  /\ \A j \in Journeys : survey[j] = "NONE" => responses[j] = 0 /\ ~ link[j]
  /\ \A j \in sweep.expire : survey[j] # "NONE"
  /\ \A j \in sweep.remind : survey[j] # "NONE" /\ ~ reminded[j]

SurveysInv == SurveyRows /\ S!LinkLivesWithSurvey /\ S!AnsweredIsClosed /\ S!RemindedOnce

LEMMA SurveysInit == S!Init => SurveysInv
  BY DEF S!Init, SurveysInv, SurveyRows, S!LinkLivesWithSurvey, S!AnsweredIsClosed, S!RemindedOnce,
         S!Idle, S!Asleep

(* A step that leaves the rows alone, and a request or sweep that reads.   *)
LEMMA SurveysQuiet ==
  ASSUME S!TypeOK, SurveysInv, UNCHANGED S!records, SurveyRows'
  PROVE  SurveysInv'
  BY DEF S!records, SurveysInv, S!LinkLivesWithSurvey, S!AnsweredIsClosed, S!RemindedOnce

LEMMA SurveysStep == S!TypeOK /\ SurveysInv /\ [S!Next]_(S!vars) => SurveysInv'
<1> SUFFICES ASSUME S!TypeOK, SurveysInv, [S!Next]_(S!vars) PROVE SurveysInv'
  OBVIOUS
<1>1. ASSUME NEW j \in Journeys, S!Create(j) PROVE SurveysInv'
  <2>1. CASE survey[j] = "NONE"
    <3>1. /\ survey' = [survey EXCEPT ![j] = "SENT"]
          /\ link' = [link EXCEPT ![j] = TRUE]
          /\ UNCHANGED <<reminded, reminders, responses, client, sweep>>
      BY <1>1, <2>1 DEF S!Create
    <3>2. SurveyRows' /\ S!RemindedOnce'
      BY <3>1 DEF S!TypeOK, SurveysInv, SurveyRows, S!RemindedOnce
    <3>3. S!LinkLivesWithSurvey' /\ S!AnsweredIsClosed'
      BY <2>1, <3>1 DEF S!TypeOK, SurveysInv, SurveyRows, S!LinkLivesWithSurvey, S!AnsweredIsClosed
    <3> QED
      BY <3>2, <3>3 DEF SurveysInv
  <2>2. CASE survey[j] # "NONE"
    BY <1>1, <2>2, SurveysQuiet DEF S!Create, S!records, SurveysInv, SurveyRows
  <2> QED
    BY <2>1, <2>2
<1>2. CASE (\E j \in Journeys : S!Tick(j)) \/ UNCHANGED S!vars
  BY <1>2, SurveysQuiet DEF S!Tick, S!vars, S!records, SurveysInv, SurveyRows
<1>3. ASSUME NEW c \in Clients, NEW code, S!Answer(c, code), UNCHANGED <<survey, sweep>>
      PROVE  \A d \in Clients :
               client'[d].phase # "idle" => survey'[client'[d].journey] # "NONE"
  BY <1>3 DEF S!Answer, S!Idle, S!TypeOK, SurveysInv, SurveyRows
<1>4. ASSUME NEW c \in Clients, NEW j \in Journeys, S!ReadToken(c, j) PROVE SurveysInv'
  <2>1. S!Valid(j) => survey[j] # "NONE"
    BY DEF S!Valid, SurveysInv, SurveyRows
  <2>2. \A d \in Clients :
          client'[d].phase # "idle" => survey'[client'[d].journey] # "NONE"
    BY <1>4, <2>1 DEF S!ReadToken, S!Answer, S!Idle, S!records, S!TypeOK, SurveysInv, SurveyRows
  <2> QED
    BY <1>4, <2>2, SurveysQuiet DEF S!ReadToken, S!records, SurveysInv, SurveyRows
<1>5. ASSUME NEW c \in Clients, S!ReadSurvey(c) PROVE SurveysInv'
  <2>1. \A d \in Clients :
          client'[d].phase # "idle" => survey'[client'[d].journey] # "NONE"
    <3>1. UNCHANGED <<survey, sweep>>
      BY <1>5 DEF S!ReadSurvey, S!records
    <3>2. CASE S!Answer(c, "gone")
      BY <1>3, <3>1, <3>2
    <3>3. CASE client' = [client EXCEPT ![c].phase = "survey"]
      <4>1. client[c] \in S!Serving
        BY <1>5, ClientShape DEF S!ReadSurvey
      <4>2. client'[c].journey = client[c].journey /\ client[c].phase # "idle"
        BY <1>5, <3>3, <4>1 DEF S!Serving, S!TypeOK, S!ReadSurvey
      <4>3. \A d \in Clients : d # c => client'[d] = client[d]
        BY <3>3 DEF S!TypeOK
      <4> QED
        BY <3>1, <4>2, <4>3 DEF SurveysInv, SurveyRows
    <3> QED
      BY <1>5, <3>2, <3>3 DEF S!ReadSurvey
  <2> QED
    BY <1>5, <2>1, SurveysQuiet DEF S!ReadSurvey, S!records, SurveysInv, SurveyRows
<1>6. ASSUME NEW c \in Clients, S!NoSubmission(c) PROVE SurveysInv'
  <2>1. \A d \in Clients :
          client'[d].phase # "idle" => survey'[client'[d].journey] # "NONE"
    BY <1>6 DEF S!NoSubmission, S!Answer, S!Idle, S!records, S!TypeOK, SurveysInv, SurveyRows
  <2> QED
    BY <1>6, <2>1, SurveysQuiet DEF S!NoSubmission, S!records, SurveysInv, SurveyRows
<1>7. ASSUME NEW c \in Clients, S!Submit(c) PROVE SurveysInv'
  <2>1. PICK j \in Journeys : j = client[c].journey
    BY <1>7, ClientShape DEF S!Submit, S!Serving
  <2>2. /\ survey' = [survey EXCEPT ![j] = "COMPLETED"]
        /\ link' = [link EXCEPT ![j] = FALSE]
        /\ responses' = [responses EXCEPT ![j] = @ + 1]
        /\ S!Answer(c, "ok")
        /\ UNCHANGED <<reminded, reminders, sweep>>
    BY <1>7, <2>1 DEF S!Submit
  <2>3. S!LinkLivesWithSurvey'
    BY <2>2 DEF S!TypeOK, SurveysInv, S!LinkLivesWithSurvey
  <2>4. S!AnsweredIsClosed'
    BY <2>2 DEF S!TypeOK, SurveysInv, S!AnsweredIsClosed
  <2>5. S!RemindedOnce'
    BY <2>2 DEF SurveysInv, S!RemindedOnce
  <2>6. SurveyRows'
    BY <2>2 DEF S!Answer, S!Idle, S!TypeOK, S!Sweeps, SurveysInv, SurveyRows
  <2> QED
    BY <2>3, <2>4, <2>5, <2>6 DEF SurveysInv
<1>8. CASE S!SelectReminders \/ S!FlushReminders \/ S!SelectExpired \/ S!SweepFails
  <2>1. UNCHANGED <<S!records, client>>
    BY <1>8 DEF S!SelectReminders, S!FlushReminders, S!SelectExpired, S!SweepFails
  <2>2. /\ \A j \in sweep'.expire : survey[j] # "NONE"
        /\ \A j \in sweep'.remind : survey[j] # "NONE" /\ ~ reminded[j]
    <3>1. /\ \A j \in S!DueForExpiry : survey[j] # "NONE"
          /\ \A j \in S!DueForReminder : survey[j] # "NONE" /\ ~ reminded[j]
      BY DEF S!DueForReminder, S!DueForExpiry
    <3>2. CASE S!SelectReminders
      BY <3>1, <3>2 DEF S!SelectReminders, S!TypeOK, S!Sweeps, SurveysInv, SurveyRows
    <3>3. CASE S!FlushReminders \/ S!SweepFails
      BY <3>3 DEF S!FlushReminders, S!SweepFails, S!TypeOK, S!Sweeps, S!Asleep, SurveysInv, SurveyRows
    <3>4. CASE S!SelectExpired
      BY <3>1, <3>4 DEF S!SelectExpired, S!TypeOK, S!Sweeps, SurveysInv, SurveyRows
    <3> QED
      BY <1>8, <3>2, <3>3, <3>4
  <2>3. SurveyRows'
    BY <2>1, <2>2 DEF S!records, SurveysInv, SurveyRows
  <2> QED
    BY <2>1, <2>3, SurveysQuiet
<1>9. CASE S!CommitSweep
  <2>1. /\ \A j \in Journeys : reminded'[j] <=> reminded[j] \/ j \in sweep.remind
        /\ \A j \in Journeys : link'[j] <=> link[j] /\ j \notin sweep.expire
    BY <1>9, Zenon DEF S!CommitSweep
  <2>2. /\ \A j \in Journeys : survey'[j] = IF j \in sweep.expire THEN "EXPIRED" ELSE survey[j]
        /\ \A j \in Journeys :
             reminders'[j] = IF j \in sweep.remind THEN reminders[j] + 1 ELSE reminders[j]
        /\ sweep' = S!Asleep
        /\ UNCHANGED <<responses, client>>
    BY <1>9 DEF S!CommitSweep
  <2>3. S!LinkLivesWithSurvey'
    BY <2>1, <2>2 DEF SurveysInv, S!LinkLivesWithSurvey
  <2>4. S!AnsweredIsClosed'
    BY <2>2 DEF SurveysInv, S!AnsweredIsClosed
  <2>5. S!RemindedOnce'
    BY <2>1, <2>2 DEF S!TypeOK, S!Sweeps, SurveysInv, SurveyRows, S!RemindedOnce
  <2>6. SurveyRows'
    BY <2>1, <2>2, ClientShape DEF S!Serving, S!Asleep, SurveysInv, SurveyRows
  <2> QED
    BY <2>3, <2>4, <2>5, <2>6 DEF SurveysInv
<1>10. CASE S!Crash
  BY <1>10, SurveysQuiet DEF S!Crash, S!records, S!Asleep, S!Idle, SurveysInv, SurveyRows
<1> QED
  BY <1>1, <1>2, <1>4, <1>5, <1>6, <1>7, <1>8, <1>9, <1>10
  DEF S!Next, S!Proceed, S!ClientNext, S!SweepNext

LEMMA SurveysInvariant == S!Spec => []SurveysInv
  BY SurveysInit, SurveysStep, SurveysTypeCorrect, PTL DEF S!Spec

(* A survey link works exactly while its survey is open.                   *)
THEOREM LinkCorrect == S!Spec => []LinkLivesWithSurvey
  BY SurveysInvariant, PTL DEF SurveysInv, LinkLivesWithSurvey

(* A survey that was answered stays closed.                                *)
THEOREM AnsweredCorrect == S!Spec => []AnsweredIsClosed
  BY SurveysInvariant, PTL DEF SurveysInv, AnsweredIsClosed

(* No survey is reminded of twice.                                         *)
THEOREM ReminderCorrect == S!Spec => []RemindedOnce
  BY SurveysInvariant, PTL DEF SurveysInv, RemindedOnce

SurveyParts == S!TypeOK /\ SurveysInv

-----------------------------------------------------------------------------
(* How many answers a survey can have: whoever may still answer it, and    *)
(* the answers it has, are together no more than there are requests.       *)
(* Nobody joins them once there is an answer, as its link is closed.       *)

Answering(j) == {c \in Clients : client[c].phase # "idle" /\ client[c].journey = j}

BoundInv ==
  \A j \in Journeys : Cardinality(Answering(j)) + responses[j] <= Cardinality(Clients)

LEMMA AnsweringIsFinite ==
  ASSUME NEW j \in Journeys
  PROVE  /\ IsFiniteSet(Answering(j))
         /\ Cardinality(Answering(j)) \in Nat /\ Cardinality(Clients) \in Nat
         /\ Cardinality(Answering(j)) <= Cardinality(Clients)
  BY WorkflowAssumption, FS_Subset, FS_CardinalityType DEF Answering

LEMMA OpenHasNoAnswer ==
  ASSUME SurveyParts, NEW j \in Journeys, link[j]
  PROVE  responses[j] = 0
  BY DEF SurveyParts, SurveysInv, S!TypeOK, S!LinkLivesWithSurvey, S!AnsweredIsClosed

LEMMA BoundInit == S!Init => BoundInv
<1> SUFFICES ASSUME S!Init, NEW j \in Journeys
             PROVE  Cardinality(Answering(j)) + responses[j] <= Cardinality(Clients)
  BY DEF BoundInv
<1>1. responses[j] = 0
  BY DEF S!Init
<1> QED
  BY <1>1, AnsweringIsFinite

(* Requests that only leave do not disturb the bound.                      *)
LEMMA BoundShrinks ==
  ASSUME BoundInv, SurveyParts, NEW j \in Journeys,
         Answering(j)' \subseteq Answering(j), responses'[j] = responses[j]
  PROVE  Cardinality(Answering(j))' + responses'[j] <= Cardinality(Clients)
<1>1. IsFiniteSet(Answering(j)) /\ Cardinality(Answering(j)) \in Nat /\ Cardinality(Clients) \in Nat
  BY AnsweringIsFinite
<1>2. /\ Cardinality(Answering(j)') \in Nat
      /\ Cardinality(Answering(j)') <= Cardinality(Answering(j))
  BY <1>1, FS_Subset, FS_CardinalityType
<1>3. responses[j] \in Nat /\ Cardinality(Answering(j)) + responses[j] <= Cardinality(Clients)
  BY DEF BoundInv, SurveyParts, S!TypeOK
<1> QED
  BY <1>1, <1>2, <1>3

LEMMA BoundStep ==
  SurveyParts /\ BoundInv /\ [S!Next]_(S!vars) => BoundInv'
<1> SUFFICES ASSUME SurveyParts, BoundInv, [S!Next]_(S!vars), NEW j \in Journeys
             PROVE  Cardinality(Answering(j))' + responses'[j] <= Cardinality(Clients)
  BY DEF BoundInv
<1> DEFINE Goal == Cardinality(Answering(j))' + responses'[j] <= Cardinality(Clients)
<1>1. CASE UNCHANGED <<client, responses>>
  <2>1. Answering(j)' = Answering(j)
    BY <1>1 DEF Answering
  <2> QED
    BY <1>1, <2>1, BoundShrinks
<1>2. ASSUME NEW c \in Clients, NEW code \in S!Answers, S!Answer(c, code), UNCHANGED responses
      PROVE  Goal
  <2>1. \A d \in Clients : client'[d] = client[d] \/ client'[d].phase = "idle"
    BY <1>2 DEF S!Answer, S!Idle, SurveyParts, S!TypeOK
  <2>2. Answering(j)' \subseteq Answering(j)
    BY <2>1 DEF Answering
  <2> QED
    BY <1>2, <2>2, BoundShrinks
<1>3. ASSUME NEW c \in Clients, NEW k \in Journeys, S!ReadToken(c, k)
      PROVE  Goal
  <2>1. UNCHANGED responses
    BY <1>3 DEF S!ReadToken, S!records
  <2>2. CASE S!Valid(k) /\ k = j
    <3>1. responses[j] = 0
      BY <2>2, OpenHasNoAnswer DEF S!Valid
    <3>2. /\ Cardinality(Answering(j)') \in Nat
          /\ Cardinality(Answering(j)') <= Cardinality(Clients)
      <4>1. Answering(j)' \subseteq Clients
        BY DEF Answering
      <4> QED
        BY <4>1, WorkflowAssumption, FS_Subset, FS_CardinalityType
    <3> QED
      BY <2>1, <3>1, <3>2
  <2>3. CASE S!Valid(k) /\ k # j
    <3>1. client' = [client EXCEPT ![c] = [phase |-> "token", journey |-> k]]
      BY <1>3, <2>3 DEF S!ReadToken
    <3>2. Answering(j)' \subseteq Answering(j)
      BY <2>3, <3>1 DEF Answering, SurveyParts, S!TypeOK
    <3> QED
      BY <2>1, <3>2, BoundShrinks
  <2>4. CASE ~ S!Valid(k)
    BY <1>2, <1>3, <2>1, <2>4 DEF S!ReadToken, S!Answers
  <2> QED
    BY <2>2, <2>3, <2>4
<1>4. ASSUME NEW c \in Clients, S!ReadSurvey(c)
      PROVE  Goal
  <2>1. UNCHANGED responses
    BY <1>4 DEF S!ReadSurvey, S!records
  <2>2. CASE client' = [client EXCEPT ![c].phase = "survey"]
    <3>1. client[c] \in S!Serving /\ client[c].phase # "idle"
      BY <1>4, ClientShape DEF S!ReadSurvey, SurveyParts
    <3>2. client'[c].journey = client[c].journey /\ \A d \in Clients : d # c => client'[d] = client[d]
      BY <2>2, <3>1 DEF S!Serving, SurveyParts, S!TypeOK
    <3>3. Answering(j)' \subseteq Answering(j)
      BY <3>1, <3>2 DEF Answering
    <3> QED
      BY <2>1, <3>3, BoundShrinks
  <2> QED
    BY <1>2, <1>4, <2>1, <2>2 DEF S!ReadSurvey, S!Answers
<1>5. ASSUME NEW c \in Clients, S!NoSubmission(c)
      PROVE  Goal
  BY <1>2, <1>5 DEF S!NoSubmission, S!Answers, S!records
<1>6. ASSUME NEW c \in Clients, S!Submit(c)
      PROVE  Goal
  <2>1. /\ S!Answer(c, "ok") /\ client[c].phase # "idle"
        /\ responses' = [responses EXCEPT ![client[c].journey] = @ + 1]
    BY <1>6 DEF S!Submit
  <2>2. \A d \in Clients : IF d = c THEN client'[d].phase = "idle" ELSE client'[d] = client[d]
    BY <2>1 DEF S!Answer, S!Idle, SurveyParts, S!TypeOK
  <2>3. CASE j # client[c].journey
    <3>1. responses'[j] = responses[j] /\ Answering(j)' \subseteq Answering(j)
      BY <2>1, <2>2, <2>3 DEF Answering, SurveyParts, S!TypeOK
    <3> QED
      BY <3>1, BoundShrinks
  <2>4. CASE j = client[c].journey
    <3>1. c \in Answering(j) /\ Answering(j)' = Answering(j) \ {c}
      BY <2>1, <2>2, <2>4 DEF Answering
    <3>2. Cardinality(Answering(j)') = Cardinality(Answering(j)) - 1
      BY <3>1, AnsweringIsFinite, FS_RemoveElement
    <3>3. responses[j] \in Nat /\ responses'[j] = responses[j] + 1
      BY <2>1, <2>4 DEF SurveyParts, S!TypeOK
    <3> QED
      BY <3>2, <3>3, AnsweringIsFinite DEF BoundInv
  <2> QED
    BY <2>3, <2>4
<1>7. CASE S!Crash
  <2>1. Answering(j)' \subseteq Answering(j) /\ UNCHANGED responses
    BY <1>7 DEF S!Crash, S!Idle, S!records, Answering
  <2> QED
    BY <2>1, BoundShrinks
<1> QED
  BY <1>1, <1>3, <1>4, <1>5, <1>6, <1>7
  DEF S!Next, S!vars, S!records, S!Create, S!Proceed, S!ClientNext, S!SweepNext, S!Tick,
      S!SelectReminders, S!FlushReminders, S!SelectExpired, S!CommitSweep, S!SweepFails

LEMMA BoundImplies == SurveyParts /\ BoundInv => AnswersAreBounded
<1> SUFFICES ASSUME SurveyParts, BoundInv, NEW j \in Journeys
             PROVE  responses[j] <= Cardinality(Clients)
  BY DEF AnswersAreBounded
<1> QED
  BY AnsweringIsFinite DEF BoundInv, SurveyParts, S!TypeOK

(* A survey has no more answers than there are requests at a time.         *)
THEOREM BoundCorrect == S!Spec => []AnswersAreBounded
<1>1. S!Spec => []SurveyParts
  BY SurveysTypeCorrect, SurveysInvariant, PTL DEF SurveyParts
<1> QED
  BY <1>1, BoundInit, BoundStep, BoundImplies, PTL DEF S!Spec

-----------------------------------------------------------------------------
(* The service implements SurveyLifecycle, sweeps and answers being steps  *)
(* of their commits.                                                       *)

LEMMA PromiseInit == S!Init => Promise!Init
  BY DEF S!Init, Promise!Init

(* The two sets a sweep is about, seen from outside.                       *)
LEMMA PromisedSweep ==
  ASSUME SurveyParts, S!CommitSweep
  PROVE  Promise!Next
<1> DEFINE told == {j \in Journeys : j \in sweep.remind}
           closing == {j \in Journeys : j \in sweep.expire}
<1>1. /\ \A j \in Journeys : link'[j] <=> link[j] /\ j \notin sweep.expire
      /\ \A j \in Journeys : survey'[j] = IF j \in sweep.expire THEN "EXPIRED" ELSE survey[j]
      /\ \A j \in Journeys :
           reminders'[j] = IF j \in sweep.remind THEN reminders[j] + 1 ELSE reminders[j]
      /\ UNCHANGED responses
  BY Zenon DEF S!CommitSweep
<1>2. \A j \in Journeys : reminders[j] \in Nat
  BY DEF SurveyParts, S!TypeOK
<1>3. /\ \A j \in closing : survey[j] # "NONE"
      /\ \A j \in told : survey[j] # "NONE" /\ reminders[j] = 0
  BY DEF SurveyParts, SurveysInv, SurveyRows, S!RemindedOnce
<1>4. /\ {j \in Journeys : survey'[j] # "NONE"} = {j \in Journeys : survey[j] # "NONE"}
      /\ {j \in Journeys : link'[j]} = {j \in Journeys : link[j]} \ closing
      /\ {j \in Journeys : reminders'[j] > 0} = {j \in Journeys : reminders[j] > 0} \cup told
      /\ {j \in Journeys : responses'[j] > 0} = {j \in Journeys : responses[j] > 0}
  BY <1>1, <1>2, <1>3
<1>5. /\ told \in SUBSET ({j \in Journeys : survey[j] # "NONE"} \ {j \in Journeys : reminders[j] > 0})
      /\ closing \in SUBSET {j \in Journeys : survey[j] # "NONE"}
  BY <1>2, <1>3
<1> HIDE DEF told, closing
<1> QED
  BY <1>4, <1>5 DEF Promise!Next, Promise!Sweep

LEMMA PromiseQuiet ==
  ASSUME UNCHANGED <<survey, link, reminders, responses>>
  PROVE  UNCHANGED Promise!vars
  BY DEF Promise!vars

LEMMA PromiseStep ==
  SurveyParts /\ [S!Next]_(S!vars) => [Promise!Next]_(Promise!vars)
<1> SUFFICES ASSUME SurveyParts, [S!Next]_(S!vars)
             PROVE  Promise!Next \/ UNCHANGED Promise!vars
  OBVIOUS
<1>1. CASE UNCHANGED <<survey, link, reminders, responses>>
  BY <1>1, PromiseQuiet
<1>2. ASSUME NEW j \in Journeys, S!Create(j), survey[j] = "NONE"
      PROVE  Promise!Next
  <2>1. /\ survey' = [survey EXCEPT ![j] = "SENT"] /\ link' = [link EXCEPT ![j] = TRUE]
        /\ UNCHANGED <<reminders, responses>>
    BY <1>2 DEF S!Create
  <2>2. /\ {k \in Journeys : survey'[k] # "NONE"} = {k \in Journeys : survey[k] # "NONE"} \cup {j}
        /\ {k \in Journeys : link'[k]} = {k \in Journeys : link[k]} \cup {j}
    BY <2>1 DEF SurveyParts, S!TypeOK
  <2>3. Promise!Send(j)
    BY <1>2, <2>1, <2>2 DEF Promise!Send
  <2> QED
    BY <2>3 DEF Promise!Next
<1>3. ASSUME NEW c \in Clients, S!Submit(c)
      PROVE  Promise!Next
  <2>1. PICK j \in Journeys : j = client[c].journey
    BY <1>3, ClientShape DEF S!Submit, S!Serving, SurveyParts
  <2>2. /\ survey' = [survey EXCEPT ![j] = "COMPLETED"] /\ link' = [link EXCEPT ![j] = FALSE]
        /\ responses' = [responses EXCEPT ![j] = @ + 1]
        /\ UNCHANGED reminders
    BY <1>3, <2>1 DEF S!Submit
  <2>3. survey[j] # "NONE"
    BY <1>3, <2>1 DEF S!Submit, SurveyParts, SurveysInv, SurveyRows
  <2>4. /\ {k \in Journeys : survey'[k] # "NONE"} = {k \in Journeys : survey[k] # "NONE"}
        /\ {k \in Journeys : link'[k]} = {k \in Journeys : link[k]} \ {j}
        /\ {k \in Journeys : responses'[k] > 0} = {k \in Journeys : responses[k] > 0} \cup {j}
    BY <2>2, <2>3 DEF SurveyParts, S!TypeOK
  <2>5. Promise!Answer(j)
    BY <2>2, <2>3, <2>4 DEF Promise!Answer
  <2> QED
    BY <2>5 DEF Promise!Next
<1>4. CASE S!CommitSweep
  BY <1>4, PromisedSweep
<1> QED
  BY <1>1, <1>2, <1>3, <1>4
  DEF S!Next, S!vars, S!records, S!Create, S!Proceed, S!ClientNext, S!SweepNext, S!Tick,
      S!ReadToken, S!ReadSurvey, S!NoSubmission, S!SelectReminders, S!FlushReminders,
      S!SelectExpired, S!SweepFails, S!Crash

(* What requests and the scheduler do to surveys, interleaved, is sending  *)
(* once, closing for good and reminding once.                              *)
THEOREM PromiseCorrect == S!Spec => ImplementsSurveyLifecycle
<1>1. S!Spec => []SurveyParts
  BY SurveysTypeCorrect, SurveysInvariant, PTL DEF SurveyParts
<1> QED
  BY <1>1, PromiseInit, PromiseStep, PTL DEF S!Spec, ImplementsSurveyLifecycle, Promise!Spec

-----------------------------------------------------------------------------
(* The composition.  A journey asks for its survey in one place at a time: *)
(* a request about to be answered, a queued task, or the survey itself.    *)
Asking(r, j) ==
  request[r].phase = "committed" /\ request[r].journey = j /\ request[r].asks

AskedInOnePlace ==
  \A j \in Journeys :
    /\ ~ HasLeftLoop(j) => survey[j] = "NONE"
    /\ j \in surveyTasks => survey[j] = "NONE"
    /\ \A r \in Requests :
         Asking(r, j) =>
           /\ survey[j] = "NONE" /\ j \notin surveyTasks
           /\ \A s \in Requests : Asking(s, j) => s = r

JourneyParts == TypeOK /\ LoadedInv /\ SurveyInv

LEMMA WorkflowInitially ==
  WorkflowInit => JourneyParts /\ SurveyParts /\ AskedInOnePlace
<1>1. WorkflowInit => AskedInOnePlace
  BY DEF WorkflowInit, Init, S!Init, AskedInOnePlace, HasLeftLoop, Asking, Idle
<1> QED
  BY <1>1, TypeInit, LoadedInit, SurveyInit, SurveysTypeInit, SurveysInit
  DEF WorkflowInit, JourneyParts, SurveyParts

(* Every step of the whole is a step of each part or leaves it alone, the  *)
(* failure of a task excepted, which only counts as a fault.               *)
LEMMA JourneysOfWorkflow == [WorkflowNext]_workflowVars => [Next]_vars
  BY DEF WorkflowNext, workflowVars, ServeJourney, ServeSurvey, RunSurveyTask,
         SurveyTaskFails, Restart, Next

LEMMA SurveysOfWorkflow ==
  [WorkflowNext]_workflowVars
    => \/ [S!Next]_(S!vars)
       \/ /\ faults < MaxFaults /\ faults' = faults + 1
          /\ UNCHANGED <<survey, link, age, reminded, reminders, responses, client, sweep>>
  BY DEF WorkflowNext, workflowVars, surveyVars, ServeJourney, ServeSurvey, RunSurveyTask,
         SurveyTaskFails, Restart, S!Next, S!vars, S!records

LEMMA JourneyPartsStep ==
  JourneyParts /\ [WorkflowNext]_workflowVars => JourneyParts'
  BY JourneysOfWorkflow, TypeStep, LoadedStep, SurveyStep DEF JourneyParts

LEMMA SurveyPartsStep ==
  SurveyParts /\ [WorkflowNext]_workflowVars => SurveyParts'
<1> SUFFICES ASSUME SurveyParts, [WorkflowNext]_workflowVars PROVE SurveyParts'
  OBVIOUS
<1>1. CASE [S!Next]_(S!vars)
  BY <1>1, SurveysTypeStep, SurveysStep DEF SurveyParts
<1>2. CASE /\ faults < MaxFaults /\ faults' = faults + 1
           /\ UNCHANGED <<survey, link, age, reminded, reminders, responses, client, sweep>>
  <2>1. S!TypeOK'
    BY <1>2, WorkflowAssumption DEF SurveyParts, S!TypeOK
  <2>2. SurveyRows' /\ UNCHANGED S!records
    BY <1>2 DEF SurveyParts, SurveysInv, SurveyRows, S!records
  <2> QED
    BY <2>1, <2>2, SurveysQuiet DEF SurveyParts
<1> QED
  BY <1>1, <1>2, SurveysOfWorkflow

(* What the survey service does on its own never makes a survey, nor       *)
(* removes one.                                                            *)
LEMMA ProceedMakesNone ==
  ASSUME SurveyParts, S!Proceed, NEW j \in Journeys
  PROVE  survey'[j] = "NONE" <=> survey[j] = "NONE"
<1>1. ASSUME NEW c \in Clients, S!Submit(c)
      PROVE  survey'[j] = "NONE" <=> survey[j] = "NONE"
  <2>1. client[c].phase # "idle"
    BY <1>1 DEF S!Submit
  <2>2. survey[client[c].journey] # "NONE"
    BY <2>1 DEF SurveyParts, SurveysInv, SurveyRows
  <2> QED
    BY <1>1, <2>2 DEF S!Submit, SurveyParts, S!TypeOK
<1>2. CASE S!CommitSweep
  BY <1>2 DEF S!CommitSweep, SurveyParts, SurveysInv, SurveyRows
<1> QED
  BY <1>1, <1>2
  DEF S!Proceed, S!Tick, S!ClientNext, S!ReadToken, S!ReadSurvey, S!NoSubmission, S!SweepNext,
      S!SelectReminders, S!FlushReminders, S!SelectExpired, S!SweepFails, S!records

(* A journey that has left the loop has left it for good.                  *)
LEMMA LeftForGood ==
  ASSUME JourneyParts, JourneyParts', [Next]_vars, NEW j \in Journeys, HasLeftLoop(j)
  PROVE  HasLeftLoop(j)'
<1>1. asked[j] = 1
  BY DEF JourneyParts, SurveyInv
<1>2. asked'[j] = asked[j] \/ asked'[j] = asked[j] + 1
  <2>1. CASE UNCHANGED asked
    BY <2>1
  <2>2. CASE \E r \in Requests, k \in Journeys : Create(r, k)
    BY <2>2 DEF Create
  <2>3. ASSUME NEW r \in Requests, Transition(r), request[r].journey \in Journeys
        PROVE  asked'[j] = asked[j] \/ asked'[j] = asked[j] + 1
    BY <2>3 DEF Transition, JourneyParts, TypeOK
  <2> QED
    BY <2>1, <2>2, <2>3, RowSteps DEF JourneyParts
<1>3. ~ HasLeftLoop(j)' => asked'[j] = 0
  BY DEF JourneyParts, SurveyInv
<1> QED
  BY <1>1, <1>2, <1>3

LEMMA AskedInOnePlaceStep ==
  ASSUME JourneyParts, SurveyParts, AskedInOnePlace,
         [WorkflowNext]_workflowVars, JourneyParts'
  PROVE  AskedInOnePlace'
<1> USE DEF AskedInOnePlace
<1>0. \A j \in Journeys : HasLeftLoop(j) => HasLeftLoop(j)'
  BY JourneysOfWorkflow, LeftForGood
(* A step that queues nothing, asks for nothing and makes no survey.       *)
<1>1. ASSUME surveyTasks' \subseteq surveyTasks,
             \A r \in Requests : request'[r] = request[r] \/ ~ (request'[r].phase = "committed" /\ request'[r].asks),
             \A j \in Journeys : survey'[j] = "NONE" <=> survey[j] = "NONE"
      PROVE  AskedInOnePlace'
  BY <1>0, <1>1 DEF Asking
<1>2. ASSUME NEW r \in Requests, NEW code, Answer(r, code)
      PROVE  \A s \in Requests : request'[s] = request[s] \/ request'[s].phase # "committed"
  BY <1>2 DEF Answer, Idle, JourneyParts, TypeOK
<1>3. ASSUME NEW r \in Requests, NEW j \in Journeys, Create(r, j), UNCHANGED survey
      PROVE  AskedInOnePlace'
  <2>1. \A s \in Requests : request'[s] = request[s] \/ ~ request'[s].asks
    BY <1>3 DEF Create, JourneyParts, TypeOK
  <2> QED
    BY <1>1, <1>3, <2>1 DEF Create
<1>4. ASSUME NEW r \in Requests, NEW j \in Journeys, NEW to \in Stages,
             NEW tooLong \in BOOLEAN, Load(r, j, to, tooLong), UNCHANGED survey
      PROVE  AskedInOnePlace'
  <2>1. \A s \in Requests : request'[s] = request[s] \/ request'[s].phase # "committed"
    BY <1>4 DEF Load, JourneyParts, TypeOK
  <2> QED
    BY <1>1, <1>4, <2>1 DEF Load
<1>5. ASSUME NEW r \in Requests, Transition(r), UNCHANGED survey
      PROVE  AskedInOnePlace'
  <2>0. PICK j \in Journeys : j = request[r].journey
    BY <1>5, RequestShape DEF Transition, Accepted, Loaded, JourneyParts
  <2> DEFINE asks == AsksForSurvey(stage[j], request[r].to)
  <2>1. /\ request[r].stage = stage[j]
        /\ stage[j] \in Stages
        /\ Permitted(stage[j], request[r].to)
    BY <1>5, <2>0, RequestShape
    DEF Transition, Accepted, Unchanged, Loaded, LoadedInv, TypeOK, JourneyParts
  <2>2. /\ surveyTasks' = surveyTasks
        /\ request' = [request EXCEPT ![r] =
                         [phase |-> "committed", journey |-> j, asks |-> asks]]
    BY <1>5, <2>0, <2>1 DEF Transition
  <2>3. \A s \in Requests : s # r => request'[s] = request[s]
    BY <2>2 DEF JourneyParts, TypeOK
  <2>4. request'[r] = [phase |-> "committed", journey |-> j, asks |-> asks]
    BY <2>2 DEF JourneyParts, TypeOK
  <2>5. asks => ~ HasLeftLoop(j)
    BY <2>1, LoopIsLeftOnce DEF JourneyParts, SurveyInv
  <2>6. asks => /\ survey[j] = "NONE" /\ j \notin surveyTasks
                /\ \A s \in Requests : ~ Asking(s, j)
    BY <2>5 DEF JourneyParts, SurveyInv, Asking
  <2>7. \A s \in Requests, k \in Journeys :
          Asking(s, k)' <=> IF s = r THEN k = j /\ asks ELSE Asking(s, k)
    BY <2>3, <2>4 DEF Asking
  <2> QED
    BY <1>0, <1>5, <2>2, <2>6, <2>7
<1>6. ASSUME NEW r \in Requests, Respond(r), UNCHANGED survey
      PROVE  AskedInOnePlace'
  <2>1. PICK j \in Journeys : j = request[r].journey
    BY <1>6, RequestShape DEF Respond, Committed, JourneyParts
  <2>2. \A s \in Requests, k \in Journeys : Asking(s, k)' => Asking(s, k) /\ s # r
    BY <1>6 DEF Respond, Answer, Idle, Asking, JourneyParts, TypeOK
  <2>3. \A k \in surveyTasks' : k \in surveyTasks \/ Asking(r, k)
    BY <1>6, <2>1 DEF Respond, Asking
  <2> QED
    BY <1>0, <1>6, <2>2, <2>3
<1>7. ASSUME NEW j \in Journeys, RunSurveyTask(j)
      PROVE  AskedInOnePlace'
  <2>1. /\ j \in surveyTasks /\ surveyTasks' = surveyTasks \ {j}
        /\ UNCHANGED request
        /\ survey' = [survey EXCEPT ![j] = "SENT"]
    BY <1>7 DEF RunSurveyTask, TakeSurveyTask, S!Create
  <2>2. \A k \in Journeys : k # j => survey'[k] = survey[k]
    BY <2>1 DEF SurveyParts, S!TypeOK
  <2>3. HasLeftLoop(j) /\ HasLeftLoop(j)'
    BY <1>0, <2>1 DEF JourneyParts, SurveyInv
  <2>4. \A s \in Requests : ~ Asking(s, j)
    BY <2>1
  <2> QED
    BY <1>0, <2>1, <2>2, <2>3, <2>4 DEF Asking
<1>8. ASSUME NEW j \in Journeys, SurveyTaskFails(j)
      PROVE  AskedInOnePlace'
  BY <1>1, <1>8 DEF SurveyTaskFails, TakeSurveyTask
<1>9. CASE ServeSurvey
  BY <1>1, <1>9, ProceedMakesNone DEF ServeSurvey, vars
<1>10. CASE Restart
  <2>1. \A s \in Requests : request'[s].phase # "committed"
    BY <1>10 DEF Restart, Crash, Idle
  <2> QED
    BY <1>1, <1>10, <2>1 DEF Restart, Crash, S!Crash, S!records
<1>11. ASSUME NEW r \in Requests, Reject(r) \/ Stale(r) \/ Fail(r) \/ ResponseFails(r),
              UNCHANGED survey
       PROVE  AskedInOnePlace'
  BY <1>1, <1>2, <1>11 DEF Reject, Stale, Fail, ResponseFails
<1>12. CASE UNCHANGED workflowVars
  BY <1>1, <1>12 DEF workflowVars, vars, surveyVars
<1> QED
  BY <1>3, <1>4, <1>5, <1>6, <1>7, <1>8, <1>9, <1>10, <1>11, <1>12
  DEF WorkflowNext, ServeJourney, Serve, surveyVars

LEMMA WorkflowInvariant ==
  WorkflowSpec => [](JourneyParts /\ SurveyParts /\ AskedInOnePlace)
<1>1. JourneyParts /\ SurveyParts /\ AskedInOnePlace /\ [WorkflowNext]_workflowVars
        => (JourneyParts /\ SurveyParts /\ AskedInOnePlace)'
  BY JourneyPartsStep, SurveyPartsStep, AskedInOnePlaceStep
<1> QED
  BY <1>1, WorkflowInitially, PTL DEF WorkflowSpec

(* The composition keeps its variables' types.                             *)
THEOREM WorkflowTypeCorrect == WorkflowSpec => []WorkflowTypeOK
<1>1. JourneyParts /\ SurveyParts => WorkflowTypeOK
  BY DEF JourneyParts, SurveyParts, WorkflowTypeOK
<1> QED
  BY <1>1, WorkflowInvariant, PTL

(* Only a journey that has left the interview loop has a survey, and the   *)
(* background task that creates it never meets one.                        *)
THEOREM SurveyFollowsLoopCorrect == WorkflowSpec => []SurveyFollowsLoop
<1>1. AskedInOnePlace => SurveyFollowsLoop
  BY DEF AskedInOnePlace, SurveyFollowsLoop
<1> QED
  BY <1>1, WorkflowInvariant, PTL
-----------------------------------------------------------------------------
(* What holds of the parts holds of the whole.                             *)

LEMMA WorkflowHasJourneys == WorkflowSpec => Spec
<1>1. WorkflowInit => Init
  BY DEF WorkflowInit
<1> QED
  BY <1>1, JourneysOfWorkflow, PTL DEF WorkflowSpec, Spec

(* Journeys keep what they promise while surveys are made of them: their   *)
(* history, their events, the seal and the life cycle.                     *)
THEOREM WorkflowJourneysCorrect ==
  WorkflowSpec => /\ [](HistoryIsPath /\ OutboxTellsHistory /\ AcceptedCompletedSealed)
                  /\ ImplementsLifecycle
  BY WorkflowHasJourneys, HistoryCorrect, OutboxCorrect, AcceptedCorrect, LifecycleCorrect, PTL

LEMMA BoundOfWorkflow ==
  SurveyParts /\ BoundInv /\ [WorkflowNext]_workflowVars => BoundInv'
<1> SUFFICES ASSUME SurveyParts, BoundInv, [WorkflowNext]_workflowVars PROVE BoundInv'
  OBVIOUS
<1>1. CASE UNCHANGED <<client, responses>>
  <2>1. \A j \in Journeys : Answering(j)' = Answering(j)
    BY <1>1 DEF Answering
  <2> QED
    BY <1>1, <2>1 DEF BoundInv
<1> QED
  BY <1>1, BoundStep, SurveysOfWorkflow

(* Surveys keep what they promise while journeys ask for them, background  *)
(* tasks fail and the process of both is restarted.                        *)
THEOREM WorkflowSurveysCorrect ==
  WorkflowSpec =>
    [](LinkLivesWithSurvey /\ AnsweredIsClosed /\ RemindedOnce /\ AnswersAreBounded)
<1>1. WorkflowInit => BoundInv
  BY BoundInit DEF WorkflowInit
<1>2. SurveyParts => LinkLivesWithSurvey /\ AnsweredIsClosed /\ RemindedOnce
  BY DEF SurveyParts, SurveysInv, LinkLivesWithSurvey, AnsweredIsClosed, RemindedOnce
<1> QED
  BY <1>1, <1>2, WorkflowInvariant, BoundOfWorkflow, BoundImplies, PTL DEF WorkflowSpec

(* ... and so the whole implements the life cycle of a survey, too.        *)
THEOREM WorkflowPromiseCorrect == WorkflowSpec => ImplementsSurveyLifecycle
<1>1. WorkflowInit => Promise!Init
  BY PromiseInit DEF WorkflowInit
<1>2. SurveyParts /\ [WorkflowNext]_workflowVars => [Promise!Next]_(Promise!vars)
  BY PromiseStep, PromiseQuiet, SurveysOfWorkflow
<1> QED
  BY <1>1, <1>2, WorkflowInvariant, PTL DEF WorkflowSpec, ImplementsSurveyLifecycle, Promise!Spec

(* With the journeys at rest the surveys are those of Surveys alone.       *)
LEMMA SurveysAtRest == SurveysSpec => S!Spec
<1>1. WorkflowInit => S!Init
  BY DEF WorkflowInit
<1>2. [SurveysNext]_workflowVars => [S!Next]_(S!vars)
  BY DEF SurveysNext, workflowVars, surveyVars, S!vars, S!records
<1> QED
  BY <1>1, <1>2, PTL DEF SurveysSpec, S!Spec

(* The same of the surveys on their own, whoever asks for them.            *)
THEOREM SurveysCorrect ==
  SurveysSpec =>
    /\ [](LinkLivesWithSurvey /\ AnsweredIsClosed /\ RemindedOnce /\ AnswersAreBounded)
    /\ ImplementsSurveyLifecycle
  BY SurveysAtRest, LinkCorrect, AnsweredCorrect, ReminderCorrect, BoundCorrect, PromiseCorrect, PTL
=============================================================================
