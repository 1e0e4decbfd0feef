# A verification of talentKru-server

talentKru-server is a multi-tenant recruiting backend: a FastAPI application with
one SQLAlchemy session for each request, a PostgreSQL database, background tasks
that live in the memory of the process, and schedulers in the same process. This
directory holds TLA+ models of it, TLC configurations that check them, and
theorems about them whose proofs TLAPS checks. Paths are given from `app/` of
the repository.

What the code makes hard, and what the models are therefore about:

* **Commits inside a request.** `atomic_transaction` (`service_base.py`) commits
  in the middle of handlers. Between two of them other requests run, and the
  rows read before are used after. `expire_on_commit` is left at its default, so
  an object read before a commit is read again after it, and in an asynchronous
  session that attempt may raise `MissingGreenlet`.
* **Optimistic locking on some tables.** `VersionMixin` (`base_model.py`) makes
  an UPDATE of a row whose version has moved fail. Tables of tokens, surveys and
  events do not have it, and a request that writes nothing is not checked.
* **Work kept in memory.** Event dispatch and survey creation are background
  tasks; they end with the process, and so do the ingestion of a resume and the
  analysis of a transcript. The rate limiter and its lockouts too.
* **Schedulers** that select rows first and write them later, or sleep between
  the two.
* **Long calls.** An agent or a mail server is asked in the middle of a task;
  what the task has read by then is old when the answer comes.

## Components

| Component | State | Operations | Interacts with | Correct when |
|---|---|---|---|---|
| Domain events (`domain_events/`) | event row: status, error | publish, dispatch, retry endpoint | every service publishes; handlers notify | only committed events are dispatched; effects repeat only after a fault; what was scheduled is settled |
| Journeys (`modules/journeys`) | journey row with version, stage history, sealed record | create, transition | publishes events, queues the survey task | the history is a path of the state machine, terminal stages are final, outbox and history agree |
| Surveys (`modules/surveys`) | survey row, link token, responses | create, read link, submit, reminder sweep, expiry sweep | created by journeys, swept by the scheduler | one answer, one reminder, closed in the end, the link lives with the survey |
| Tokens (`modules/auth`) | refresh token rows linked by `replaced_by_token_id` | issue, refresh, revoke a family, revoke a user's | login, password reset | chains end, revocation is permanent and stays in its session |
| Accounts (`auth`, `users`, `invitations`, `password_reset`) | user row with version, failure counter, one-time tokens | create, update, log in, accept, resend, reset | issues and revokes refresh tokens | no failed attempt is lost, a token is spent once, a locked account stays locked |
| Rate limits (`middleware/rate_limit.py`, `auth_extraction.py`) | windows and lockouts in memory | count a request, lock out | before and after every request | never more than the limit in a window, a promise to the client is kept |
| Interview slots (`modules/slots`) | slots with statuses and version, preferences with version | create, update, answer invitation, attend, set preference | publishes events | limits for a day and a week, no lost update |
| Availability (`modules/availability`) | the windows a candidate is available in | create; cancel with the interviews inside, which nothing calls | the portal creates them; the cascade writes interviews | the limit of active windows; the cascade cancels what is still scheduled |
| Notifications (`modules/notifications`) | delivery records that a sweep flushes and never commits | remind, deliver with back-off | called by a scheduler | a reminder is in time, nothing due is left out, only an attempt that never comes back holds a sweep |
| Candidates, requisitions (`modules/candidates`, `requisitions`) | rows with status and version, associations | create, transition, associate, expire | the expiry job reads journeys | statuses follow the machine, the job overwrites no update and expires whom it should |
| Feedback (`modules/feedback`) | feedback rows with version, the pointer of the slot | create, transcript, update, submit, the agent's task | writes slots | what is submitted is what was read, and nothing begun before changes it |
| Questionnaires, portal (`modules/questionnaires`, `portal`) | forms and responses with version, answers, portal tokens | create and link forms, offer responses, save, submit | candidates, requisitions | a submission is complete and final; whoever is asked has a token |
| Resumes (`modules/resumes`) | stored file, ingestion status | upload, ingest, apply | creates candidates, history, skills | what is COMPLETED was applied |
| Privacy (`modules/privacy`) | requests of data subjects | access, erase, deny, retention job | deletes candidates and resumes | a completed erasure left nothing and nothing comes back |
| Roles, skills, organizations, job profiles and postings, email configuration | records with soft deletion | create, update, delete | all | unique rows, no lost update |
| Stubs, observability, CORS, mail transport, schema | none that the models need | | | |

## Modules

| Module | Models | How its state and actions correspond to the code |
|---|---|---|
| `DomainEvents` | publication, dispatch and retry | `Publish` is the insert in the caller's transaction, `Commit`/`Rollback` the end of the session, `Respond` the point at which background tasks start. `StartTask`, `HandlerCompletes`/`HandlerFails`, `RecordOutcome` are the three steps of `_dispatch_with_status_update`; `StartRetry` and `RetryNext` are the selection and the loop of the retry. `Crash` loses what is in memory. `Contained` events have a handler that catches its own exception. |
| `EventHandlers` | the six handlers of `handlers.py` that notify | extends `DomainEvents`: `FindRow` and `MissRow` are the look-ups of a handler in its order, `Misread` the `AttributeError` of the column that no model has (`email_encrypted`, `first_name`), caught by the handler; `Lose` the deletion of a row; `OtherHandler` the rest of the registry |
| `JourneyStages` | the stage machine `VALID_TRANSITIONS` | constants and operators only, shared by the next two |
| `JourneyLifecycle` | what the journey service promises | one atomic step for each accepted transition |
| `Journeys` | `journeys/service.py` under concurrent requests | `Load` is the SELECT with the version, `Transition` everything up to the commit, `Stale` the commit that finds a moved version, `Respond`/`ResponseFails` the response built from expired rows |
| `Surveys` | `surveys/service.py` and its scheduler | `ReadToken`, `ReadSurvey`, `Submit` are the three statements of a submission; `SelectReminders`, `FlushReminders`, `SelectExpired`, `CommitSweep` those of a sweep; `Tick` ages a survey through the thresholds the code compares with |
| `SurveyLifecycle` | what the survey service promises | sending, answering and a whole sweep are one step each; no tokens, sessions, requests or faults |
| `InterviewWorkflow` | journeys and surveys composed | extends `Journeys`, instantiates `Surveys`; `RunSurveyTask` is the background task that a transition queues and that creates the survey in a session of its own, `SurveyTaskFails` its exception, which is logged; `Restart` ends the process of both; `Promise` maps the surveys to `SurveyLifecycle`, a sweep at its commit |
| `RefreshTokens` | `auth/service.py`, tokens | `Present` judges a token, `Rotate` replaces it, `WalkAhead` and `WalkBack` are one query each of `_revoke_token_family`, `SelectActive`/`RevokeUser` the two halves of `revoke_all_user_tokens` |
| `Accounts` | the rows of users, invitations and resets | a request reads the token, reads the user and writes; `Seen` says whether the version it read is still current |
| `RateLimits` | the middleware | `ArriveLogin`, `ArriveGuarded`, `ArriveTenant` are its three paths, `Allow` and `Refuse` are `is_allowed`, `Tick` the clock |
| `InterviewSlots` | `slots/service.py` under concurrent requests | creation is `ReadPreference`, `CountDay`, `CountWeek`, `Insert`, one statement each; `ReadSlot` loads a row with its version, `Patch`, `AnswerInvitation`, `Attend` are the three updates; `ReadOwn` and `Prefer` set a preference; `Fail` is every request that is refused, finds its row moved or does not commit |
| `Recruiting` | `candidates/service.py`, `requisitions/service.py`, the expiry job of `main.py` | `ReadCandidate`/`MoveCandidate` and `ReadRequisition`/`MoveRequisition` are the read and the commit of a status change, `GetRequisition` the earlier request in which the client learns the version it will name; `FindAddressFree`/`InsertCandidate` and `FindOpen`/`FindEligible`/`Associate` check and insert; `SelectStale` and `CommitSweep` are the select and the commit of the job; `BeginJourney` and `EndJourney` are what it reads of journeys |
| `Notifications` | the reminder scheduler, `check_24h_reminders`, `deliver` | `Select` finds the interviews of the next 24 hours; `Take` looks at the clock and begins a delivery; `Deliver`, `Retry`, `GiveUp` are the outcomes of an attempt, `Wake` the end of a back-off; `Finish` and `Fail` go back to sleep; `Tick` is a minute, and what happens between two sleeps takes none: an attempt comes back at once or never, as `smtplib` is called in the event loop and without a time-out |
| `Questionnaires` | `questionnaires/service.py`, `portal/service.py` | `Load` reads a response and refuses a submitted one, `Judge` the answers against the form, `Save` writes both; `FindMissing`, `FindToken`, `Offer` are the three steps of the automatic responses; `PortalSave` is the portal's way to `save_answers`, which can only fail |
| `Feedback` | `feedback/service.py` | `ReadSlot` then `Create` or `SubmitTranscript`; `ReadFeedback` then `Update` or `Submit`; `AgentReads`, `AgentAnswers`, `AgentFails` are the task that asks the agent |
| `Availability` | `availability/service.py` | `Count` and `Insert` are the two halves of a creation; `ReadWindow`, `FindInterviews`, `Cascade` the cancellation |
| `CandidateData` | `resumes/service.py`, `privacy/service.py` and its job | `Ask`, `Answer`, `CreateCandidate`, `Apply`, `ApplyPartly`, `Complete`, `FailIngestion` are the ingestion between its commits; `ReadDsar` then `Access`, `Erase` or `Deny`; `Select` and `Purge` the retention job; foreign keys refuse what they refuse in the database |
| `Records` | the last five modules together | they share no variable: a behaviour is one of a single component, named by `part`, and the state space is the sum of the five. `Parts` are the components of an instance; `RemindersSpec` is that of the reminders by themselves, with their fairness |

`MCAccounts`, `MCRateLimits`, `MCInterviewSlots` and `MCRecords` give symmetry,
bookings and limits to TLC. Theorems are in `EventHandlers_proofs`,
`InterviewWorkflow_proofs`, `RefreshTokens_proofs`, `Accounts_proofs`,
`RateLimits_proofs`, `InterviewSlots_proofs`, `Recruiting_proofs` and
`Records_proofs`.

Some abstractions decide more than others:

* A version number is represented in `Accounts`, `InterviewSlots` and
  `Recruiting` by whether it is still the one a request read; only equality
  of versions is ever used.
* In `InterviewSlots` a booking is a constant: what a request asks for does not
  depend on what is stored. `Patches`, `Answers` and `Reports` restrict what
  updates ask for, to keep the instance small; the theorems are for any of them.
* `Respond` and `ResponseFails` (and `Mail`/`Audit` against `Fail` in
  `Accounts`) are both possible: whether reading an expired row succeeds depends
  on the session's configuration, and the safety properties hold either way.
* A journey that is rejected or withdrawn keeps the overall status ACTIVE; this
  is what the code does, and `AcceptedCompletedSealed` says so. The expiry job
  counts such a journey as active (`InJourney` in `Recruiting`), so a candidate
  with one never expires.
* In `Feedback`, `Availability` and `CandidateData` a request that has read a row
  carries `moved`, or the row itself, in place of a version; in `Questionnaires`
  an UPDATE is sent only when a column changes, as SQLAlchemy does, and
  `updated_by` is one of the columns.
* In `CandidateData` "old" rows are those the retention policy lets go: rows
  become old, and young again when the policy is made longer.
* In `Notifications` the rows a sweep has found stay in its session: the status
  that `send_24h_reminder` checks is the one that was found.
* A candidate of `Recruiting` is an email address: the unique constraint also
  covers deleted rows, so an address has one row for good.
* An account that is pending and has been given a password by a reset may log in,
  as the code only turns LOCKED and INACTIVE away.
* The lockout reads the wall clock and the windows a monotonic one; the model
  has one clock, i.e. it assumes that the wall clock is not set back.

## Runs

Each passing run explores its whole state space. Type correctness is a theorem
of every module.

| Run | Instance | States | Shows |
|---|---|---|---|
| `events` | 2 events, one of a notifying handler, 1 retry, 3 faults | 36,696 | an event is dispatched after its commit only, effects are bounded by the faults, scheduled and failed events are settled in the end, a background task has its event to itself, and a notification that failed is never taken up again |
| `journeys` | 1 journey, 2 requests | 199,473 | however two transitions race, with failed commits and restarts, the row, its history, its record and the outbox agree; the service implements `JourneyLifecycle`, whose steps are those of the state machine |
| `surveys` | 2 surveys, 2 clients, 1 fault | 355,098 | under `SurveysSpec` (journeys at rest), submissions against sweeps: link and status agree, one reminder, no more answers than clients at once; the service implements `SurveyLifecycle`; overdue surveys are closed and due ones reminded of |
| `workflow` | 1 journey, 1 request, 1 client | 237,392 | a survey belongs to a journey that left its loop; a queued task makes it |
| `tokens` | 3 rows, 1 user, 2 requests | 487,844 | links sound and acyclic, revocation for good and in its session, the walk ends |
| `accounts` | 1 user, 2 invitations, 1 reset, 2 requests | 845,252 | the failure counter loses nothing, only requests that found a token unused use it, only an invitation unlocks |
| `limits` | 2 requests on 3 kinds of path, limits 1 and 2 | 2,162,011 | the window, the promised wait and the lockout hold |
| `recruiting` | 1 candidate with 2 journeys, 1 requisition, 2 requests | 283,981 | statuses move as the machines permit, the job overwrites no update, an idle candidate is expired in the end |
| `slots` | 1 interviewer with 3 slots, 1 slot without, 2 requests, 2 preferences | 987,932 | an interviewer is booked above a limit by at most as many as there are other requests |
| `reminders` | 2 interviews, a sweep a minute, a window of 12, 3 attempts, 1 fault | 683,744 | under `RemindersSpec`: no reminder is early or for an interview long begun; what is due is taken up within a bound; a sweep ends whatever fails, unless an attempt never comes back |
| `records` | the other four components of `Records`, each with two requests | 1,782,994 | submissions stay and are complete, no feedback replaces one that was not seen, the limit of windows is exceeded by racing requests only, a completed erasure or ingestion was carried out |
| `tokens_missed_child` | as `tokens` (`tokens_deviations.cfg`) | violation | a reuse leaves one token of the family alive |

Why the bounds are enough: the races of this code are between two requests, or
a request and a sweep, over one row (`journeys`, `accounts`) or over a chain of
rows, for which three tokens give a token with a predecessor and a successor
(`tokens`). Three slots and limits of one and two let two requests that race
exceed a limit and a third slot be refused (`slots`). Two surveys let
a sweep select one and lose the race for the other. The candidate of `recruiting`
has two journeys, one that may have ended and one that runs; that a sweep of two
candidates fails as a whole when one of them has moved is explored by
`recruiting_two_candidates.cfg`, under which the same properties hold.
A notifying handler and one that completes cover both fates of an event; three
faults allow a failed commit, a crash and one more in one behaviour (`events`).
Two interviews make one wait for the other's back-offs, three attempts have two
back-offs of different length, and the window is longer than the bound of
`DueIsTakenUp`, which is 11 there (`reminders`);
the bound of `DueIsTakenUp` with the real values, a sleep of 15 minutes and
back-offs of 15 minutes in all, exceeds the day when more than 48 interviews are due
and every attempt fails at once: some of them are then never tried. What attempts
themselves take is not counted and comes on top, without limit. In
`records` two requests race for one response, slot, window or candidate; three
windows exceed a limit of one by more than the other request; two
candidate rows of one person let an erased one come back under another id.
The lock threshold is 5 in the code and 2 in the run: one miss that does not
lock and one that does. `MaxFaults`, `MaxFailures`, `MaxCount` and `MaxTime`
bound counters and the clock; the theorems hold for any value of them.

### Fairness

* `events` (`HandlersSpec`): the event loop runs what is ready, i.e. responses,
  background tasks, look-ups and jobs go on (weak fairness). The retry is called again and again, which is
  an operator's duty, as nothing in the code calls it; and a handler other than
  the notifying ones, tried again and again, completes (strong fairness). Faults are finitely many.
* `surveys`: the scheduler's loop comes round again and a sweep, once begun,
  goes on; it fails, or the process ends, finitely often. The scheduler sleeps
  before its first sweep, so a process that is restarted more often than once in
  a period never sweeps.
* `workflow`: the same, and responses and queued tasks go on.
* `recruiting`: the expiry scheduler comes round again, a sweep once begun ends,
  and it is neither hit by an update nor fails each time (strong fairness of the
  commit), as a sweep takes a moment and comes once a day. It sleeps a day
  before its first sweep, so this too needs a process that lives longer.
  Requests owe nothing.
* `reminders` (`RemindersSpec`): the clock goes on, and so does what the event
  loop does by itself (`Proceed`). Nothing is assumed of `Attempt`, neither that
  a mail arrives nor that the call comes back: `_send_via_smtp` and
  `_send_via_system_smtp` set no time-out, so a server that takes the connection
  and says nothing keeps the attempt for ever. `SweepEndsOrHangs` names this as
  the one way in which a sweep does not end.
* `tokens`: a walk that was begun goes on. Other requests owe nothing.

No other run assumes fairness. As that call blocks the event loop, everything
above that is said of responses, tasks and schedulers is also said of a process
in which no attempt hangs, or that is restarted when one does.

## Known deviations

The following statements of the repository's documents and comments are refuted
by what the code does. `ReuseEndsFamily` is a run of the project. The others have
configurations beside their modules, in which TLC finds the violation in seconds:
a `_deviations.cfg` lists the statements about its module, to be checked one at a
time (`tlc -config accounts_deviations.cfg Accounts.tla`; `EventHandlers.tla` for
those of `events`, `Notifications.tla` for `reminders`, `CandidateData.tla` for
`candidate_data`, `MCRateLimits.tla` for `limits`, `MCInterviewSlots.tla` for
`slots_overbooked`).

| Statement (definition) | Configuration | The code |
|---|---|---|
| an expired survey was not answered (`ExpiredWasNotAnswered`) | `surveys_deviations` | the sweep overwrites COMPLETED |
| a reuse ends the whole family (`ReuseEndsFamily`) | `tokens_deviations`, run `tokens_missed_child` | a rotation commits behind the walk |
| an update that names an outdated version is a conflict (`UpdatesAreFresh`) | `recruiting_deviations` | the version that is named is not compared |
| leaving the loop makes a survey (`LeavingLoopMakesSurvey`) | `workflow_lost_survey` | the task is lost with the process |
| an invitation is used once (`TokenSpentOnce`) | `accounts_deviations` | the token has no version |
| a pending event waits for the retry (`PendingIsEventuallyDispatched`) | `events_deviations` | the retry selects FAILED only |
| PROCESSED means delivered (`ProcessedWasDelivered`) | `events_deviations` | handlers catch their exceptions |
| the retry dispatches failed events (`RetriesOnlyFailed`) | `events_deviations` | two passes overlap |
| the retry counts what raised (`ErrorsCountRaised`) | `events_deviations` | the exception does not leave the dispatch |
| a version conflict is a 409 (`StaleIsConflict`) | `journeys_deviations` | the router's catch-all answers 500 |
| a committed transition succeeds (`CommittedIsAnsweredOk`) | `journeys_deviations` | the response reads expired rows |
| one response for a survey (`AtMostOneResponse`) | `surveys_deviations` | nothing locks the survey |
| no reminder for an expired survey (`NoReminderForExpired`) | `surveys_deviations` | the query has no upper bound |
| a closed survey is 409 or 410 (`ClosedSurveyIsGone`) | `surveys_deviations` | its link is refused first, with 401 |
| a rotation is linked (`RotationIsLinked`) | `tokens_deviations` | two rotations overwrite the link |
| all of a user's sessions are revoked (`RevokeUserEndsAll`) | `tokens_deviations` | one is issued after the select |
| locking revokes the sessions (`LockedHasNoLiveToken`) | `tokens_deviations` | it sets the status only |
| one open invitation (`OneOpenInvitation`) | `accounts_deviations` | two resends race |
| no login when locked (`NoLoginWhenLocked`) | `accounts_deviations` | a login that writes nothing is not told |
| a created account is invited (`PendingIsInvited`) | `accounts_deviations` | only the resend makes invitations |
| a reset is audited (`ResetIsAudited`) | `accounts_deviations` | the entry is a later transaction |
| resets are mailed to active accounts (`ResetMailedToActive`) | `accounts_deviations` | pending ones are mailed too |
| a new invitation is mailed (`InvitationIsMailed`) | `accounts_deviations` | the mail follows the commit |
| a lockout lasts 15 minutes from the first blocked request (`LockoutIsNotExtended`) | `limits_deviations` | logins in flight set it anew |
| excess requests are rejected (`RefusedIsNotServed`) | `limits_deviations` | a tenant's are served, then answered 429 |
| a tenant has its own limit (`TenantLimitHolds`) | `limits_deviations` | the first request of the process fixes it |
| a candidate in a journey is not expired (`SweptHaveNoJourney`) | `recruiting_deviations` | a journey begins after the select |
| only an open requisition gets candidates, and eligible ones (`AssociatesEligible`) | `recruiting_deviations` | neither row is looked at again |
| no user sets Expired (`OnlyTheJobExpires`) | `recruiting_deviations` | the machine permits it to everybody |
| no assignment above the limit of a day (`AssignmentsRespectDay`) | `slots_overbooked` | the counts precede the insert |
| who is there gets a mail (`NotifiedWhenPresent`) | `events_deviations` | the handlers read columns that no model has |
| a cancelled interview has no reminder (`CancelledIsNotReminded`) | `reminders_deviations` | the status is the one found before the back-offs |
| the reminder check is run again and again (`SweepsRecur`) | `reminders_deviations` | an attempt has no time-out and may never come back |
| an interview has one reminder (`OneReminder`) | `reminders_deviations` | no record of it is committed |
| a candidate has one live portal token (`OneLiveToken`) | `questionnaires_deviations` | two offers each make one |
| what is missing is offered (`OfferIsPossible`) | `questionnaires_deviations` | with two live tokens the look-up fails |
| a submitted response is not modified (`SubmittedIsFrozen`) | `questionnaires_deviations` | a late draft of its last writer changes no column of the row |
| a submitted feedback is not edited (`SubmittedIsFrozen`) | `feedback_deviations` | the agent's task asks for no status |
| a transcript is analysed (`DraftHasTask`) | `feedback_deviations` | the task is lost with a reply that fails |
| the limit of windows (`LimitIsKept`) | `availability_deviations` | the count precedes the insert |
| a cancelled window holds no scheduled interview (`CancelledIsClear`) | `availability_deviations` | one is scheduled after the look-up |
| an erasure deletes everything (`ErasureIsComplete`) | `candidate_data_deviations` | rows of skills stay |
| an erasure is carried out (`ErasureIsPossible`) | `candidate_data_deviations` | the foreign keys of history and journeys refuse it |
| what is denied was not done (`DeniedIsKept`) | `candidate_data_deviations` | a denial asks for no status |
| a new candidate gets its resume (`CreatedIsLinked`) | `candidate_data_deviations` | the id is read after a commit has expired it |

## What is proved

Every theorem is for any constants that satisfy the module's named assumption.

* `EventHandlers_proofs`. A task exists only for an event that was committed, and
  an event is in one place: a task meets it PENDING, a retry FAILED, so that with
  one retry at a time two dispatches of it do not overlap and a second effect
  needs a fault (`EffectsBoundedByFaults`, which assumes one retrier; with one
  retrier `RetriesOnlyFailed` holds too, `RetryCorrect`, and two break both).
  However many retriers there are, no retry has the event of a background task
  that waits or runs (`TaskRunsAlone`): until the task records an outcome the
  event is PENDING, and afterwards it has no task again. A dispatcher has found
  at most the rows its handler looks for (`HandlersTypeCorrect`). An event of a notifying handler never leaves its
  handler with an exception, so it is never FAILED, never in a batch, and never
  tried again. Each action of `EventHandlers` is one of `DomainEvents` or
  leaves its variables alone.
* `InterviewWorkflow_proofs`, in three parts.
  Journeys: the invariant adds to the properties that a request that
  has loaded a row whose version has not moved holds the row's stage, and that
  the history starts at the first stage and each step is permitted. A commit
  with a moved version is impossible, so a committed step extends the history
  from its last stage; this gives `HistoryIsPath`, and from it that a terminal
  stage, which permits nothing, is final. `OutboxTellsHistory` and
  `SurveyAskedOnce` follow because both are written with the step; leaving the
  loop happens once since no stage after it leads back. `LifecycleCorrect` shows
  that each step is a step of `JourneyLifecycle` or a stutter.
  Surveys: link and status are written together in every transaction
  that touches either, and a sweep holds survey rows from its flush to its
  commit, which is what makes `RemindedOnce` inductive.
  While the link of a survey is open there is no answer; so the requests that may
  still answer and the answers there are, counted together, are never more than
  the requests, although nothing locks the survey (`AnswersAreBounded`).
  `PromiseCorrect` shows that each step is a step of `SurveyLifecycle` or a
  stutter: a sweep takes effect at its commit, and what it has selected by then
  was sent and, as it holds the rows, not reminded of meanwhile.
  Their composition: a journey that has left its loop is asked for in one place
  at a time, a request that has yet to answer, a queued task or the survey
  itself (`AskedInOnePlace`), which makes `SurveyFollowsLoop` inductive. Each
  step of the whole is one of either part and leaves the other alone, or a
  restart of both; so what is proved of the parts, refinements included, holds of
  the whole and of `SurveysSpec`, which the run `surveys` uses.
* `RefreshTokens_proofs`. Rows carry no version, so the proof rests on what
  cannot go stale: owner and session of an inserted row do not change, a revoked
  row stays revoked, and a link leads to the row inserted with it, which was
  fresh and so was the end of no other chain (`ChainsEnd`). A family that is
  being walked is a set of rows of one session.
* `Accounts_proofs`. The row a request has read is the row there is, as long as
  its version has not moved; so an increment written over an unmoved version
  loses nothing. What a token gave is counted by the cardinality of finite sets,
  and so are the two bounds. `SpendingIsBounded`: uses and requests that may still
  use a token are together at most the requests, as none joins once it is used.
  `InvitationsAreBounded`: for every set of resends that have selected and not yet
  committed, the invitations that none of them selected, and they themselves, are
  together at most the requests. A resend that selects sees all that are open;
  one that commits leaves the set and adds one invitation. For the empty set
  this is the bound; for it alone it would not be inductive.
* `RateLimits_proofs`. The stamps of a window are the last admissions, those
  before them are older than the window, and there are at most `cap` of them.
  The wait that was promised ends after enough of them have left.
* `InterviewSlots_proofs`. A count bounds what the interviewer has only at the
  moment it is taken, so the bound alone is not inductive. The invariant counts,
  with the slots that are kept, the requests that have passed the count and wait
  to insert: together they are at most the highest limit plus the number of
  requests less one. An insertion moves one from the waiting to the kept; a
  count is passed with room for one, whoever else waits at that moment.
  Cancelled slots that an update takes back are left out of the count, since the
  update judges no limit.
* `Recruiting_proofs`. What a request has read is what there is while `current`
  holds, and a selected candidate that has not moved is still ACTIVE and idle;
  each write outdates both. So a write over an unmoved version takes a way of the
  machine from the status that is there, and a sweep without moved rows expires
  none but idle candidates.
* `Records_proofs`, a part for each component and their composition.
  Questionnaires: a request that has loaded a response has found it not
  submitted and holds the row there is, until that moves. A write that changes a
  column compares the version, so it meets no submitted row; one that changes
  none is a draft of the user who wrote the row last, which is the one exception
  that `SubmittedIsFinal` names.
  Feedback: what was read, of a slot or a feedback, is what is there until it
  moves, and what is edited was read as a draft. So the row that a submission
  writes is the one it read, and after it no edit that was under way commits.
  Availability: windows that are active and requests that have counted are
  together fewer than the limit and the requests (`ActiveOverrunIsBounded`, by
  the cardinality of finite sets); an interview that was found is SCHEDULED
  unless the cascade knows it moved.
  CandidateData: what refers to a candidate refers to a row (the foreign keys),
  ids are never given twice and a row that is gone stays gone, whence
  `CompletedErasureIsDone` whatever ingestion is under way; a resume is PENDING
  while its ingestion lasts, and before the last commit the owner has what the
  answer brings, whence `CompletedIsApplied`.
  Notifications: back-offs double, which the provers do not calculate with; the
  power is stated as the number of subsets of the attempts, of which the
  library's theorems say all that is needed.
  Between the first attempt, which looked at the clock, and a later one lie the
  back-offs of this delivery and nothing else (`RemindersAreTimely`). What a due
  interview has waited is counted with what may lie ahead of it: the rest of a
  sleep or of the sweep that runs, the others of its own sweep, and as much again
  for each sweep that may still fail. Together they never exceed the longest wait
  (`DueIsTakenUp`): what time adds to the one it takes from the other.
  The proof asks for finitely many interviews, and for the wait of an interview to
  begin anew when it is planned; the model says both.
  `RecordsCorrect` states all of it for the composition, a behaviour of which is
  a behaviour of each component.

Theorems that no run repeats: `AcceptedCompletedSealed`, `TerminalIsFinal`,
`SurveyAskedOnce`, `HistoryIsPath`, `AnsweredIsClosed`, `ChainsEnd`,
`RevokedForGood`, `OpenedHasPassword`, `SpentIsRecorded`, `InvitationsAreBounded`, `AskedHaveToken`, and `RetriesOnlyFailed` with one retry
at a time.

Every invariant and every action property of a run is a theorem. Only
model-checked: the liveness properties, which are out of the prover's reach.

## What would come next

1. The composition of `Accounts` and `RefreshTokens`: what a locked account can
   still do. The deviations `LockedHasNoLiveToken` and `NoLoginWhenLocked` state
   what is known of it.
2. Roles, skills, organizations, job profiles and postings, email configuration:
   each checks a name and inserts, or updates a row that has a version; the
   races are those of `Recruiting`.
3. The number of live portal tokens of a candidate, which racing offers raise
   (`OneLiveToken`): a bound by the requests, as for invitations, needs more forms
   than an instance of `records` can have.

## What is not modelled

Reads, listings and pagination, those of the portal among them; the token by
which an address is verified; the content of mails, events and reports and the
cache of their templates; encryption and hashing; the decoding of access tokens,
their revocation cache (which nothing fills) and impersonation; the survey
templates; file storage beyond one call; CORS, whose cache decides a response
header; observability; the stub modules; migrations and sample data. The roles,
skills, organizations, job profiles, postings and email configuration are
records that are created, updated and deleted; what they do that is not plain
insertion is `match_and_link_skills`, which `CandidateData` takes in. The clock
of the database and that of the process are taken to agree. A dispatch that an
operator starts by hand while a background task of the same event runs is
modelled by the retry only.
