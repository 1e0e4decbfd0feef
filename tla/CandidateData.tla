--------------------------- MODULE CandidateData ----------------------------
(***************************************************************************)
(* What is kept of a candidate, and how it goes: resumes and their         *)
(* ingestion (app/modules/resumes), the requests of data subjects and the  *)
(* retention sweep (app/modules/privacy).                                  *)
(*                                                                         *)
(* A resume, a job history, a journey and an application refer to the row  *)
(* of their candidate by a foreign key; skills do not.  Only its own       *)
(* ingestion writes a resume; a candidate has a version, a request of a    *)
(* data subject has none.                                                  *)
(***************************************************************************)
EXTENDS Integers, FiniteSets

CONSTANTS
  Candidates,    (* ids, never given twice                                  *)
  People,        (* who an address belongs to                               *)
  Resumes,
  Dsars,         (* data subject access requests                            *)
  Workers,       (* requests that may be served at once                     *)
  NoOne          (* no owner, no person                                     *)

VARIABLES
  candidate,
  resume,
  referred,      (* candidates with a history, a journey or an application  *)
  skilled,       (* candidates with rows of skills                          *)
  dsar,
  ingestion,     (* the background task of each resume                      *)
  handling,      (* what each request is doing                              *)
  sweep          (* the retention sweep                                     *)

stored == <<candidate, resume, referred, skilled, dsar>>

dataVars == <<stored, ingestion, handling, sweep>>

CandidateRows == [person: People, deleted: BOOLEAN, old: BOOLEAN]

(* What the agent makes of a resume.                                       *)
Parsed == [person: People \cup {NoOne}, jobs: BOOLEAN, skills: BOOLEAN]

Unparsed == [person |-> NoOne, jobs |-> FALSE, skills |-> FALSE]

ResumeRows ==
  [status: {"PENDING", "COMPLETED", "FAILED"}, owner: Candidates \cup {NoOne},
   old: BOOLEAN, parsed: Parsed]

(* A row that is not there yet, and one that is no more.                   *)
Fresh == [is |-> "fresh"]
Gone == [is |-> "gone"]

Idle == [phase |-> "idle"]

Ingestions ==
  {Idle} \cup [phase: {"queued", "asking"}]
    \cup [phase: {"creating"}, parsed: {p \in Parsed : p.person # NoOne}]
    \cup [phase: {"completing"}, parsed: Parsed]
    \cup [phase: {"created"}]
    \cup [phase: {"applying"}, parsed: Parsed, of: Candidates, seen: CandidateRows]

DsarStatus == {"PENDING", "PROCESSING", "COMPLETED", "DENIED"}

DsarRows == [of: Candidates, type: {"ACCESS", "ERASURE"}, status: DsarStatus]

CandidateDataTypeOK ==
  /\ candidate \in [Candidates -> CandidateRows \cup {Fresh, Gone}]
  /\ resume \in [Resumes -> ResumeRows \cup {Fresh, Gone}]
  /\ referred \in SUBSET Candidates
  /\ skilled \in SUBSET Candidates
  /\ dsar \in [Dsars -> DsarRows \cup {Fresh}]
  /\ ingestion \in [Resumes -> Ingestions]
  /\ handling \in [Workers -> {Idle} \cup
       [phase: {"process", "deny"}, of: Dsars, seen: DsarStatus]]
  /\ sweep \in {Idle} \cup
       [phase: {"delete"}, candidates: SUBSET Candidates,
        seen: UNION {[found -> ResumeRows] : found \in SUBSET Resumes}]

Init ==
  /\ candidate = [c \in Candidates |-> Fresh]
  /\ resume = [r \in Resumes |-> Fresh]
  /\ referred = {}
  /\ skilled = {}
  /\ dsar = [d \in Dsars |-> Fresh]
  /\ ingestion = [r \in Resumes |-> Idle]
  /\ handling = [w \in Workers |-> Idle]
  /\ sweep = Idle

Exists(row) == row \notin {Fresh, Gone}

Rows == {c \in Candidates : Exists(candidate[c])}

Live(c) == Exists(candidate[c]) /\ ~candidate[c].deleted

(* A row as it was read, but for its age: it has not been written since.   *)
Unwritten(row, seen) == Exists(row) /\ [row EXCEPT !.old = seen.old] = seen

Owned(c) == {r \in Resumes : Exists(resume[r]) /\ resume[r].owner = c}

-----------------------------------------------------------------------------
(* The rest of the system, as far as it matters here.                      *)

(* uq_candidates_org_email holds of deleted candidates too.                *)
AddCandidate(c, person) ==
  /\ candidate[c] = Fresh
  /\ \A other \in Rows : candidate[other].person # person
  /\ candidate' = [candidate EXCEPT ![c] =
       [person |-> person, deleted |-> FALSE, old |-> FALSE]]
  /\ UNCHANGED <<resume, referred, skilled, dsar, ingestion, handling, sweep>>

(* The transition to DELETED, from where there is no way back.             *)
SoftDelete(c) ==
  /\ Live(c)
  /\ candidate' = [candidate EXCEPT ![c].deleted = TRUE]
  /\ UNCHANGED <<resume, referred, skilled, dsar, ingestion, handling, sweep>>

(* A journey or an application.                                            *)
Refer(c) ==
  /\ Live(c)
  /\ referred' = referred \cup {c}
  /\ UNCHANGED <<candidate, resume, skilled, dsar, ingestion, handling, sweep>>

(* Rows come to the age at which the policy lets them go; a longer policy  *)
(* takes that back (update_retention_policy).                              *)
Age ==
  /\ \/ \E c \in Rows : /\ candidate' = [candidate EXCEPT ![c].old = ~@]
                        /\ UNCHANGED resume
     \/ \E r \in Resumes : /\ Exists(resume[r])
                           /\ resume' = [resume EXCEPT ![r].old = ~@]
                           /\ UNCHANGED candidate
  /\ UNCHANGED <<referred, skilled, dsar, ingestion, handling, sweep>>

(* Nothing in the code makes these requests.                               *)
File(d, c, type) ==
  /\ dsar[d] = Fresh
  /\ candidate[c] # Fresh
  /\ dsar' = [dsar EXCEPT ![d] = [of |-> c, type |-> type, status |-> "PENDING"]]
  /\ UNCHANGED <<candidate, resume, referred, skilled, ingestion, handling, sweep>>

-----------------------------------------------------------------------------
(* Resumes and their ingestion.                                            *)

Continue(r, task) == ingestion' = [ingestion EXCEPT ![r] = task]

(* upload_resume: the row, after its file.  The reply is built from a row  *)
(* that the commit has expired; when it fails, the task is not run.        *)
Upload(r, owner) ==
  /\ resume[r] = Fresh
  /\ owner \in Rows \cup {NoOne}
  /\ resume' = [resume EXCEPT ![r] =
       [status |-> "PENDING", owner |-> owner, old |-> FALSE, parsed |-> Unparsed]]
  /\ \E task \in {Idle, [phase |-> "queued"]} : Continue(r, task)
  /\ UNCHANGED <<candidate, referred, skilled, dsar, handling, sweep>>

(* _run_ingestion finds the row and asks the agent ...                     *)
Ask(r) ==
  /\ ingestion[r] = [phase |-> "queued"]
  /\ Continue(r, IF Exists(resume[r]) THEN [phase |-> "asking"] ELSE Idle)
  /\ UNCHANGED <<stored, handling, sweep>>

Living(person) == {c \in Rows : Live(c) /\ candidate[c].person = person}

(* ... whose answer names someone or no one.  A candidate of that address  *)
(* is looked for.                                                          *)
Answer(r, parsed) ==
  /\ ingestion[r] = [phase |-> "asking"]
  /\ \/ /\ parsed.person = NoOne
        /\ Continue(r, [phase |-> "completing", parsed |-> parsed])
     \/ /\ parsed.person # NoOne
        /\ Living(parsed.person) = {}
        /\ Continue(r, [phase |-> "creating", parsed |-> parsed])
     \/ \E c \in Living(parsed.person) :
          Continue(r, [phase |-> "applying", parsed |-> parsed, of |-> c,
                       seen |-> candidate[c]])
  /\ UNCHANGED <<stored, handling, sweep>>

(* A new candidate is committed on its own.  What follows reads its id,    *)
(* which the commit has expired, and fails.                                *)
CreateCandidate(r, c) ==
  LET person == ingestion[r].parsed.person
  IN  /\ ingestion[r].phase = "creating"
      /\ candidate[c] = Fresh
      /\ \A other \in Rows : candidate[other].person # person
      /\ candidate' = [candidate EXCEPT ![c] =
           [person |-> person, deleted |-> FALSE, old |-> FALSE]]
      /\ Continue(r, [phase |-> "created"])
      /\ UNCHANGED <<resume, referred, skilled, dsar, handling, sweep>>

(* What an answer brings to a candidate, and to the row of its resume.     *)
Bring(r, row) ==
  LET i == ingestion[r]
  IN  /\ resume' = [resume EXCEPT ![r] = row]
      /\ referred' = IF i.parsed.jobs THEN referred \cup {i.of} ELSE referred
      /\ skilled' = IF i.parsed.skills THEN skilled \cup {i.of} ELSE skilled

Linked(r) == [resume[r] EXCEPT !.owner = ingestion[r].of]

Completed(row, parsed) == [row EXCEPT !.status = "COMPLETED", !.parsed = parsed]

ApplyBlindly(r) ==  (* mutation: neither key nor version of the candidate  *)
  LET i == ingestion[r]
  IN  /\ i.phase = "applying"
      /\ Exists(resume[r])
      /\ Bring(r, Linked(r))
      /\ Continue(r, [phase |-> "completing", parsed |-> i.parsed])
      /\ UNCHANGED <<candidate, dsar, handling, sweep>>

(* The name and phone, the resume's owner, the history and the skills.     *)
(* With skills they are committed by match_and_link_skills, and the status *)
(* after them; without, all of it at the end.  A candidate that has moved  *)
(* or gone fails the commit.                                               *)
Apply(r) ==
  LET i == ingestion[r]
  IN  /\ i.phase = "applying"
      /\ Exists(resume[r])
      /\ Unwritten(candidate[i.of], i.seen)
      /\ IF i.parsed.skills
           THEN /\ Bring(r, Linked(r))
                /\ Continue(r, [phase |-> "completing", parsed |-> i.parsed])
           ELSE /\ Bring(r, Completed(Linked(r), i.parsed))
                /\ Continue(r, Idle)
      /\ UNCHANGED <<candidate, dsar, handling, sweep>>

(* An answer of another shape fails between two of these, and what was     *)
(* applied before is committed with the failure.                           *)
ApplyPartly(r) ==
  LET i == ingestion[r]
  IN  /\ i.phase = "applying"
      /\ Exists(resume[r])
      /\ Unwritten(candidate[i.of], i.seen)
      /\ resume' = [resume EXCEPT ![r] = [Linked(r) EXCEPT !.status = "FAILED"]]
      /\ referred' \in {referred, referred \cup {i.of}}
      /\ Continue(r, Idle)
      /\ UNCHANGED <<candidate, skilled, dsar, handling, sweep>>

CompleteAnyway(r) ==  (* mutation: completed before its results are applied *)
  /\ ingestion[r].phase \in {"applying", "completing"}
  /\ Exists(resume[r])
  /\ resume' = [resume EXCEPT ![r] = Completed(@, ingestion[r].parsed)]
  /\ Continue(r, Idle)
  /\ UNCHANGED <<candidate, referred, skilled, dsar, handling, sweep>>

Complete(r) ==
  /\ ingestion[r].phase = "completing"
  /\ Exists(resume[r])
  /\ resume' = [resume EXCEPT ![r] = Completed(@, ingestion[r].parsed)]
  /\ Continue(r, Idle)
  /\ UNCHANGED <<candidate, referred, skilled, dsar, handling, sweep>>

(* Whatever fails ends as FAILED, unless the session is past use, the row  *)
(* is gone or the process ends: nothing takes the resume up again.         *)
FailIngestion(r) ==
  /\ ingestion[r] # Idle
  /\ \/ UNCHANGED resume
     \/ /\ Exists(resume[r])
        /\ resume' = [resume EXCEPT ![r].status = "FAILED"]
  /\ Continue(r, Idle)
  /\ UNCHANGED <<candidate, referred, skilled, dsar, handling, sweep>>

-----------------------------------------------------------------------------
(* The requests of data subjects.                                          *)

Handle(w, task) == handling' = [handling EXCEPT ![w] = task]

(* The router reads the request, whatever its status.                      *)
ReadDsar(w, d, phase) ==
  /\ handling[w] = Idle
  /\ dsar[d] # Fresh
  /\ Handle(w, [phase |-> phase, of |-> d, seen |-> dsar[d].status])
  /\ UNCHANGED <<stored, ingestion, sweep>>

(* A status that is the one that was read is not written.                  *)
SetStatus(w, status) ==
  dsar' = IF status = handling[w].seen THEN dsar
          ELSE [dsar EXCEPT ![handling[w].of].status = status]

(* process_access_dsar compiles and completes, for a candidate that lives. *)
Access(w) ==
  /\ handling[w].phase = "process"
  /\ dsar[handling[w].of].type = "ACCESS"
  /\ Live(dsar[handling[w].of].of)
  /\ SetStatus(w, "COMPLETED")
  /\ Handle(w, Idle)
  /\ UNCHANGED <<candidate, resume, referred, skilled, ingestion, sweep>>

Remove(candidates, resumes) ==
  /\ resume' = [r \in Resumes |-> IF r \in resumes THEN Gone ELSE resume[r]]
  /\ candidate' = [c \in Candidates |->
       IF c \in candidates /\ candidate[c] # Fresh THEN Gone ELSE candidate[c]]

(* process_erasure_dsar: the resumes, the candidate, the reference in the  *)
(* audit log and the status, or nothing when another row still refers to   *)
(* the candidate.                                                          *)
Erase(w) ==
  LET c == dsar[handling[w].of].of
  IN  /\ handling[w].phase = "process"
      /\ dsar[handling[w].of].type = "ERASURE"
      /\ Exists(candidate[c]) => c \notin referred
      /\ Remove({c}, Owned(c))
      /\ SetStatus(w, "COMPLETED")
      /\ Handle(w, Idle)
      /\ UNCHANGED <<referred, skilled, ingestion, sweep>>

Deny(w) ==
  /\ handling[w].phase = "deny"
  /\ SetStatus(w, "DENIED")
  /\ Handle(w, Idle)
  /\ UNCHANGED <<candidate, resume, referred, skilled, ingestion, sweep>>

(* Refused, blocked by a key, or ended with the process.                   *)
FailHandling(w) ==
  /\ handling[w] # Idle
  /\ Handle(w, Idle)
  /\ UNCHANGED <<stored, ingestion, sweep>>

-----------------------------------------------------------------------------
(* run_retention_purge, once a day.                                        *)

OldResumes == {r \in Resumes : Exists(resume[r]) /\ resume[r].old}

(* Old resumes, and old candidates that are soft-deleted.                  *)
Select ==
  /\ sweep = Idle
  /\ sweep' = [phase |-> "delete", seen |-> [r \in OldResumes |-> resume[r]],
               candidates |-> {c \in Rows : candidate[c].deleted /\ candidate[c].old}]
  /\ UNCHANGED <<stored, ingestion, handling>>

(* A single row that is no more, or has moved, fails the delete; among     *)
(* several it is passed over.                                              *)
Deletable(found, present) == found \subseteq present \/ Cardinality(found) > 1

(* All of it in one commit: a candidate that another row refers to keeps   *)
(* every other row as well.                                                *)
Purge ==
  LET found == DOMAIN sweep.seen
      present == {r \in found : Unwritten(resume[r], sweep.seen[r])}
  IN  /\ sweep # Idle
      /\ Deletable(found, present)
      /\ Deletable(sweep.candidates, Rows)
      /\ \A c \in sweep.candidates \cap Rows :
           c \notin referred /\ Owned(c) \subseteq present
      /\ Remove(sweep.candidates, present)
      /\ sweep' = Idle
      /\ UNCHANGED <<referred, skilled, dsar, ingestion, handling>>

FailSweep ==
  /\ sweep # Idle
  /\ sweep' = Idle
  /\ UNCHANGED <<stored, ingestion, handling>>

-----------------------------------------------------------------------------
Next ==
  \/ \E c \in Candidates :
       \/ \E person \in People : AddCandidate(c, person)
       \/ SoftDelete(c)
       \/ Refer(c)
       \/ \E d \in Dsars, type \in {"ACCESS", "ERASURE"} : File(d, c, type)
  \/ Age
  \/ \E r \in Resumes :
       \/ \E owner \in Candidates \cup {NoOne} : Upload(r, owner)
       \/ Ask(r)
       \/ \E parsed \in Parsed : Answer(r, parsed)
       \/ \E c \in Candidates : CreateCandidate(r, c)
       \/ Apply(r)
       \/ ApplyPartly(r)
       \/ Complete(r)
       \/ FailIngestion(r)
  \/ \E w \in Workers :
       \/ \E d \in Dsars, phase \in {"process", "deny"} : ReadDsar(w, d, phase)
       \/ Access(w)
       \/ Erase(w)
       \/ Deny(w)
       \/ FailHandling(w)
  \/ Select
  \/ Purge
  \/ FailSweep

Spec == Init /\ [][Next]_dataVars

-----------------------------------------------------------------------------
(* Properties.                                                             *)

(* Where an erasure is recorded as completed there is no row of the        *)
(* candidate, no resume and no history: an ingestion or an upload that was *)
(* under way brings none back, and no part of an erasure is recorded.      *)
CompletedErasureIsDone ==
  \A d \in Dsars :
    Exists(dsar[d]) /\ dsar[d].type = "ERASURE" /\ dsar[d].status = "COMPLETED" =>
      /\ candidate[dsar[d].of] = Gone
      /\ Owned(dsar[d].of) = {}
      /\ dsar[d].of \notin referred

(* A resume that is COMPLETED and names someone has its owner, and the     *)
(* owner the history and the skills that the resume brought: the steps of  *)
(* an ingestion are two commits, and the status is in the last.            *)
CompletedIsApplied ==
  \A r \in Resumes :
    Exists(resume[r]) /\ resume[r].status = "COMPLETED" /\ resume[r].parsed.person # NoOne =>
      /\ resume[r].owner \in Rows
      /\ resume[r].parsed.jobs => resume[r].owner \in referred
      /\ resume[r].parsed.skills => resume[r].owner \in skilled

-----------------------------------------------------------------------------
(* Statements of the documentation that the code does not keep.            *)

(* Requirement 6.3: an erasure shall "hard-delete all personal data        *)
(* associated with that CandidateID"; rows of skills stay.                 *)
ErasureIsComplete ==
  \A d \in Dsars :
    Exists(dsar[d]) /\ dsar[d].type = "ERASURE" /\ dsar[d].status = "COMPLETED" =>
      dsar[d].of \notin skilled

(* The same, of a candidate with a history, a journey or an application:   *)
(* the erasure fails on the keys, every time.                              *)
ErasureIsPossible ==
  \A w \in Workers :
    /\ handling[w].phase = "process"
    /\ dsar[handling[w].of].type = "ERASURE"
    => dsar[handling[w].of].of \notin referred

(* deny_dsar denies what was carried out as well.                          *)
DeniedIsKept ==
  \A d \in Dsars :
    Exists(dsar[d]) /\ dsar[d].status = "DENIED" => candidate[dsar[d].of] # Gone

(* _apply_ingestion_results: "Associate resume with candidate if we have   *)
(* one": a new candidate never gets its resume.                            *)
CreatedIsLinked == \A r \in Resumes : ingestion[r].phase # "created"
=============================================================================
