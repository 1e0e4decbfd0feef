--------------------------- MODULE Questionnaires ---------------------------
(***************************************************************************)
(* Questionnaires, the candidates' responses to them and the candidates'   *)
(* portal tokens (app/modules/questionnaires, app/modules/portal).         *)
(*                                                                         *)
(* Each operation of the service is a transaction that reads first and     *)
(* writes last, and others commit in between.  Questionnaires and          *)
(* responses have a version: an UPDATE of a row that has moved since it    *)
(* was read fails.  Answers have none.  An UPDATE is sent only when some   *)
(* column is given a new value, updated_by being one of the columns.       *)
(***************************************************************************)
EXTENDS Integers, FiniteSets

CONSTANTS
  Candidates,
  Forms,         (* the questionnaires of the organization                  *)
  Requisitions,
  Questions,     (* the ids of the questions a form may have                *)
  Values,        (* what may be answered to a question                      *)
  NoAnswer,
  Users,         (* who may call: the updated_by of a row                   *)
  Nobody,        (* updated_by of a row that is not there                   *)
  Requests       (* requests that may be served at once                     *)

ASSUME QuestionnairesAssumption ==
  /\ NoAnswer \notin Values
  /\ Nobody \notin Users

VARIABLES
  form,          (* the required questions of each form that was created    *)
  link,          (* pairs of a requisition and a form                       *)
  response,      (* status and updated_by of each response row              *)
  answer,        (* the answers of each response                            *)
  tokens,        (* live portal tokens of each candidate                    *)
  request,       (* what each request is doing                              *)
  issued,        (* history: candidates that were ever issued a token       *)
  asked          (* history: the required questions a submission was held to *)

rows == <<form, link, response, answer, tokens>>

vars == <<rows, request, issued, asked>>

Responses == Candidates \X Forms

ResponseStatus == {"DRAFT", "INCOMPLETE", "SUBMITTED"}

Rows == [status: ResponseStatus, by: Users]

Absent == [status |-> "NONE", by |-> Nobody]

(* What matters of a well-formed list of questions is which are required.  *)
Contents == SUBSET Questions

(* The answers of one call.                                                *)
Given == UNION {[asks -> Values] : asks \in SUBSET Questions}

Idle == [phase |-> "idle"]

(* current: the row that was read has not moved since.                     *)
Working ==
  [phase: {"offer", "grant"}, user: Users, candidate: Candidates, missing: SUBSET Forms]
    \cup [phase: {"loaded"}, user: Users, of: Responses, seen: Rows, current: BOOLEAN]
    \cup [phase: {"judged"}, user: Users, of: Responses, seen: Rows, current: BOOLEAN,
          given: Given, final: BOOLEAN, known: SUBSET Questions, held: SUBSET Questions]
    \cup [phase: {"form"}, form: Forms, current: BOOLEAN]
    \cup [phase: {"portal"}, of: Responses]
    \cup [phase: {"link"}, requisition: Requisitions, form: Forms]

TypeOK ==
  /\ DOMAIN form \subseteq Forms
  /\ form \in [DOMAIN form -> Contents]
  /\ link \in SUBSET (Requisitions \X Forms)
  /\ response \in [Responses -> Rows \cup {Absent}]
  /\ answer \in [Responses -> [Questions -> Values \cup {NoAnswer}]]
  /\ tokens \in [Candidates -> Nat]
  /\ request \in [Requests -> {Idle} \cup Working]
  /\ issued \in SUBSET Candidates
  /\ asked \in [Responses -> SUBSET Questions]

Init ==
  /\ form = [f \in {} |-> {}]
  /\ link = {}
  /\ response = [x \in Responses |-> Absent]
  /\ answer = [x \in Responses |-> [q \in Questions |-> NoAnswer]]
  /\ tokens = [c \in Candidates |-> 0]
  /\ request = [r \in Requests |-> Idle]
  /\ issued = {}
  /\ asked = [x \in Responses |-> {}]

Become(r, work) == request' = [request EXCEPT ![r] = work]

-----------------------------------------------------------------------------
(* Questionnaires.                                                         *)

(* create_questionnaire, in one statement.                                 *)
CreateForm(f, asks) ==
  /\ f \notin DOMAIN form
  /\ form' = [g \in DOMAIN form \cup {f} |-> IF g = f THEN asks ELSE form[g]]
  /\ UNCHANGED <<link, response, answer, tokens, request, issued, asked>>

(* update_questionnaire reads the row ...                                  *)
ReadForm(r, f) ==
  /\ request[r] = Idle
  /\ f \in DOMAIN form
  /\ Become(r, [phase |-> "form", form |-> f, current |-> TRUE])
  /\ UNCHANGED <<rows, issued, asked>>

(* ... and writes it; a new title moves the row as new questions do.       *)
UpdateForm(r, asks) ==
  LET f == request[r].form
  IN  /\ request[r].phase = "form"
      /\ request[r].current
      /\ form' = [form EXCEPT ![f] = asks]
      /\ request' = [p \in Requests |->
           IF p = r THEN Idle
           ELSE IF request[p].phase = "form" /\ request[p].form = f
             THEN [request[p] EXCEPT !.current = FALSE]
             ELSE request[p]]
      /\ UNCHANGED <<link, response, answer, tokens, issued, asked>>

(* link_questionnaire_to_requisition: not twice, as far as it can see; the *)
(* constraint uk_req_questionnaire sees the rest.                          *)
ReadLink(r, j, f) ==
  /\ request[r] = Idle
  /\ f \in DOMAIN form
  /\ <<j, f>> \notin link
  /\ Become(r, [phase |-> "link", requisition |-> j, form |-> f])
  /\ UNCHANGED <<rows, issued, asked>>

Link(r) ==
  LET pair == <<request[r].requisition, request[r].form>>
  IN  /\ request[r].phase = "link"
      /\ pair \notin link
      /\ link' = link \cup {pair}
      /\ Become(r, Idle)
      /\ UNCHANGED <<form, response, answer, tokens, issued, asked>>

-----------------------------------------------------------------------------
(* auto_create_responses, for a candidate associated with a requisition.   *)

(* The linked forms the candidate has no response to.                      *)
Missing(c, j) ==
  {f \in Forms : <<j, f>> \in link /\ response[<<c, f>>] = Absent}

(* Without any there is nothing to create, and no token.                   *)
FindMissing(r, u, c, j) ==
  /\ request[r] = Idle
  /\ Missing(c, j) # {}
  /\ Become(r, [phase |-> "offer", user |-> u, candidate |-> c,
                missing |-> Missing(c, j)])
  /\ UNCHANGED <<rows, issued, asked>>

Drafts(r) ==
  [x \in Responses |->
     IF x[1] = request[r].candidate /\ x[2] \in request[r].missing
       THEN [status |-> "DRAFT", by |-> request[r].user]
       ELSE response[x]]

(* uk_candidate_questionnaire.                                             *)
StillMissing(r) ==
  \A f \in request[r].missing : response[<<request[r].candidate, f>>] = Absent

(* get_or_create_token looks for the live token.  One that it finds is of  *)
(* no use, its plain text is gone; of two it cannot tell which.            *)
FindToken(r) ==
  /\ request[r].phase = "offer"
  /\ tokens[request[r].candidate] <= 1
  /\ Become(r, [request[r] EXCEPT !.phase = "grant"])
  /\ UNCHANGED <<rows, issued, asked>>

(* The responses and a new token, in one commit.                           *)
Offer(r) ==
  LET c == request[r].candidate
  IN  /\ request[r].phase = "grant"
      /\ StillMissing(r)
      /\ response' = Drafts(r)
      /\ tokens' = [tokens EXCEPT ![c] = @ + 1]
      /\ issued' = issued \cup {c}
      /\ Become(r, Idle)
      /\ UNCHANGED <<form, link, answer, asked>>

(* A token comes to its expires_at; nothing else ends one.                 *)
Expire(c) ==
  /\ tokens[c] > 0
  /\ tokens' = [tokens EXCEPT ![c] = @ - 1]
  /\ UNCHANGED <<form, link, response, answer, request, issued, asked>>

-----------------------------------------------------------------------------
(* save_answers.                                                           *)

(* The response; a submitted one is refused.                               *)
Load(r, u, x) ==
  /\ request[r] = Idle
  /\ response[x].status \in {"DRAFT", "INCOMPLETE"}
  /\ Become(r, [phase |-> "loaded", user |-> u, of |-> x, seen |-> response[x],
                current |-> TRUE])
  /\ UNCHANGED <<rows, issued, asked>>

Answered(x) == {q \in Questions : answer[x][q] # NoAnswer}

Judged(r, given, final) ==
  LET w == request[r]
  IN  [phase |-> "judged", user |-> w.user, of |-> w.of, seen |-> w.seen,
       current |-> w.current, given |-> given, final |-> final,
       known |-> Answered(w.of), held |-> form[w.of[2]]]

JudgeSome(r, given, final) ==  (* mutation: one required question will do  *)
  LET asks == form[request[r].of[2]]
  IN  /\ request[r].phase = "loaded"
      /\ final => (asks = {} \/ asks \cap DOMAIN given # {})
      /\ Become(r, Judged(r, given, final))
      /\ UNCHANGED <<rows, issued, asked>>

(* The questionnaire: a submission must itself bring every required        *)
(* answer, whatever was saved before.  Then the answers that have a row.   *)
Judge(r, given, final) ==
  /\ request[r].phase = "loaded"
  /\ request[r].of[2] \in DOMAIN form
  /\ final => form[request[r].of[2]] \subseteq DOMAIN given
  /\ Become(r, Judged(r, given, final))
  /\ UNCHANGED <<rows, issued, asked>>

(* The row the response is to become.                                      *)
NewRow(w) ==
  [status |-> IF w.final THEN "SUBMITTED" ELSE "INCOMPLETE", by |-> w.user]

Answers(w) ==
  [q \in Questions |-> IF q \in DOMAIN w.given THEN w.given[q] ELSE answer[w.of][q]]

(* The row has moved for whoever else has read it.                         *)
Leave(r, moved) ==
  request' = [p \in Requests |->
    IF p = r THEN Idle
    ELSE IF /\ moved
            /\ request[p].phase \in {"loaded", "judged"}
            /\ request[p].of = request[r].of
      THEN [request[p] EXCEPT !.current = FALSE]
      ELSE request[p]]

SaveUnversioned(r) ==  (* mutation: the version is not compared             *)
  LET w == request[r]
  IN  /\ w.phase = "judged"
      /\ Answered(w.of) \cap DOMAIN w.given \subseteq w.known
      /\ response' = [response EXCEPT
           ![w.of] = [status |-> IF NewRow(w).status = w.seen.status
                                   THEN @.status ELSE NewRow(w).status,
                      by |-> w.user]]
      /\ answer' = [answer EXCEPT ![w.of] = Answers(w)]
      /\ asked' = IF w.final THEN [asked EXCEPT ![w.of] = w.held] ELSE asked
      /\ Leave(r, NewRow(w) # w.seen)
      /\ UNCHANGED <<form, link, tokens, issued>>

(* The flush and the commit.  The response is written, and its version     *)
(* compared, only when a column changes: a further draft of the same user  *)
(* changes none.  An answer without a row when they were looked for is     *)
(* inserted, under uk_response_question; the others are overwritten.       *)
Save(r) ==
  LET w == request[r]
      moved == NewRow(w) # w.seen
  IN  /\ w.phase = "judged"
      /\ moved => w.current
      /\ Answered(w.of) \cap DOMAIN w.given \subseteq w.known
      /\ response' = IF moved THEN [response EXCEPT ![w.of] = NewRow(w)] ELSE response
      /\ answer' = [answer EXCEPT ![w.of] = Answers(w)]
      /\ asked' = IF w.final THEN [asked EXCEPT ![w.of] = w.held] ELSE asked
      /\ Leave(r, moved)
      /\ UNCHANGED <<form, link, tokens, issued>>

(* validate_token.                                                         *)
HasToken(c) == tokens[c] > 0

(* The portal's own entry to it: a live token, a response that is not      *)
(* submitted, and a call that save_answers does not accept: an argument is *)
(* missing and one is unknown.  Such a request can only fail.              *)
PortalSave(r, x) ==
  /\ request[r] = Idle
  /\ HasToken(x[1])
  /\ response[x].status \in {"DRAFT", "INCOMPLETE"}
  /\ Become(r, [phase |-> "portal", of |-> x])
  /\ UNCHANGED <<rows, issued, asked>>

-----------------------------------------------------------------------------
(* A request that is refused, that finds its row moved or a key taken, or  *)
(* that ends with the process: its transaction is rolled back.             *)
Fail(r) ==
  /\ request[r] # Idle
  /\ Become(r, Idle)
  /\ UNCHANGED <<rows, issued, asked>>

Next ==
  \/ \E f \in Forms, asks \in Contents : CreateForm(f, asks)
  \/ \E r \in Requests :
       \/ \E f \in Forms : ReadForm(r, f)
       \/ \E asks \in Contents : UpdateForm(r, asks)
       \/ \E j \in Requisitions, f \in Forms : ReadLink(r, j, f)
       \/ Link(r)
       \/ \E u \in Users, c \in Candidates, j \in Requisitions : FindMissing(r, u, c, j)
       \/ FindToken(r)
       \/ Offer(r)
       \/ \E u \in Users, x \in Responses : Load(r, u, x)
       \/ \E x \in Responses : PortalSave(r, x)
       \/ \E given \in Given, final \in BOOLEAN : Judge(r, given, final)
       \/ Save(r)
       \/ Fail(r)
  \/ \E c \in Candidates : Expire(c)

Spec == Init /\ [][Next]_vars

-----------------------------------------------------------------------------
(* Properties.                                                             *)

(* A submission is final: no draft that was read before it, and no second  *)
(* submission, changes the row again, though nothing locks it between the  *)
(* check of its status and the write.  An answer that still changes is     *)
(* that of a draft begun before it by the user who had written the row     *)
(* last: the one write that changes no column of the response and so meets *)
(* no version.                                                             *)
OwnLateDraft(x) ==
  \E r \in Requests :
    /\ request[r].phase = "judged" /\ request[r].of = x /\ ~request[r].final
    /\ request[r].seen = [status |-> "INCOMPLETE", by |-> request[r].user]

SubmittedIsFinal ==
  [][\A x \in Responses :
       response[x].status = "SUBMITTED" =>
         /\ response'[x] = response[x]
         /\ answer'[x] # answer[x] => OwnLateDraft(x)]_<<response, answer>>

(* A submitted response answers every question that the form required when *)
(* the submission was judged, through whatever drafts are written over it. *)
SubmittedIsComplete ==
  \A x \in Responses : response[x].status = "SUBMITTED" => asked[x] \subseteq Answered(x)

(* Whoever has something to answer was issued a token to answer it with:   *)
(* the responses and the token are one transaction.                        *)
AskedHaveToken ==
  \A x \in Responses : response[x] # Absent => x[1] \in issued

-----------------------------------------------------------------------------
(* Statements of the documentation that the code does not keep.            *)

(* Requirement 17.9: once a response is submitted the server shall "not    *)
(* allow further modifications to that response".                          *)
SubmittedIsFrozen ==
  [][\A x \in Responses :
       response[x].status = "SUBMITTED" => answer'[x] = answer[x]]_answer

(* get_or_create_token: "Queries for existing active non-expired token ... *)
(* If found, returns it."                                                  *)
OneLiveToken == \A c \in Candidates : tokens[c] <= 1

(* auto_create_responses: "For each linked questionnaire, creates a        *)
(* CandidateQuestionnaireResponse ... if one doesn't already exist"; but   *)
(* with two live tokens the operation fails, until they expire.            *)
OfferIsPossible ==
  \A r \in Requests : request[r].phase = "offer" => tokens[request[r].candidate] <= 1
=============================================================================
