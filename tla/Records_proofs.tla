---------------------------- MODULE Records_proofs ----------------------------
(***************************************************************************)
(* Proofs about the five components of module Records, for any number of   *)
(* rows and requests.                                                      *)
(*                                                                         *)
(* Questionnaires: a request that has loaded a response has found it not   *)
(* submitted, and holds the row there is for as long as that has not       *)
(* moved.  So a write that changes a column of the row changes no          *)
(* submitted one; and a write that changes none is that of a draft.        *)
(*                                                                         *)
(* Availability: windows that are active and requests that have counted    *)
(* and not inserted yet are together fewer than the limit and the requests *)
(* at once; an interview that a cascade found has not been written unless  *)
(* the request knows it moved.                                             *)
(*                                                                         *)
(* Feedback: what was read, of a slot or of a feedback, is what is there   *)
(* for as long as it has not moved, and what is edited was a draft.        *)
(*                                                                         *)
(* CandidateData: whatever refers to a candidate refers to a row, so that  *)
(* nothing does once the row is gone, and a row that is gone never comes   *)
(* back; a resume is pending while its ingestion lasts, and what is to be  *)
(* completed has been brought to its owner.                                *)
(*                                                                         *)
(* Notifications: a delivery looks at the clock before its first attempt,  *)
(* so only its own back-offs make it late; and what an interview that is   *)
(* due has waited and what can still lie ahead of it never exceed the      *)
(* longest wait together, since a minute that passes is taken from what    *)
(* lies ahead.                                                             *)
(***************************************************************************)
EXTENDS Records, FiniteSetTheorems, TLAPS

-----------------------------------------------------------------------------
(* Questionnaires.  What a request at work holds, told by its phase.       *)
LEMMA WorkShape ==
  ASSUME TypeOK, NEW r \in Requests
  PROVE  /\ request[r].phase \in {"offer", "grant"} =>
              request[r] \in [phase: {"offer", "grant"}, user: Users,
                              candidate: Candidates, missing: SUBSET Forms]
         /\ request[r].phase = "loaded" =>
              request[r] \in [phase: {"loaded"}, user: Users, of: Responses,
                              seen: Rows, current: BOOLEAN]
         /\ request[r].phase = "judged" =>
              request[r] \in [phase: {"judged"}, user: Users, of: Responses,
                              seen: Rows, current: BOOLEAN, given: Given,
                              final: BOOLEAN, known: SUBSET Questions,
                              held: SUBSET Questions]
         /\ request[r].phase = "form" =>
              request[r] \in [phase: {"form"}, form: Forms, current: BOOLEAN]
         /\ request[r].phase = "link" =>
              request[r] \in [phase: {"link"}, requisition: Requisitions, form: Forms]
<1>1. request[r] \in {Idle} \cup Working
  BY DEF TypeOK
<1> QED
  BY <1>1 DEF Working, Idle

(* A row that is there is none that is absent.                             *)
LEMMA RowsArePresent == Absent \notin Rows
BY QuestionnairesAssumption DEF Absent, Rows, ResponseStatus

Holds(r) == request[r].phase \in {"loaded", "judged"}

(* What a request has loaded was not submitted, is there, and is the row   *)
(* as it is unless that has moved.                                         *)
SeenInv ==
  \A r \in Requests : Holds(r) =>
    /\ request[r].seen.status # "SUBMITTED"
    /\ response[request[r].of] # Absent
    /\ request[r].current => request[r].seen = response[request[r].of]

(* What a submission is held to, it brings.                                *)
JudgedInv ==
  \A r \in Requests :
    request[r].phase = "judged" /\ request[r].final =>
      request[r].held \subseteq DOMAIN request[r].given

IInv == TypeOK /\ SeenInv /\ JudgedInv /\ AskedHaveToken /\ SubmittedIsComplete

-----------------------------------------------------------------------------
(* The responses of an offer replace none.                                 *)
LEMMA DraftsReplaceNone ==
  ASSUME TypeOK, NEW r \in Requests, request[r].phase = "grant", StillMissing(r),
         NEW x \in Responses
  PROVE  /\ Drafts(r)[x] \in Rows \cup {Absent}
         /\ response[x] # Absent => Drafts(r)[x] = response[x]
         /\ Drafts(r)[x].status = "SUBMITTED" => Drafts(r)[x] = response[x]
         /\ Drafts(r)[x] # response[x] => x[1] = request[r].candidate
<1>1. request[r].user \in Users
  BY WorkShape
<1>2. x = <<x[1], x[2]>>
  BY DEF Responses
<1>3. response[x] \in Rows \cup {Absent}
  BY DEF TypeOK
<1>4. CASE x[1] = request[r].candidate /\ x[2] \in request[r].missing
  <2>1. response[x] = Absent
    BY <1>2, <1>4 DEF StillMissing
  <2>2. Drafts(r)[x] = [status |-> "DRAFT", by |-> request[r].user]
    BY <1>4 DEF Drafts
  <2> QED
    BY <1>1, <1>4, <2>1, <2>2 DEF Rows, ResponseStatus
<1>5. CASE ~ (x[1] = request[r].candidate /\ x[2] \in request[r].missing)
  BY <1>3, <1>5 DEF Drafts
<1> QED
  BY <1>4, <1>5

(* Answers are added and replaced, never taken back.                       *)
LEMMA AnswersGrow ==
  ASSUME TypeOK, NEW r \in Requests, request[r].phase = "judged",
         answer' = [answer EXCEPT ![request[r].of] = Answers(request[r])]
  PROVE  /\ answer' \in [Responses -> [Questions -> Values \cup {NoAnswer}]]
         /\ \A x \in Responses : Answered(x) \subseteq Answered(x)'
         /\ \A x \in Responses : x = request[r].of =>
              DOMAIN request[r].given \subseteq Answered(x)'
<1> DEFINE w == request[r]
<1>1. w.of \in Responses /\ w.given \in Given
  BY WorkShape
<1>2. PICK asks \in SUBSET Questions : w.given \in [asks -> Values]
  BY <1>1 DEF Given
<1>3. answer \in [Responses -> [Questions -> Values \cup {NoAnswer}]]
  BY DEF TypeOK
<1>4. ASSUME NEW q \in Questions
      PROVE  /\ Answers(w)[q] \in Values \cup {NoAnswer}
             /\ q \in DOMAIN w.given => Answers(w)[q] \in Values
             /\ answer[w.of][q] # NoAnswer => Answers(w)[q] # NoAnswer
  <2>1. Answers(w)[q] = IF q \in DOMAIN w.given THEN w.given[q] ELSE answer[w.of][q]
    BY DEF Answers
  <2>2. q \in DOMAIN w.given => w.given[q] \in Values
    BY <1>2
  <2>3. answer[w.of][q] \in Values \cup {NoAnswer}
    BY <1>1, <1>3
  <2> QED
    BY <2>1, <2>2, <2>3, QuestionnairesAssumption
<1>5. Answers(w) \in [Questions -> Values \cup {NoAnswer}]
  <2>1. Answers(w) = [q \in Questions |-> Answers(w)[q]]
    BY DEF Answers
  <2> QED
    BY <1>4, <2>1
<1>6. answer' \in [Responses -> [Questions -> Values \cup {NoAnswer}]]
  BY <1>1, <1>3, <1>5
<1>7. \A x \in Responses : answer'[x] = IF x = w.of THEN Answers(w) ELSE answer[x]
  BY <1>3
<1>8. ASSUME NEW x \in Responses, NEW q \in Questions, answer[x][q] # NoAnswer
      PROVE  answer'[x][q] # NoAnswer
  BY <1>4, <1>7, <1>8
<1>9. DOMAIN w.given \subseteq Questions
  BY <1>2
<1>10. ASSUME NEW q \in DOMAIN w.given
       PROVE  answer'[w.of][q] # NoAnswer
  BY <1>1, <1>4, <1>7, <1>9, QuestionnairesAssumption
<1>11. \A x \in Responses : Answered(x)' = {q \in Questions : answer'[x][q] # NoAnswer}
  BY DEF Answered
<1>12. \A x \in Responses : Answered(x) \subseteq Answered(x)'
  BY <1>8, <1>11 DEF Answered
<1>13. \A x \in Responses : x = w.of => DOMAIN w.given \subseteq Answered(x)'
  BY <1>1, <1>9, <1>10, <1>11
<1> QED
  BY <1>6, <1>12, <1>13

-----------------------------------------------------------------------------
(* The write of a response.                                                *)
LEMMA SaveKeeps ==
  ASSUME IInv, NEW r \in Requests, Save(r)
  PROVE  IInv'
<1> DEFINE w == request[r]
           moved == NewRow(w) # w.seen
<1>1. /\ w \in [phase: {"judged"}, user: Users, of: Responses, seen: Rows,
                current: BOOLEAN, given: Given, final: BOOLEAN,
                known: SUBSET Questions, held: SUBSET Questions]
      /\ w.phase = "judged"
  BY WorkShape DEF Save, IInv
<1>2. NewRow(w) \in Rows
  BY <1>1 DEF NewRow, Rows, ResponseStatus
<1>3. /\ response \in [Responses -> Rows \cup {Absent}]
      /\ asked \in [Responses -> SUBSET Questions]
      /\ request \in [Requests -> {Idle} \cup Working]
  BY DEF IInv, TypeOK
<1>4. \A x \in Responses :
        response'[x] = IF moved /\ x = w.of THEN NewRow(w) ELSE response[x]
  BY <1>3 DEF Save
<1>5. \A x \in Responses :
        asked'[x] = IF w.final /\ x = w.of THEN w.held ELSE asked[x]
  BY <1>3 DEF Save
<1>6. ASSUME NEW p \in Requests
      PROVE  /\ request'[p] \in {Idle} \cup Working
             /\ request'[p].phase \in {"loaded", "judged"} =>
                  /\ p # r
                  /\ request[p].phase = request'[p].phase
                  /\ request'[p].of = request[p].of
                  /\ request'[p].seen = request[p].seen
                  /\ request'[p].current =>
                       request[p].current /\ ~ (moved /\ request[p].of = w.of)
             /\ request'[p].phase = "judged" =>
                  /\ request'[p].final = request[p].final
                  /\ request'[p].held = request[p].held
                  /\ request'[p].given = request[p].given
  <2>1. CASE p = r
    BY <2>1 DEF Save, Leave, Idle
  <2>2. CASE p # r /\ moved /\ Holds(p) /\ request[p].of = w.of
    <3>1. request'[p] = [request[p] EXCEPT !.current = FALSE]
      BY <2>2 DEF Save, Leave, Holds
    <3>2. CASE request[p].phase = "loaded"
      <4>1. request[p] \in [phase: {"loaded"}, user: Users, of: Responses,
                            seen: Rows, current: BOOLEAN]
        BY <3>2, WorkShape DEF IInv
      <4>2. request'[p] \in [phase: {"loaded"}, user: Users, of: Responses,
                             seen: Rows, current: BOOLEAN]
        BY <3>1, <4>1
      <4> QED
        BY <2>2, <3>1, <4>1, <4>2 DEF Working
    <3>3. CASE request[p].phase = "judged"
      <4>1. request[p] \in [phase: {"judged"}, user: Users, of: Responses,
                            seen: Rows, current: BOOLEAN, given: Given,
                            final: BOOLEAN, known: SUBSET Questions,
                            held: SUBSET Questions]
        BY <3>3, WorkShape DEF IInv
      <4>2. request'[p] \in [phase: {"judged"}, user: Users, of: Responses,
                             seen: Rows, current: BOOLEAN, given: Given,
                             final: BOOLEAN, known: SUBSET Questions,
                             held: SUBSET Questions]
        BY <3>1, <4>1
      <4> QED
        BY <2>2, <3>1, <4>1, <4>2 DEF Working
    <3> QED
      BY <2>2, <3>2, <3>3 DEF Holds
  <2>3. CASE p # r /\ ~ (moved /\ Holds(p) /\ request[p].of = w.of)
    <3>1. request'[p] = request[p]
      BY <2>3 DEF Save, Leave, Holds
    <3>2. request[p] \in {Idle} \cup Working
      BY <1>3
    <3> QED
      BY <2>3, <3>1, <3>2 DEF Holds
  <2> QED
    BY <2>1, <2>2, <2>3
<1>7. answer' = [answer EXCEPT ![request[r].of] = Answers(request[r])]
  BY DEF Save
<1>8. /\ answer' \in [Responses -> [Questions -> Values \cup {NoAnswer}]]
      /\ \A x \in Responses : Answered(x) \subseteq Answered(x)'
      /\ \A x \in Responses : x = w.of => DOMAIN w.given \subseteq Answered(x)'
  BY <1>1, <1>7, AnswersGrow DEF IInv
<1>9. TypeOK'
  <2>1. request' \in [Requests -> {Idle} \cup Working]
    BY <1>6 DEF Save, Leave
  <2>2. response' \in [Responses -> Rows \cup {Absent}]
    BY <1>1, <1>2, <1>3 DEF Save
  <2>3. asked' \in [Responses -> SUBSET Questions]
    BY <1>1, <1>3 DEF Save
  <2>4. UNCHANGED <<form, link, tokens, issued>>
    BY DEF Save
  <2> QED
    BY <1>8, <2>1, <2>2, <2>3, <2>4 DEF IInv, TypeOK
<1>10. SeenInv'
  <2> SUFFICES ASSUME NEW p \in Requests, Holds(p)'
               PROVE  /\ request'[p].seen.status # "SUBMITTED"
                      /\ response'[request'[p].of] # Absent
                      /\ request'[p].current =>
                           request'[p].seen = response'[request'[p].of]
    BY DEF SeenInv, Holds
  <2>1. /\ Holds(p)
        /\ request'[p].of = request[p].of
        /\ request'[p].seen = request[p].seen
        /\ request'[p].current => request[p].current /\ ~ (moved /\ request[p].of = w.of)
    BY <1>6 DEF Holds
  <2>2. request[p].of \in Responses
    BY <2>1, WorkShape DEF IInv, Holds
  <2>3. /\ request[p].seen.status # "SUBMITTED"
        /\ response[request[p].of] # Absent
        /\ request[p].current => request[p].seen = response[request[p].of]
    BY <2>1 DEF IInv, SeenInv
  <2> QED
    BY <1>2, <1>4, <2>1, <2>2, <2>3, RowsArePresent
<1>11. JudgedInv'
  BY <1>6 DEF IInv, JudgedInv
<1>12. AskedHaveToken'
  <2>1. response[w.of] # Absent
    BY <1>1 DEF IInv, SeenInv, Holds
  <2> QED
    BY <1>4, <2>1 DEF IInv, AskedHaveToken, Save
<1>13. SubmittedIsComplete'
  <2> SUFFICES ASSUME NEW x \in Responses, response'[x].status = "SUBMITTED"
               PROVE  asked'[x] \subseteq Answered(x)'
    BY DEF SubmittedIsComplete
  <2>1. CASE x = w.of /\ w.final
    BY <1>1, <1>5, <1>8, <2>1 DEF IInv, JudgedInv
  <2>2. CASE ~ (x = w.of /\ w.final)
    <3>1. response'[x] = response[x]
      BY <1>4, <2>2 DEF NewRow
    <3> QED
      BY <1>5, <1>8, <2>2, <3>1 DEF IInv, SubmittedIsComplete
  <2> QED
    BY <2>1, <2>2
<1> QED
  BY <1>9, <1>10, <1>11, <1>12, <1>13 DEF IInv

-----------------------------------------------------------------------------
(* A request that reads on.                                                *)
LEMMA BecomeKeeps ==
  ASSUME IInv, NEW r \in Requests, NEW work \in {Idle} \cup Working, Become(r, work),
         UNCHANGED <<response, answer, tokens, issued, asked>>,
         form' = form, link' = link,
         work.phase \in {"loaded", "judged"} =>
           /\ work.seen.status # "SUBMITTED"
           /\ response[work.of] # Absent
           /\ work.current => work.seen = response[work.of],
         work.phase = "judged" /\ work.final => work.held \subseteq DOMAIN work.given
  PROVE  IInv'
<1>1. \A p \in Requests : request'[p] = IF p = r THEN work ELSE request[p]
  BY DEF Become, IInv, TypeOK
<1>2. TypeOK'
  BY DEF Become, IInv, TypeOK
<1>3. SeenInv'
  BY <1>1 DEF IInv, SeenInv, Holds
<1>4. JudgedInv'
  BY <1>1 DEF IInv, JudgedInv
<1>5. AskedHaveToken' /\ SubmittedIsComplete'
  BY DEF IInv, AskedHaveToken, SubmittedIsComplete, Answered
<1> QED
  BY <1>2, <1>3, <1>4, <1>5 DEF IInv

(* Nothing that concerns a response.                                       *)
LEMMA ApartKeeps ==
  ASSUME IInv, UNCHANGED <<response, answer, issued, asked>>, TypeOK',
         \A p \in Requests : Holds(p) \/ Holds(p)' => request'[p] = request[p]
  PROVE  IInv'
<1>1. SeenInv'
  BY DEF IInv, SeenInv, Holds
<1>2. JudgedInv'
  BY DEF IInv, JudgedInv, Holds
<1>3. AskedHaveToken' /\ SubmittedIsComplete'
  BY DEF IInv, AskedHaveToken, SubmittedIsComplete, Answered
<1> QED
  BY <1>1, <1>2, <1>3 DEF IInv

LEMMA FormKeeps ==
  ASSUME IInv,
         \/ \E f \in Forms, asks \in Contents : CreateForm(f, asks)
         \/ \E r \in Requests, asks \in Contents : UpdateForm(r, asks)
  PROVE  IInv'
<1>1. /\ DOMAIN form \subseteq Forms
      /\ form \in [DOMAIN form -> Contents]
      /\ request \in [Requests -> {Idle} \cup Working]
  BY DEF IInv, TypeOK
<1>2. ASSUME NEW f \in Forms, NEW asks \in Contents, CreateForm(f, asks)
      PROVE  IInv'
  <2>1. /\ DOMAIN form' \subseteq Forms
        /\ form' \in [DOMAIN form' -> Contents]
    BY <1>1, <1>2 DEF CreateForm
  <2>2. TypeOK'
    BY <1>2, <2>1 DEF CreateForm, IInv, TypeOK
  <2> QED
    BY <1>2, <2>2, ApartKeeps DEF CreateForm
<1>3. ASSUME NEW r \in Requests, NEW asks \in Contents, UpdateForm(r, asks)
      PROVE  IInv'
  <2>1. /\ DOMAIN form' \subseteq Forms
        /\ form' \in [DOMAIN form' -> Contents]
    BY <1>1, <1>3 DEF UpdateForm
  <2>2. ASSUME NEW p \in Requests
        PROVE  /\ request'[p] \in {Idle} \cup Working
               /\ Holds(p) \/ Holds(p)' => request'[p] = request[p]
    <3>1. CASE p = r
      BY <1>3, <3>1 DEF UpdateForm, Idle, Holds
    <3>2. CASE p # r /\ request[p].phase = "form" /\ request[p].form = request[r].form
      <4>1. request[p] \in [phase: {"form"}, form: Forms, current: BOOLEAN]
        BY <3>2, WorkShape DEF IInv
      <4>2. request'[p] = [request[p] EXCEPT !.current = FALSE]
        BY <1>3, <3>2 DEF UpdateForm
      <4>3. /\ request'[p] \in [phase: {"form"}, form: Forms, current: BOOLEAN]
            /\ request'[p].phase = "form"
        BY <4>1, <4>2
      <4> QED
        BY <3>2, <4>3 DEF Working, Holds
    <3>3. CASE p # r /\ ~ (request[p].phase = "form" /\ request[p].form = request[r].form)
      BY <1>1, <1>3, <3>3 DEF UpdateForm
    <3> QED
      BY <3>1, <3>2, <3>3
  <2>3. TypeOK'
    <3>1. request' \in [Requests -> {Idle} \cup Working]
      BY <1>3, <2>2 DEF UpdateForm
    <3> QED
      BY <1>3, <2>1, <3>1 DEF UpdateForm, IInv, TypeOK
  <2> QED
    BY <1>3, <2>2, <2>3, ApartKeeps DEF UpdateForm
<1> QED
  BY <1>2, <1>3

(* What an offer of forms and a token writes.                              *)
LEMMA OfferKeeps ==
  ASSUME IInv, NEW r \in Requests, Offer(r)
  PROVE  IInv'
<1>1. /\ request[r].phase = "grant"
      /\ StillMissing(r)
      /\ response' = Drafts(r)
      /\ request[r].candidate \in Candidates
  BY WorkShape DEF Offer, IInv
<1>2. \A x \in Responses :
        /\ response'[x] \in Rows \cup {Absent}
        /\ response[x] # Absent => response'[x] = response[x]
        /\ response'[x].status = "SUBMITTED" => response'[x] = response[x]
        /\ response'[x] # response[x] => x[1] = request[r].candidate
  BY <1>1, DraftsReplaceNone DEF IInv
<1>3. \A p \in Requests : request'[p] = IF p = r THEN Idle ELSE request[p]
  BY DEF Offer, Become, IInv, TypeOK
<1>4. TypeOK'
  <2>1. response' \in [Responses -> Rows \cup {Absent}]
    BY <1>1, <1>2 DEF Drafts
  <2>2. tokens' \in [Candidates -> Nat] /\ issued' \in SUBSET Candidates
    BY <1>1 DEF Offer, IInv, TypeOK
  <2>3. request' \in [Requests -> {Idle} \cup Working]
    BY DEF Offer, Become, IInv, TypeOK
  <2>4. UNCHANGED <<form, link, answer, asked>>
    BY DEF Offer
  <2> QED
    BY <2>1, <2>2, <2>3, <2>4 DEF IInv, TypeOK
<1>5. SeenInv'
  <2> SUFFICES ASSUME NEW p \in Requests, Holds(p)'
               PROVE  /\ request'[p].seen.status # "SUBMITTED"
                      /\ response'[request'[p].of] # Absent
                      /\ request'[p].current =>
                           request'[p].seen = response'[request'[p].of]
    BY DEF SeenInv, Holds
  <2>1. Holds(p) /\ request'[p] = request[p]
    BY <1>3 DEF Holds, Idle
  <2>2. request[p].of \in Responses
    BY <2>1, WorkShape DEF IInv, Holds
  <2> QED
    BY <1>2, <2>1, <2>2 DEF IInv, SeenInv
<1>6. JudgedInv'
  BY <1>3 DEF IInv, JudgedInv, Idle
<1>7. AskedHaveToken'
  BY <1>2 DEF Offer, IInv, AskedHaveToken
<1>8. SubmittedIsComplete'
  BY <1>2 DEF Offer, IInv, SubmittedIsComplete, Answered
<1> QED
  BY <1>4, <1>5, <1>6, <1>7, <1>8 DEF IInv

(* The reads, and the writes that concern no response.                     *)
LEMMA ReadKeeps ==
  ASSUME IInv, NEW r \in Requests,
         \/ \E f \in Forms : ReadForm(r, f)
         \/ \E j \in Requisitions, f \in Forms : ReadLink(r, j, f)
         \/ \E u \in Users, c \in Candidates, j \in Requisitions : FindMissing(r, u, c, j)
         \/ FindToken(r)
         \/ \E x \in Responses : PortalSave(r, x)
         \/ Fail(r)
  PROVE  IInv'
<1>1. ASSUME NEW f \in Forms, ReadForm(r, f)
      PROVE  IInv'
  <2>1. [phase |-> "form", form |-> f, current |-> TRUE] \in Working
    BY DEF Working
  <2> QED
    BY <1>1, <2>1, BecomeKeeps DEF ReadForm, rows
<1>2. ASSUME NEW j \in Requisitions, NEW f \in Forms, ReadLink(r, j, f)
      PROVE  IInv'
  <2>1. [phase |-> "link", requisition |-> j, form |-> f] \in Working
    BY DEF Working
  <2> QED
    BY <1>2, <2>1, BecomeKeeps DEF ReadLink, rows
<1>3. ASSUME NEW u \in Users, NEW c \in Candidates, NEW j \in Requisitions,
             FindMissing(r, u, c, j)
      PROVE  IInv'
  <2> DEFINE work == [phase |-> "offer", user |-> u, candidate |-> c,
                      missing |-> Missing(c, j)]
  <2>1. work \in Working
    BY DEF Working, Missing
  <2>2. Become(r, work)
    BY <1>3 DEF FindMissing
  <2> QED
    BY <1>3, <2>1, <2>2, BecomeKeeps DEF FindMissing, rows
<1>4. ASSUME FindToken(r)
      PROVE  IInv'
  <2>1. request[r] \in [phase: {"offer", "grant"}, user: Users,
                        candidate: Candidates, missing: SUBSET Forms]
    BY <1>4, WorkShape DEF FindToken, IInv
  <2>2. /\ [request[r] EXCEPT !.phase = "grant"] \in Working
        /\ [request[r] EXCEPT !.phase = "grant"].phase = "grant"
    BY <2>1 DEF Working
  <2> QED
    BY <1>4, <2>2, BecomeKeeps DEF FindToken, rows
<1>5. ASSUME NEW x \in Responses, PortalSave(r, x)
      PROVE  IInv'
  <2>1. [phase |-> "portal", of |-> x] \in Working
    BY DEF Working
  <2> QED
    BY <1>5, <2>1, BecomeKeeps DEF PortalSave, rows
<1>6. ASSUME Fail(r)
      PROVE  IInv'
  BY <1>6, BecomeKeeps DEF Fail, rows, Idle
<1> QED
  BY <1>1, <1>2, <1>3, <1>4, <1>5, <1>6

LEMMA LoadKeeps ==
  ASSUME IInv, NEW r \in Requests, NEW u \in Users, NEW x \in Responses, Load(r, u, x)
  PROVE  IInv'
<1> DEFINE work == [phase |-> "loaded", user |-> u, of |-> x, seen |-> response[x],
                    current |-> TRUE]
<1>1. response[x] # Absent /\ response[x] \in Rows
  BY DEF Load, Absent, IInv, TypeOK
<1>2. work \in Working
  BY <1>1 DEF Working
<1>3. Become(r, work)
  BY DEF Load
<1> QED
  BY <1>1, <1>2, <1>3, BecomeKeeps DEF Load, rows

LEMMA JudgeKeeps ==
  ASSUME IInv, NEW r \in Requests, NEW given \in Given, NEW final \in BOOLEAN,
         Judge(r, given, final)
  PROVE  IInv'
<1> DEFINE work == Judged(r, given, final)
<1>1. request[r] \in [phase: {"loaded"}, user: Users, of: Responses, seen: Rows,
                      current: BOOLEAN]
  BY WorkShape DEF Judge, IInv
<1>2. form[request[r].of[2]] \in SUBSET Questions
  BY DEF Judge, IInv, TypeOK, Contents
<1>3. Answered(request[r].of) \in SUBSET Questions
  BY DEF Answered
<1>4. /\ work.phase = "judged"
      /\ work.of = request[r].of
      /\ work.seen = request[r].seen
      /\ work.current = request[r].current
      /\ work.final = final
      /\ work.given = given
      /\ work.held = form[request[r].of[2]]
  BY DEF Judged
<1>5. work \in Working
  BY <1>1, <1>2, <1>3 DEF Judged, Working
<1>6. /\ work.seen.status # "SUBMITTED"
      /\ response[work.of] # Absent
      /\ work.current => work.seen = response[work.of]
  BY <1>4 DEF Judge, IInv, SeenInv, Holds
<1>7. work.final => work.held \subseteq DOMAIN work.given
  BY <1>4 DEF Judge
<1>8. Become(r, work)
  BY DEF Judge
<1> HIDE DEF work
<1> QED
  BY <1>5, <1>6, <1>7, <1>8, BecomeKeeps DEF Judge, rows

LEMMA LinkKeeps ==
  ASSUME IInv, NEW r \in Requests, Link(r)
  PROVE  IInv'
<1>1. request[r] \in [phase: {"link"}, requisition: Requisitions, form: Forms]
  BY WorkShape DEF Link, IInv
<1>2. TypeOK'
  BY <1>1 DEF Link, Become, IInv, TypeOK
<1>3. \A p \in Requests : Holds(p) \/ Holds(p)' => request'[p] = request[p]
  BY <1>1 DEF Link, Become, Holds, Idle, IInv, TypeOK
<1> QED
  BY <1>2, <1>3, ApartKeeps DEF Link

LEMMA ExpireKeeps ==
  ASSUME IInv, NEW c \in Candidates, Expire(c)
  PROVE  IInv'
<1>1. TypeOK'
  BY DEF Expire, IInv, TypeOK
<1> QED
  BY <1>1, ApartKeeps DEF Expire, Holds

(* The invariant is inductive.                                             *)
LEMMA Inductive == Spec => []IInv
<1>1. Init => IInv
  <2> SUFFICES ASSUME Init
               PROVE  IInv
    OBVIOUS
  <2>1. TypeOK
    BY DEF Init, TypeOK, Contents
  <2> QED
    BY <2>1, RowsArePresent DEF Init, IInv, SeenInv, Holds, JudgedInv, Idle,
       AskedHaveToken, SubmittedIsComplete, Absent
<1>2. IInv /\ [Next]_vars => IInv'
  <2> SUFFICES ASSUME IInv, [Next]_vars
               PROVE  IInv'
    OBVIOUS
  <2>1. CASE Next
    BY <2>1, FormKeeps, ReadKeeps, LinkKeeps, OfferKeeps, LoadKeeps, JudgeKeeps,
       SaveKeeps, ExpireKeeps DEF Next
  <2>2. CASE UNCHANGED vars
    BY <2>2 DEF vars, rows, IInv, TypeOK, SeenInv, Holds, JudgedInv,
       AskedHaveToken, SubmittedIsComplete, Answered
  <2> QED
    BY <2>1, <2>2
<1> QED
  BY <1>1, <1>2, PTL DEF Spec

-----------------------------------------------------------------------------
(* Every state is well typed.                                              *)
THEOREM TypeCorrect == Spec => []TypeOK
<1>1. IInv => TypeOK
  BY DEF IInv
<1> QED
  BY <1>1, Inductive, PTL

(* A submitted response answers every question it was held to, however     *)
(* many requests save it at once (save_answers).                           *)
THEOREM CompleteCorrect == Spec => []SubmittedIsComplete
<1>1. IInv => SubmittedIsComplete
  BY DEF IInv
<1> QED
  BY <1>1, Inductive, PTL

(* Whoever has a response to fill in was issued a portal token             *)
(* (auto_create_responses, get_or_create_token).                           *)
THEOREM TokenCorrect == Spec => []AskedHaveToken
<1>1. IInv => AskedHaveToken
  BY DEF IInv
<1> QED
  BY <1>1, Inductive, PTL

(* The write of a response changes no submitted one, and its answers only  *)
(* as the late draft of the user who had written the row last.             *)
LEMMA SaveIsFinal ==
  ASSUME IInv, NEW r \in Requests, Save(r), NEW x \in Responses,
         response[x].status = "SUBMITTED"
  PROVE  /\ response'[x] = response[x]
         /\ answer'[x] # answer[x] => OwnLateDraft(x)
<1> DEFINE w == request[r]
           moved == NewRow(w) # w.seen
<1>1. w.phase = "judged" /\ w.of \in Responses /\ w.final \in BOOLEAN
  BY WorkShape DEF Save, IInv
<1>2. w.seen.status # "SUBMITTED" /\ (w.current => w.seen = response[w.of])
  BY <1>1 DEF IInv, SeenInv, Holds
<1>3. CASE x # w.of
  BY <1>1, <1>3 DEF Save, IInv, TypeOK
<1>4. CASE x = w.of
  <2>1. ~moved
    BY <1>2, <1>4 DEF Save
  <2>2. response'[x] = response[x]
    BY <2>1 DEF Save
  <2>3. ~w.final /\ w.seen = [status |-> "INCOMPLETE", by |-> w.user]
    BY <1>1, <1>2, <2>1 DEF NewRow
  <2> QED
    BY <1>1, <1>4, <2>2, <2>3 DEF OwnLateDraft
<1> QED
  BY <1>3, <1>4

(* A submission is final but for that (save_answers, VersionMixin).        *)
THEOREM FinalCorrect == Spec => SubmittedIsFinal
<1> DEFINE Final == \A x \in Responses :
                      response[x].status = "SUBMITTED" =>
                        /\ response'[x] = response[x]
                        /\ answer'[x] # answer[x] => OwnLateDraft(x)
<1>1. IInv /\ [Next]_vars => [Final]_<<response, answer>>
  <2> SUFFICES ASSUME IInv, [Next]_vars, ~ UNCHANGED <<response, answer>>
               PROVE  Final
    OBVIOUS
  <2>1. ASSUME NEW r \in Requests, Save(r)
        PROVE  Final
    BY <2>1, SaveIsFinal
  <2>2. ASSUME NEW r \in Requests, Offer(r)
        PROVE  Final
    <3>1. \A x \in Responses : response[x] # Absent => response'[x] = response[x]
      BY <2>2, DraftsReplaceNone DEF Offer, IInv
    <3> QED
      BY <2>2, <3>1 DEF Offer, Absent
  <2>3. \E r \in Requests : Save(r) \/ Offer(r)
    BY DEF Next, vars, rows, CreateForm, ReadForm, UpdateForm, ReadLink, Link,
       FindMissing, FindToken, Load, PortalSave, Judge, Fail, Expire
  <2> QED
    BY <2>1, <2>2, <2>3
<1> QED
  BY <1>1, Inductive, PTL DEF Spec, SubmittedIsFinal

-----------------------------------------------------------------------------
(* Availability.  A window that was read is there; the interviews a        *)
(* cancellation has found are scheduled unless one of them has moved.      *)
CancelInv ==
  \A r \in Callers :
    /\ booking[r].phase \in {"cancel", "cascade"} =>
         window[booking[r].window] \in A!WindowRows
    /\ booking[r].phase = "cascade" /\ ~ booking[r].moved =>
         \A i \in booking[r].found : interview[i] = "SCHEDULED"

AvailabilityInv == A!AvailabilityTypeOK /\ CancelInv

LEMMA BookingShape ==
  ASSUME A!AvailabilityTypeOK, NEW r \in Callers
  PROVE  /\ booking[r].phase = "counted" => booking[r].owner \in Candidates
         /\ booking[r].phase = "cancel" => booking[r].window \in Windows
         /\ booking[r].phase = "cascade" =>
              /\ booking[r] \in [phase: {"cascade"}, window: Windows,
                                 found: SUBSET Interviews, moved: BOOLEAN]
              /\ booking[r].window \in Windows
  BY DEF A!AvailabilityTypeOK, A!Bookings, A!Ready

LEMMA AvailabilityStep ==
  AvailabilityInv /\ [A!Next]_availabilityVars => AvailabilityInv'
<1> SUFFICES ASSUME AvailabilityInv, [A!Next]_availabilityVars
             PROVE  AvailabilityInv'
  OBVIOUS
<1>0. A!NoWindow \notin A!WindowRows /\ A!Ready.phase = "ready"
  BY DEF A!NoWindow, A!WindowRows, A!Ready
(* A request that begins or ends, and rows that stay.                      *)
<1>1. ASSUME NEW r \in Callers, NEW next \in A!Bookings,
             booking' = [booking EXCEPT ![r] = next],
             next.phase \in {"cancel", "cascade"} => window[next.window] \in A!WindowRows,
             next.phase = "cascade" => \A i \in next.found : interview[i] = "SCHEDULED",
             UNCHANGED <<window, interview>>
      PROVE  AvailabilityInv'
  <2>1. \A p \in Callers : booking'[p] = IF p = r THEN next ELSE booking[p]
    BY <1>1 DEF AvailabilityInv, A!AvailabilityTypeOK
  <2> QED
    BY <1>1, <2>1 DEF AvailabilityInv, A!AvailabilityTypeOK, CancelInv
<1>2. A!Ready \in A!Bookings
  BY DEF A!Bookings
<1>3. ASSUME NEW r \in Callers, NEW c \in Candidates, A!Count(r, c)
      PROVE  AvailabilityInv'
  <2> DEFINE next == [phase |-> "counted", owner |-> c]
  <2>1. next \in A!Bookings /\ booking' = [booking EXCEPT ![r] = next]
    BY <1>3 DEF A!Count, A!Bookings
  <2> QED
    BY <1>1, <1>3, <2>1 DEF A!Count
<1>4. ASSUME NEW r \in Callers, NEW w \in Windows, NEW within \in SUBSET Interviews,
             A!Insert(r, w, within)
      PROVE  AvailabilityInv'
  <2>1. booking[r].owner \in Candidates
    BY <1>4, BookingShape DEF A!Insert, AvailabilityInv
  <2> DEFINE row == [owner |-> booking[r].owner, status |-> "ACTIVE", within |-> within]
  <2>2. row \in A!WindowRows
    BY <2>1 DEF A!WindowRows
  <2>3. /\ window' = [window EXCEPT ![w] = row] /\ window[w] = A!NoWindow
        /\ booking' = [booking EXCEPT ![r] = A!Ready] /\ UNCHANGED interview
    BY <1>4 DEF A!Insert
  <2>4. \A v \in Windows : window[v] \in A!WindowRows => window'[v] = window[v]
    BY <1>0, <2>3 DEF AvailabilityInv, A!AvailabilityTypeOK
  <2>5. \A p \in Callers : booking'[p] = booking[p] \/ booking'[p].phase = "ready"
    BY <1>0, <2>3 DEF AvailabilityInv, A!AvailabilityTypeOK
  <2>6. A!AvailabilityTypeOK'
    BY <1>2, <2>2, <2>3 DEF AvailabilityInv, A!AvailabilityTypeOK
  <2>7. CancelInv'
    BY <2>3, <2>4, <2>5, BookingShape DEF AvailabilityInv, CancelInv
  <2> QED
    BY <2>6, <2>7 DEF AvailabilityInv
<1>5. ASSUME NEW r \in Callers, NEW w \in Windows, A!ReadWindow(r, w)
      PROVE  AvailabilityInv'
  <2> DEFINE next == [phase |-> "cancel", window |-> w]
  <2>1. next \in A!Bookings /\ booking' = [booking EXCEPT ![r] = next]
    BY <1>5 DEF A!ReadWindow, A!Bookings
  <2>2. window[w] \in A!WindowRows
    BY <1>5 DEF A!ReadWindow, AvailabilityInv, A!AvailabilityTypeOK
  <2> QED
    BY <1>1, <1>5, <2>1, <2>2 DEF A!ReadWindow
<1>6. ASSUME NEW r \in Callers, A!FindInterviews(r)
      PROVE  AvailabilityInv'
  <2> DEFINE w == booking[r].window
             hit == {i \in window[w].within : interview[i] = "SCHEDULED"}
             next == [phase |-> "cascade", window |-> w, moved |-> FALSE, found |-> hit]
  <2>1. w \in Windows /\ window[w] \in A!WindowRows
    BY <1>6, BookingShape DEF A!FindInterviews, AvailabilityInv, CancelInv
  <2>2. hit \in SUBSET Interviews
    BY <2>1 DEF A!WindowRows
  <2>3. next \in A!Bookings
    BY <2>1, <2>2 DEF A!Bookings
  <2>4. booking' = [booking EXCEPT ![r] = next] /\ UNCHANGED <<window, interview>>
    BY <1>6 DEF A!FindInterviews
  <2> QED
    BY <1>1, <2>1, <2>3, <2>4
(* What writes interviews moves those that have found one of them.         *)
<1>7. ASSUME NEW written
      PROVE  /\ A!Moves(written) \in [Callers -> A!Bookings]
             /\ \A p \in Callers :
                  /\ A!Moves(written)[p].phase = booking[p].phase
                  /\ booking[p].phase \in {"cancel", "cascade"} =>
                       A!Moves(written)[p].window = booking[p].window
                  /\ booking[p].phase = "cascade" /\ ~ A!Moves(written)[p].moved =>
                       /\ ~ booking[p].moved
                       /\ booking[p].found \cap written = {}
                       /\ A!Moves(written)[p].found = booking[p].found
  <2> SUFFICES ASSUME NEW p \in Callers
               PROVE  /\ A!Moves(written)[p] \in A!Bookings
                      /\ A!Moves(written)[p].phase = booking[p].phase
                      /\ booking[p].phase \in {"cancel", "cascade"} =>
                           A!Moves(written)[p].window = booking[p].window
                      /\ booking[p].phase = "cascade" /\ ~ A!Moves(written)[p].moved =>
                           /\ ~ booking[p].moved
                           /\ booking[p].found \cap written = {}
                           /\ A!Moves(written)[p].found = booking[p].found
    BY DEF A!Moves
  <2>1. CASE booking[p].phase = "cascade" /\ booking[p].found \cap written # {}
    <3>1. booking[p] \in [phase: {"cascade"}, window: Windows,
                          found: SUBSET Interviews, moved: BOOLEAN]
      BY <2>1, BookingShape DEF AvailabilityInv
    <3>2. A!Moves(written)[p] = [booking[p] EXCEPT !.moved = TRUE]
      BY <2>1 DEF A!Moves
    <3> QED
      BY <3>1, <3>2 DEF A!Bookings
  <2>2. CASE ~ (booking[p].phase = "cascade" /\ booking[p].found \cap written # {})
    <3>1. A!Moves(written)[p] = booking[p]
      BY <2>2 DEF A!Moves
    <3> QED
      BY <2>2, <3>1 DEF AvailabilityInv, A!AvailabilityTypeOK
  <2> QED
    BY <2>1, <2>2
<1>8. ASSUME NEW r \in Callers, A!Cascade(r)
      PROVE  AvailabilityInv'
  <2> DEFINE w == booking[r].window
             hit == booking[r].found
  <2>1. /\ w \in Windows /\ window[w] \in A!WindowRows
    BY <1>8, BookingShape DEF A!Cascade, AvailabilityInv, CancelInv
  <2>2. /\ window' = [window EXCEPT ![w].status = "CANCELLED"]
        /\ interview' = [i \in Interviews |-> IF i \in hit THEN "CANCELLED" ELSE interview[i]]
        /\ booking' = [A!Moves(hit) EXCEPT ![r] = A!Ready]
    BY <1>8 DEF A!Cascade, A!CancelAll
  <2>3. [window[w] EXCEPT !.status = "CANCELLED"] \in A!WindowRows
    BY <2>1 DEF A!WindowRows
  <2>4. \A v \in Windows : window[v] \in A!WindowRows => window'[v] \in A!WindowRows
    BY <2>1, <2>2, <2>3 DEF AvailabilityInv, A!AvailabilityTypeOK
  <2>5. A!AvailabilityTypeOK'
    <3>1. window' \in [Windows -> A!WindowRows \cup {A!NoWindow}]
      BY <2>1, <2>2, <2>3 DEF AvailabilityInv, A!AvailabilityTypeOK
    <3>2. interview' \in [Interviews -> A!SlotStatus]
      BY <2>2 DEF AvailabilityInv, A!AvailabilityTypeOK, A!SlotStatus
    <3>3. booking' \in [Callers -> A!Bookings]
      BY <1>2, <1>7, <2>2
    <3> QED
      BY <3>1, <3>2, <3>3 DEF A!AvailabilityTypeOK
  <2>6. \A p \in Callers : p # r => booking'[p] = A!Moves(hit)[p]
    BY <1>7, <2>2
  <2>7. booking'[r].phase = "ready"
    BY <1>0, <1>7, <2>2
  <2>8. \A p \in Callers : booking[p].phase = "cascade" => booking[p].found \subseteq Interviews
    BY BookingShape DEF AvailabilityInv
  <2>9. CancelInv'
    <3> SUFFICES ASSUME NEW p \in Callers, p # r
                 PROVE  /\ booking'[p].phase \in {"cancel", "cascade"} =>
                             window'[booking'[p].window] \in A!WindowRows
                        /\ booking'[p].phase = "cascade" /\ ~ booking'[p].moved =>
                             \A i \in booking'[p].found : interview'[i] = "SCHEDULED"
      BY <2>7 DEF CancelInv
    <3>1. booking'[p].phase \in {"cancel", "cascade"} =>
            window'[booking'[p].window] \in A!WindowRows
      BY <1>7, <2>4, <2>6, BookingShape DEF AvailabilityInv, CancelInv
    <3>2. ASSUME booking'[p].phase = "cascade", ~ booking'[p].moved,
                 NEW i \in booking'[p].found
          PROVE  interview'[i] = "SCHEDULED"
      <4>1. /\ booking[p].phase = "cascade" /\ ~ booking[p].moved
            /\ i \in booking[p].found /\ i \notin hit
        BY <1>7, <2>6, <3>2
      <4> QED
        BY <2>2, <2>8, <4>1 DEF AvailabilityInv, CancelInv
    <3> QED
      BY <3>1, <3>2
  <2> QED
    BY <2>5, <2>9 DEF AvailabilityInv
<1>9. ASSUME NEW r \in Callers, A!Abandon(r)
      PROVE  AvailabilityInv'
  BY <1>0, <1>1, <1>2, <1>9 DEF A!Abandon
<1>10. ASSUME NEW i \in Interviews, NEW status \in A!SlotStatus, A!MoveInterview(i, status)
       PROVE  AvailabilityInv'
  <2>1. /\ interview' = [interview EXCEPT ![i] = status]
        /\ booking' = A!Moves({i}) /\ UNCHANGED window
    BY <1>10 DEF A!MoveInterview
  <2>2. A!AvailabilityTypeOK'
    BY <1>7, <2>1 DEF AvailabilityInv, A!AvailabilityTypeOK
  <2>3. \A k \in Interviews : k # i => interview'[k] = interview[k]
    BY <2>1 DEF AvailabilityInv, A!AvailabilityTypeOK
  <2>4. CancelInv'
    <3> SUFFICES ASSUME NEW p \in Callers
                 PROVE  /\ booking'[p].phase \in {"cancel", "cascade"} =>
                             window'[booking'[p].window] \in A!WindowRows
                        /\ booking'[p].phase = "cascade" /\ ~ booking'[p].moved =>
                             \A k \in booking'[p].found : interview'[k] = "SCHEDULED"
      BY DEF CancelInv
    <3>1. booking'[p].phase \in {"cancel", "cascade"} =>
            window'[booking'[p].window] \in A!WindowRows
      BY <1>7, <2>1 DEF AvailabilityInv, CancelInv
    <3>2. ASSUME booking'[p].phase = "cascade", ~ booking'[p].moved,
                 NEW k \in booking'[p].found
          PROVE  interview'[k] = "SCHEDULED"
      <4>1. /\ booking[p].phase = "cascade" /\ ~ booking[p].moved
            /\ k \in booking[p].found /\ k # i
        BY <1>7, <2>1, <3>2
      <4>2. k \in Interviews
        BY <4>1, BookingShape DEF AvailabilityInv
      <4> QED
        BY <2>3, <4>1, <4>2 DEF AvailabilityInv, CancelInv
    <3> QED
      BY <3>1, <3>2
  <2> QED
    BY <2>2, <2>4 DEF AvailabilityInv
<1>11. CASE UNCHANGED availabilityVars
  BY <1>11
  DEF availabilityVars, AvailabilityInv, A!AvailabilityTypeOK, CancelInv
<1> QED
  BY <1>3, <1>4, <1>5, <1>6, <1>8, <1>9, <1>10, <1>11 DEF A!Next

LEMMA AvailabilityInvariant == A!Spec => []AvailabilityInv
<1>1. A!Init => AvailabilityInv
  BY DEF A!Init, AvailabilityInv, A!AvailabilityTypeOK, CancelInv, A!Bookings, A!Ready,
         A!SlotStatus
<1> QED
  BY <1>1, AvailabilityStep, PTL DEF A!Spec, availabilityVars, A!availabilityVars

(* The cascade of a cancellation hits scheduled interviews only.           *)
THEOREM CascadeCorrect == A!Spec => CascadeHitsScheduled
<1> DEFINE Hits == \A r \in Callers, i \in Interviews :
                     /\ booking[r].phase = "cascade" /\ booking'[r] = A!Ready
                     /\ interview'[i] # interview[i]
                     => interview[i] = "SCHEDULED"
<1>1. AvailabilityInv /\ [A!Next]_availabilityVars => [Hits]_availabilityVars
  <2> SUFFICES ASSUME AvailabilityInv, A!Next,
                      NEW r \in Callers, NEW i \in Interviews,
                      booking[r].phase = "cascade", booking'[r] = A!Ready,
                      interview'[i] # interview[i]
               PROVE  interview[i] = "SCHEDULED"
    BY DEF availabilityVars
  <2>1. ASSUME NEW p \in Callers, A!Cascade(p)
        PROVE  interview[i] = "SCHEDULED"
    <3>1. i \in booking[p].found /\ booking[p].phase = "cascade" /\ ~ booking[p].moved
      BY <2>1 DEF A!Cascade, A!CancelAll
    <3> QED
      BY <3>1 DEF AvailabilityInv, CancelInv
  <2>2. ASSUME NEW k \in Interviews, NEW status \in A!SlotStatus, A!MoveInterview(k, status)
        PROVE  FALSE
    <3>1. booking'[r] = booking[r] \/ booking'[r] = [booking[r] EXCEPT !.moved = TRUE]
      BY <2>2 DEF A!MoveInterview, A!Moves
    <3>2. booking'[r].phase = "cascade"
      BY <3>1, BookingShape DEF AvailabilityInv
    <3> QED
      BY <3>2 DEF A!Ready
  <2> QED
    BY <2>1, <2>2
    DEF A!Next, A!Count, A!Insert, A!ReadWindow, A!FindInterviews, A!Abandon
<1> QED
  BY <1>1, AvailabilityInvariant, PTL
  DEF A!Spec, CascadeHitsScheduled, A!CascadeHitsScheduled, availabilityVars, A!availabilityVars

(* The instance counts as the library does.                                *)
LEMMA SameCardinality ==
  ASSUME NEW S PROVE A!Cardinality(S) = Cardinality(S)
  BY DEF A!Cardinality, Cardinality

(* The requests that have counted and not inserted yet: together with the  *)
(* windows there are, they do not reach the limit and one per request.     *)
Counting(c) == {r \in Callers : booking[r].phase = "counted" /\ booking[r].owner = c}

OverrunInv ==
  \A c \in Candidates :
    /\ IsFiniteSet(A!Active(c))
    /\ Cardinality(A!Active(c)) + Cardinality(Counting(c)) < MaxActive + Cardinality(Callers)

LEMMA CallersAreFinite ==
  ASSUME NEW P \in SUBSET Callers
  PROVE  /\ IsFiniteSet(P) /\ Cardinality(P) \in Nat /\ Cardinality(Callers) \in Nat
         /\ Cardinality(P) <= Cardinality(Callers)
  BY RecordsAssumption, FS_Subset, FS_CardinalityType

LEMMA Shrinks ==
  ASSUME NEW S, NEW T \in SUBSET S, NEW P \in SUBSET Callers, NEW Q \in SUBSET P,
         IsFiniteSet(S),
         Cardinality(S) + Cardinality(P) < MaxActive + Cardinality(Callers)
  PROVE  /\ IsFiniteSet(T)
         /\ Cardinality(T) + Cardinality(Q) < MaxActive + Cardinality(Callers)
<1>1. /\ IsFiniteSet(T) /\ Cardinality(T) <= Cardinality(S)
      /\ Cardinality(S) \in Nat /\ Cardinality(T) \in Nat
  BY FS_Subset, FS_CardinalityType
<1>2. Cardinality(Q) <= Cardinality(P) /\ Cardinality(Q) \in Nat /\ Cardinality(P) \in Nat
  BY CallersAreFinite, FS_Subset
<1>3. Cardinality(Callers) \in Nat
  BY CallersAreFinite
<1> QED
  BY <1>1, <1>2, <1>3, RecordsAssumption

LEMMA Trades ==
  ASSUME NEW S, NEW w, NEW P \in SUBSET Callers, NEW r \in P,
         IsFiniteSet(S),
         Cardinality(S) + Cardinality(P) < MaxActive + Cardinality(Callers)
  PROVE  /\ IsFiniteSet(S \cup {w})
         /\ Cardinality(S \cup {w}) + Cardinality(P \ {r}) < MaxActive + Cardinality(Callers)
<1>1. /\ IsFiniteSet(S \cup {w}) /\ Cardinality(S \cup {w}) <= Cardinality(S) + 1
      /\ Cardinality(S \cup {w}) \in Nat /\ Cardinality(S) \in Nat
  <2>1. Cardinality(S) \in Nat
    BY FS_CardinalityType
  <2>2. /\ IsFiniteSet(S \cup {w})
        /\ Cardinality(S \cup {w}) = IF w \in S THEN Cardinality(S) ELSE Cardinality(S) + 1
    BY FS_AddElement
  <2> QED
    BY <2>1, <2>2
<1>2. Cardinality(P \ {r}) = Cardinality(P) - 1 /\ Cardinality(P) \in Nat
  BY CallersAreFinite, FS_RemoveElement
<1>3. Cardinality(Callers) \in Nat
  BY CallersAreFinite
<1> QED
  BY <1>1, <1>2, <1>3, RecordsAssumption

LEMMA OverrunStep ==
  AvailabilityInv /\ OverrunInv /\ [A!Next]_availabilityVars => OverrunInv'
<1> SUFFICES ASSUME AvailabilityInv, OverrunInv, [A!Next]_availabilityVars,
                    NEW c \in Candidates
             PROVE  /\ IsFiniteSet(A!Active(c)')
                    /\ Cardinality(A!Active(c)') + Cardinality(Counting(c)')
                         < MaxActive + Cardinality(Callers)
  BY DEF OverrunInv
<1> DEFINE S == A!Active(c)
           P == Counting(c)
           G == /\ IsFiniteSet(S')
                /\ Cardinality(S') + Cardinality(P') < MaxActive + Cardinality(Callers)
<1>1. IsFiniteSet(S) /\ Cardinality(S) + Cardinality(P) < MaxActive + Cardinality(Callers)
  BY DEF OverrunInv
<1>2. P \in SUBSET Callers /\ P' \in SUBSET Callers
  BY DEF Counting
<1>3. ASSUME S' \subseteq S, P' \subseteq P PROVE G
  <2> HIDE DEF S, P
  <2> QED
    BY <1>1, <1>2, <1>3, Shrinks
<1>4. ASSUME NEW r \in Callers, NEW d \in Candidates, A!Count(r, d) PROVE G
  <2>1. S' = S
    BY <1>4 DEF A!Count, A!Active
  <2>2. CASE d = c
    <3>1. Cardinality(S) < MaxActive /\ Cardinality(S) \in Nat
      <4>1. A!Cardinality(A!Active(c)) < MaxActive
        BY <1>4, <2>2 DEF A!Count
      <4> QED
        BY <1>1, <4>1, SameCardinality, FS_CardinalityType
    <3>2. /\ Cardinality(P') <= Cardinality(Callers)
          /\ Cardinality(P') \in Nat /\ Cardinality(Callers) \in Nat
      <4> HIDE DEF P
      <4> QED
        BY <1>2, CallersAreFinite
    <3> HIDE DEF S, P
    <3> QED
      BY <1>1, <2>1, <3>1, <3>2, RecordsAssumption
  <2>3. CASE d # c
    <3>1. P' \subseteq P
      BY <1>4, <2>3 DEF A!Count, Counting, AvailabilityInv, A!AvailabilityTypeOK
    <3> QED
      BY <1>3, <2>1, <3>1
  <2> QED
    BY <2>2, <2>3
<1>5. ASSUME NEW r \in Callers, NEW w \in Windows, NEW within \in SUBSET Interviews,
             A!Insert(r, w, within)
      PROVE  G
  <2>1. /\ window' = [window EXCEPT ![w] =
             [owner |-> booking[r].owner, status |-> "ACTIVE", within |-> within]]
        /\ booking' = [booking EXCEPT ![r] = A!Ready]
        /\ booking[r].phase = "counted"
    BY <1>5 DEF A!Insert
  <2>2. P' = P \ {r}
    BY <2>1 DEF Counting, AvailabilityInv, A!AvailabilityTypeOK, A!Ready
  <2>3. CASE booking[r].owner = c
    <3>1. r \in P
      BY <2>1, <2>3 DEF Counting
    <3>2. S' = S \cup {w}
      BY <2>1, <2>3 DEF A!Active, AvailabilityInv, A!AvailabilityTypeOK
    <3> HIDE DEF S, P
    <3> QED
      BY <1>1, <1>2, <2>2, <3>1, <3>2, Trades
  <2>4. CASE booking[r].owner # c
    <3>1. S' \subseteq S
      BY <2>1, <2>4 DEF A!Active, AvailabilityInv, A!AvailabilityTypeOK
    <3> QED
      BY <1>3, <2>2, <3>1
  <2> QED
    BY <2>3, <2>4
(* Nobody else counts, and no window becomes active again.                 *)
<1>6. ASSUME NEW r \in Callers, NEW next,
             booking' = [booking EXCEPT ![r] = next], next.phase # "counted",
             UNCHANGED window
      PROVE  G
  <2>1. S' = S
    BY <1>6 DEF A!Active
  <2>2. P' \subseteq P
    BY <1>6 DEF Counting, AvailabilityInv, A!AvailabilityTypeOK
  <2> QED
    BY <1>3, <2>1, <2>2
<1>7. ASSUME NEW r \in Callers, NEW w \in Windows, A!ReadWindow(r, w) PROVE G
  <2> DEFINE next == [phase |-> "cancel", window |-> w]
  <2>1. /\ booking' = [booking EXCEPT ![r] = next] /\ UNCHANGED window
        /\ next.phase # "counted"
    BY <1>7 DEF A!ReadWindow
  <2> HIDE DEF next, G
  <2> QED
    BY <1>6, <2>1
<1>8. ASSUME NEW r \in Callers, A!FindInterviews(r) PROVE G
  <2> DEFINE w == booking[r].window
             next == [phase |-> "cascade", window |-> w, moved |-> FALSE,
                      found |-> {i \in window[w].within : interview[i] = "SCHEDULED"}]
  <2>1. /\ booking' = [booking EXCEPT ![r] = next] /\ UNCHANGED window
        /\ next.phase # "counted"
    BY <1>8 DEF A!FindInterviews
  <2> HIDE DEF next, G
  <2> QED
    BY <1>6, <2>1
<1>9. ASSUME NEW r \in Callers, A!Abandon(r) PROVE G
  <2>1. /\ booking' = [booking EXCEPT ![r] = A!Ready] /\ UNCHANGED window
        /\ A!Ready.phase # "counted"
    BY <1>9 DEF A!Abandon, A!Ready
  <2> HIDE DEF G
  <2> QED
    BY <1>6, <2>1
<1>10. ASSUME NEW written, NEW p \in Callers
       PROVE  /\ A!Moves(written)[p].phase = "counted" => A!Moves(written)[p] = booking[p]
  <2>1. CASE booking[p].phase = "cascade" /\ booking[p].found \cap written # {}
    <3>1. A!Moves(written)[p] = [booking[p] EXCEPT !.moved = TRUE]
      BY <2>1 DEF A!Moves
    <3>2. A!Moves(written)[p].phase = "cascade"
      BY <2>1, <3>1, BookingShape DEF AvailabilityInv
    <3> QED
      BY <3>2
  <2>2. CASE ~ (booking[p].phase = "cascade" /\ booking[p].found \cap written # {})
    BY <2>2 DEF A!Moves
  <2> QED
    BY <2>1, <2>2
<1>11. ASSUME NEW r \in Callers, A!Cascade(r) PROVE G
  <2>1. /\ window' = [window EXCEPT ![booking[r].window].status = "CANCELLED"]
        /\ booking' = [A!Moves(booking[r].found) EXCEPT ![r] = A!Ready]
    BY <1>11 DEF A!Cascade, A!CancelAll
  <2>2. booking[r].window \in Windows /\ window[booking[r].window] \in A!WindowRows
    BY <1>11, BookingShape DEF A!Cascade, AvailabilityInv, CancelInv
  <2>3. S' \subseteq S
    BY <2>1, <2>2 DEF A!Active, A!WindowRows, AvailabilityInv, A!AvailabilityTypeOK
  <2>4. A!Moves(booking[r].found) = [p \in Callers |-> A!Moves(booking[r].found)[p]]
    BY DEF A!Moves
  <2>5. \A p \in Callers : booking'[p].phase = "counted" => booking'[p] = booking[p]
    BY <1>10, <2>1, <2>4 DEF A!Ready
  <2>6. P' \subseteq P
    BY <2>5 DEF Counting
  <2> QED
    BY <1>3, <2>3, <2>6
<1>12. ASSUME NEW i \in Interviews, NEW status \in A!SlotStatus, A!MoveInterview(i, status)
       PROVE  G
  <2>1. S' = S
    BY <1>12 DEF A!MoveInterview, A!Active
  <2>2. \A p \in Callers : booking'[p].phase = "counted" => booking'[p] = booking[p]
    BY <1>10, <1>12 DEF A!MoveInterview
  <2>3. P' \subseteq P
    BY <2>2 DEF Counting
  <2> QED
    BY <1>3, <2>1, <2>3
<1>13. UNCHANGED availabilityVars => G
  <2> SUFFICES ASSUME UNCHANGED availabilityVars PROVE G
    OBVIOUS
  <2>1. S' = S /\ P' = P
    BY DEF availabilityVars, A!Active, Counting
  <2> QED
    BY <1>3, <2>1
<1> HIDE DEF S, P, G
<1>14. G
  BY <1>4, <1>5, <1>7, <1>8, <1>9, <1>11, <1>12, <1>13 DEF A!Next
<1> QED
  BY <1>14 DEF G, S, P

(* Racing requests exceed the limit of active windows by fewer windows     *)
(* than there are requests.                                                *)
THEOREM OverrunCorrect == A!Spec => []ActiveOverrunIsBounded
<1>1. A!Init => OverrunInv
  <2> SUFFICES ASSUME A!Init, NEW c \in Candidates
               PROVE  /\ IsFiniteSet(A!Active(c))
                      /\ Cardinality(A!Active(c)) + Cardinality(Counting(c))
                           < MaxActive + Cardinality(Callers)
    BY DEF OverrunInv
  <2>1. A!Active(c) = {} /\ Counting(c) = {}
    BY DEF A!Init, A!Active, A!NoWindow, Counting, A!Ready
  <2>2. Cardinality(Callers) \in Nat
    BY RecordsAssumption, FS_CardinalityType
  <2> QED
    BY <2>1, <2>2, FS_EmptySet, RecordsAssumption
<1>2. OverrunInv => ActiveOverrunIsBounded
  <2> SUFFICES ASSUME OverrunInv, NEW c \in Candidates
               PROVE  Cardinality(A!Active(c)) < MaxActive + Cardinality(Callers)
    BY SameCardinality DEF ActiveOverrunIsBounded, A!ActiveOverrunIsBounded
  <2>1. Counting(c) \in SUBSET Callers
    BY DEF Counting
  <2>2. Cardinality(Counting(c)) \in Nat /\ Cardinality(Callers) \in Nat
    BY <2>1, CallersAreFinite
  <2>3. Cardinality(A!Active(c)) \in Nat
    BY FS_CardinalityType DEF OverrunInv
  <2> QED
    BY <2>2, <2>3, RecordsAssumption DEF OverrunInv
<1> QED
  BY <1>1, <1>2, OverrunStep, AvailabilityInvariant, PTL
  DEF A!Spec, availabilityVars, A!availabilityVars

-----------------------------------------------------------------------------
(* Feedback.  What was read is what is there unless it has moved; what is  *)
(* edited was a draft.                                                     *)
ReadInv ==
  /\ \A r \in Editors :
       /\ edit[r].phase \in {"create", "transcript"} /\ ~ edit[r].moved =>
            edit[r].seen = pointer[edit[r].slot]
       /\ edit[r].phase = "edit" =>
            /\ edit[r].seen.status = "DRAFT"
            /\ ~ edit[r].moved => edit[r].seen = feedback[edit[r].of]
  /\ \A f \in Feedbacks :
       /\ agent[f] # F!None => feedback[f] # F!NoRow
       /\ agent[f].phase = "asking" /\ ~ agent[f].moved => agent[f].seen = feedback[f]

FeedbackInv == F!FeedbackTypeOK /\ ReadInv

LEMMA EditShape ==
  ASSUME F!FeedbackTypeOK, NEW r \in Editors
  PROVE  /\ edit[r].phase \in {"create", "transcript"} =>
              edit[r] \in [phase: {"create", "transcript"}, slot: Slots,
                           seen: Feedbacks \cup {NoFeedback}, moved: BOOLEAN]
         /\ edit[r].phase = "edit" =>
              edit[r] \in [phase: {"edit"}, of: Feedbacks, seen: F!Rows, moved: BOOLEAN]
         /\ edit[r] = F!None <=> edit[r].phase = "none"
  BY DEF F!FeedbackTypeOK, F!Edits, F!None

LEMMA TaskShape ==
  ASSUME F!FeedbackTypeOK, NEW f \in Feedbacks
  PROVE  /\ agent[f].phase = "asking" =>
              agent[f] \in [phase: {"asking"}, seen: F!Rows, moved: BOOLEAN]
         /\ agent[f] = F!None <=> agent[f].phase = "none"
  BY DEF F!FeedbackTypeOK, F!Tasks, F!None

LEMMA NoRowIsNone == F!NoRow \notin F!Rows /\ F!NoRow.status = "NONE"
  BY DEF F!NoRow, F!Rows

(* What a write of a slot, or of a feedback, leaves of the requests and of *)
(* the task that have read it.                                             *)
LEMMA SlotMovesKeeps ==
  ASSUME F!FeedbackTypeOK, NEW s \in Slots, NEW r \in Editors
  PROVE  /\ F!SlotMoves(s)[r] \in F!Edits
         /\ F!SlotMoves(s)[r] = edit[r]
              \/ (F!SlotMoves(s)[r].moved /\ F!SlotMoves(s)[r].phase \in {"create", "transcript"})
         /\ edit[r].phase \in {"create", "transcript"} /\ edit[r].slot = s =>
              F!SlotMoves(s)[r].moved /\ F!SlotMoves(s)[r].phase \in {"create", "transcript"}
         /\ F!SlotMoves(s)[r].phase = edit[r].phase
<1>1. CASE edit[r].phase \in {"create", "transcript"} /\ edit[r].slot = s
  <2>1. F!SlotMoves(s)[r] = [edit[r] EXCEPT !.moved = TRUE]
    BY <1>1 DEF F!SlotMoves
  <2> QED
    BY <1>1, <2>1, EditShape DEF F!Edits
<1>2. CASE ~ (edit[r].phase \in {"create", "transcript"} /\ edit[r].slot = s)
  <2>1. F!SlotMoves(s)[r] = edit[r]
    BY <1>2 DEF F!SlotMoves
  <2> QED
    BY <1>2, <2>1 DEF F!FeedbackTypeOK
<1> QED
  BY <1>1, <1>2

LEMMA MovedKeeps ==
  ASSUME F!FeedbackTypeOK, NEW f \in Feedbacks, NEW r \in Editors
  PROVE  /\ F!Moved(r, f) \in F!Edits
         /\ F!Moved(r, f).phase = edit[r].phase
         /\ edit[r].phase # "edit" => F!Moved(r, f) = edit[r]
         /\ edit[r].phase = "edit" =>
              /\ F!Moved(r, f).of = edit[r].of /\ F!Moved(r, f).seen = edit[r].seen
              /\ ~ F!Moved(r, f).moved => ~ edit[r].moved /\ edit[r].of # f
<1>1. CASE edit[r].phase = "edit" /\ edit[r].of = f
  <2>1. F!Moved(r, f) = [edit[r] EXCEPT !.moved = TRUE]
    BY <1>1 DEF F!Moved
  <2> QED
    BY <1>1, <2>1, EditShape DEF F!Edits
<1>2. CASE ~ (edit[r].phase = "edit" /\ edit[r].of = f)
  <2>1. F!Moved(r, f) = edit[r]
    BY <1>2 DEF F!Moved
  <2> QED
    BY <1>2, <2>1 DEF F!FeedbackTypeOK
<1> QED
  BY <1>1, <1>2

LEMMA MovedTaskKeeps ==
  ASSUME F!FeedbackTypeOK, NEW f \in Feedbacks
  PROVE  /\ F!MovedTask(f) \in F!Tasks
         /\ F!MovedTask(f) = F!None => agent[f] = F!None
         /\ F!MovedTask(f).phase = "asking" => F!MovedTask(f).moved
<1>1. CASE agent[f].phase = "asking"
  <2>1. F!MovedTask(f) = [agent[f] EXCEPT !.moved = TRUE]
    BY <1>1 DEF F!MovedTask
  <2>2. F!MovedTask(f) \in [phase: {"asking"}, seen: F!Rows, moved: BOOLEAN]
        /\ F!MovedTask(f).moved
    BY <1>1, <2>1, TaskShape
  <2> QED
    BY <1>1, <2>2 DEF F!Tasks, F!None
<1>2. CASE agent[f].phase # "asking"
  <2>1. F!MovedTask(f) = agent[f]
    BY <1>2 DEF F!MovedTask
  <2> QED
    BY <1>2, <2>1 DEF F!FeedbackTypeOK
<1> QED
  BY <1>1, <1>2

(* The two kinds of write.                                                 *)
LEMMA AttachKeeps ==
  ASSUME FeedbackInv, NEW r \in Editors, edit[r].phase \in {"create", "transcript"},
         NEW f \in Feedbacks, NEW content \in Texts \cup {NoContent},
         NEW task \in {F!None, [phase |-> "queued"]}, F!Attach(r, f, content, task)
  PROVE  FeedbackInv'
<1> DEFINE s == edit[r].slot
           row == [slot |-> s, status |-> "DRAFT", content |-> content]
<1>1. s \in Slots
  BY EditShape DEF FeedbackInv
<1>2. /\ feedback[f] = F!NoRow
      /\ feedback' = [feedback EXCEPT ![f] = row]
      /\ pointer' = [pointer EXCEPT ![s] = f]
      /\ edit' = [F!SlotMoves(s) EXCEPT ![r] = F!None]
      /\ agent' = [agent EXCEPT ![f] = task]
  BY DEF F!Attach
<1>3. row \in F!Rows
  BY <1>1 DEF F!Rows
<1>4. \A p \in Editors : edit'[p] = IF p = r THEN F!None ELSE F!SlotMoves(s)[p]
  <2>1. F!SlotMoves(s) = [p \in Editors |-> F!SlotMoves(s)[p]]
    BY DEF F!SlotMoves
  <2> QED
    BY <1>2, <2>1
<1>5. F!FeedbackTypeOK'
  <2>1. F!None \in F!Edits /\ task \in F!Tasks
    BY DEF F!Edits, F!Tasks
  <2>2. DOMAIN edit' = Editors /\ edit' = [p \in Editors |-> edit'[p]]
    BY <1>2 DEF F!SlotMoves
  <2>3. edit' \in [Editors -> F!Edits]
    BY <1>1, <1>4, <2>1, <2>2, SlotMovesKeeps DEF FeedbackInv
  <2> QED
    BY <1>1, <1>2, <1>3, <2>1, <2>3 DEF FeedbackInv, F!FeedbackTypeOK
<1>6. ASSUME NEW p \in Editors
      PROVE  /\ edit'[p].phase \in {"create", "transcript"} /\ ~ edit'[p].moved =>
                  edit'[p].seen = pointer'[edit'[p].slot]
             /\ edit'[p].phase = "edit" =>
                  /\ edit'[p].seen.status = "DRAFT"
                  /\ ~ edit'[p].moved => edit'[p].seen = feedback'[edit'[p].of]
  <2>1. CASE p = r \/ edit'[p] # edit[p]
    <3>1. \/ edit'[p].phase = "none"
          \/ edit'[p].moved /\ edit'[p].phase \in {"create", "transcript"}
      BY <1>1, <1>4, <2>1, SlotMovesKeeps DEF FeedbackInv, F!None
    <3> QED
      BY <3>1
  <2>2. CASE p # r /\ edit'[p] = edit[p]
    <3>1. ASSUME edit[p].phase \in {"create", "transcript"}, ~ edit[p].moved
          PROVE  edit[p].seen = pointer'[edit[p].slot]
      <4>1. edit[p].slot # s /\ edit[p].slot \in Slots
        BY <1>1, <1>4, <2>2, <3>1, SlotMovesKeeps, EditShape DEF FeedbackInv
      <4> QED
        BY <1>2, <3>1, <4>1 DEF FeedbackInv, F!FeedbackTypeOK, ReadInv
    <3>2. ASSUME edit[p].phase = "edit", ~ edit[p].moved
          PROVE  edit[p].seen = feedback'[edit[p].of]
      <4>1. edit[p].of \in Feedbacks /\ edit[p].seen \in F!Rows
        BY <3>2, EditShape DEF FeedbackInv
      <4>2. edit[p].of # f
        BY <1>2, <3>2, <4>1, NoRowIsNone DEF FeedbackInv, ReadInv
      <4> QED
        BY <1>2, <3>2, <4>1, <4>2 DEF FeedbackInv, F!FeedbackTypeOK, ReadInv
    <3> QED
      BY <2>2, <3>1, <3>2 DEF FeedbackInv, ReadInv
  <2> QED
    BY <2>1, <2>2
<1>7. ASSUME NEW g \in Feedbacks
      PROVE  /\ agent'[g] # F!None => feedback'[g] # F!NoRow
             /\ agent'[g].phase = "asking" /\ ~ agent'[g].moved => agent'[g].seen = feedback'[g]
  <2>1. CASE g = f
    BY <1>2, <1>3, <2>1, NoRowIsNone DEF FeedbackInv, F!FeedbackTypeOK, F!None
  <2>2. CASE g # f
    BY <1>2, <2>2 DEF FeedbackInv, F!FeedbackTypeOK, ReadInv
  <2> QED
    BY <2>1, <2>2
<1> QED
  BY <1>5, <1>6, <1>7 DEF FeedbackInv, ReadInv

(* A new row for a feedback, written by one of its readers.                *)
LEMMA RewriteKeeps ==
  ASSUME FeedbackInv, NEW f \in Feedbacks, feedback[f] # F!NoRow, NEW row \in F!Rows,
         feedback' = [feedback EXCEPT ![f] = row],
         \A p \in Editors : edit'[p] = F!None \/ edit'[p] = F!Moved(p, f),
         \A g \in Feedbacks : g # f => agent'[g] = agent[g],
         agent'[f] = F!None \/ agent'[f] = F!MovedTask(f),
         edit' = [p \in Editors |-> edit'[p]], agent' = [g \in Feedbacks |-> agent'[g]],
         UNCHANGED pointer
  PROVE  FeedbackInv'
<1>1. F!None \in F!Edits /\ F!None \in F!Tasks /\ F!None.phase = "none"
  BY DEF F!Edits, F!Tasks, F!None
<1>2. F!FeedbackTypeOK'
  <2>1. edit' \in [Editors -> F!Edits]
    BY <1>1, MovedKeeps DEF FeedbackInv
  <2>2. agent' \in [Feedbacks -> F!Tasks]
    BY <1>1, MovedTaskKeeps DEF FeedbackInv, F!FeedbackTypeOK
  <2> QED
    BY <2>1, <2>2 DEF FeedbackInv, F!FeedbackTypeOK
<1>3. \A g \in Feedbacks : feedback'[g] = IF g = f THEN row ELSE feedback[g]
  BY DEF FeedbackInv, F!FeedbackTypeOK
<1>4. ASSUME NEW p \in Editors
      PROVE  /\ edit'[p].phase \in {"create", "transcript"} /\ ~ edit'[p].moved =>
                  edit'[p].seen = pointer'[edit'[p].slot]
             /\ edit'[p].phase = "edit" =>
                  /\ edit'[p].seen.status = "DRAFT"
                  /\ ~ edit'[p].moved => edit'[p].seen = feedback'[edit'[p].of]
  <2>1. CASE edit'[p] = F!None
    BY <1>1, <2>1
  <2>2. CASE edit'[p] = F!Moved(p, f) /\ edit[p].phase # "edit"
    BY <2>2, MovedKeeps DEF FeedbackInv, ReadInv
  <2>3. CASE edit'[p] = F!Moved(p, f) /\ edit[p].phase = "edit"
    <3>1. edit[p].of \in Feedbacks
      BY <2>3, EditShape DEF FeedbackInv
    <3> QED
      BY <1>3, <2>3, <3>1, MovedKeeps DEF FeedbackInv, ReadInv
  <2> QED
    BY <2>1, <2>2, <2>3
<1>5. ASSUME NEW g \in Feedbacks
      PROVE  /\ agent'[g] # F!None => feedback'[g] # F!NoRow
             /\ agent'[g].phase = "asking" /\ ~ agent'[g].moved => agent'[g].seen = feedback'[g]
  <2>1. CASE g = f
    BY <1>1, <1>3, <2>1, NoRowIsNone, MovedTaskKeeps DEF FeedbackInv
  <2>2. CASE g # f
    BY <1>3, <2>2 DEF FeedbackInv, ReadInv
  <2> QED
    BY <2>1, <2>2
<1> QED
  BY <1>2, <1>4, <1>5 DEF FeedbackInv, ReadInv

LEMMA WriteKeeps ==
  ASSUME FeedbackInv, NEW r \in Editors, edit[r].phase = "edit",
         NEW row \in F!Rows, F!Write(r, row)
  PROVE  FeedbackInv'
<1> DEFINE f == edit[r].of
<1>1. f \in Feedbacks /\ edit[r].seen \in F!Rows
  BY EditShape DEF FeedbackInv
<1>2. CASE row = edit[r].seen
  <2>1. edit' = [edit EXCEPT ![r] = F!None] /\ UNCHANGED <<feedback, agent, pointer>>
    BY <1>2 DEF F!Write
  <2>2. F!None \in F!Edits /\ F!None.phase = "none"
    BY DEF F!Edits, F!None
  <2>3. F!FeedbackTypeOK'
    BY <2>1, <2>2 DEF FeedbackInv, F!FeedbackTypeOK
  <2>4. ReadInv'
    BY <2>1, <2>2 DEF FeedbackInv, F!FeedbackTypeOK, ReadInv
  <2> QED
    BY <2>3, <2>4 DEF FeedbackInv
<1>3. CASE row # edit[r].seen
  <2>1. /\ ~ edit[r].moved
        /\ feedback' = [feedback EXCEPT ![f] = row]
        /\ edit' = [p \in Editors |-> IF p = r THEN F!None ELSE F!Moved(p, f)]
        /\ agent' = [agent EXCEPT ![f] = F!MovedTask(f)]
        /\ UNCHANGED pointer
    BY <1>3 DEF F!Write
  <2>2. feedback[f] # F!NoRow
    BY <1>1, <2>1, NoRowIsNone DEF FeedbackInv, ReadInv
  <2>3. \A p \in Editors : edit'[p] = F!None \/ edit'[p] = F!Moved(p, f)
    BY <2>1
  <2>4. edit' = [p \in Editors |-> edit'[p]]
    BY <2>1
  <2>5. agent' = [g \in Feedbacks |-> agent'[g]] /\ agent'[f] = F!MovedTask(f)
        /\ \A g \in Feedbacks : g # f => agent'[g] = agent[g]
    BY <1>1, <2>1 DEF FeedbackInv, F!FeedbackTypeOK
  <2> HIDE DEF f
  <2> QED
    BY <1>1, <2>1, <2>2, <2>3, <2>4, <2>5, RewriteKeeps
<1> QED
  BY <1>2, <1>3

(* One step per action.                                                    *)
LEMMA FeedbackStep ==
  ASSUME FeedbackInv, [F!Next]_feedbackVars
  PROVE  FeedbackInv'
<1>0. F!FeedbackTypeOK /\ ReadInv
  BY DEF FeedbackInv
<1>n. F!None \in F!Edits /\ F!None \in F!Tasks /\ F!None.phase = "none"
  BY DEF F!Edits, F!Tasks, F!None
<1>1. ASSUME NEW r \in Editors, NEW s \in Slots, NEW phase \in {"create", "transcript"},
             F!ReadSlot(r, s, phase)
      PROVE  FeedbackInv'
  <2> DEFINE row == [phase |-> phase, slot |-> s, seen |-> pointer[s], moved |-> FALSE]
  <2>1. edit' = [edit EXCEPT ![r] = row] /\ UNCHANGED <<feedback, pointer, agent>>
    BY <1>1 DEF F!ReadSlot
  <2>2. row \in F!Edits
    BY <1>0 DEF F!FeedbackTypeOK, F!Edits
  <2>3. F!FeedbackTypeOK'
    BY <1>0, <2>1, <2>2 DEF F!FeedbackTypeOK
  <2>4. ReadInv'
    BY <1>0, <2>1 DEF F!FeedbackTypeOK, ReadInv
  <2> QED
    BY <2>3, <2>4 DEF FeedbackInv
<1>2. ASSUME NEW r \in Editors, NEW f \in Feedbacks, NEW content \in Texts,
             F!Create(r, f, content)
      PROVE  FeedbackInv'
  BY <1>2, AttachKeeps DEF F!Create
<1>3. ASSUME NEW r \in Editors, NEW f \in Feedbacks, F!SubmitTranscript(r, f)
      PROVE  FeedbackInv'
  BY <1>3, AttachKeeps DEF F!SubmitTranscript
<1>4. ASSUME NEW r \in Editors, NEW f \in Feedbacks, F!ReadFeedback(r, f)
      PROVE  FeedbackInv'
  <2> DEFINE row == [phase |-> "edit", of |-> f, seen |-> feedback[f], moved |-> FALSE]
  <2>1. edit' = [edit EXCEPT ![r] = row] /\ UNCHANGED <<feedback, pointer, agent>>
        /\ feedback[f].status = "DRAFT"
    BY <1>4 DEF F!ReadFeedback
  <2>2. row \in F!Edits
    BY <1>0, <2>1, NoRowIsNone DEF F!FeedbackTypeOK, F!Edits
  <2>3. F!FeedbackTypeOK'
    BY <1>0, <2>1, <2>2 DEF F!FeedbackTypeOK
  <2>4. ReadInv'
    BY <1>0, <2>1 DEF F!FeedbackTypeOK, ReadInv
  <2> QED
    BY <2>3, <2>4 DEF FeedbackInv
<1>5. ASSUME NEW r \in Editors, NEW content \in Texts, F!Update(r, content)
      PROVE  FeedbackInv'
  <2>1. edit[r].phase = "edit"
    BY <1>5 DEF F!Update, F!Write
  <2>2. [edit[r].seen EXCEPT !.content = content] \in F!Rows
    BY <1>0, <2>1, EditShape DEF F!Rows
  <2> QED
    BY <1>5, <2>1, <2>2, WriteKeeps DEF F!Update
<1>6. ASSUME NEW r \in Editors, F!Submit(r)
      PROVE  FeedbackInv'
  <2>1. edit[r].phase = "edit"
    BY <1>6 DEF F!Submit, F!Write
  <2>2. [edit[r].seen EXCEPT !.status = "SUBMITTED"] \in F!Rows
    BY <1>0, <2>1, EditShape DEF F!Rows
  <2> QED
    BY <1>6, <2>1, <2>2, WriteKeeps DEF F!Submit
<1>7. ASSUME NEW r \in Editors, F!Abandon(r)
      PROVE  FeedbackInv'
  <2>1. edit' = [edit EXCEPT ![r] = F!None] /\ UNCHANGED <<feedback, pointer, agent>>
    BY <1>7 DEF F!Abandon
  <2>2. F!FeedbackTypeOK'
    BY <1>0, <1>n, <2>1 DEF F!FeedbackTypeOK
  <2>3. ReadInv'
    BY <1>0, <1>n, <2>1 DEF F!FeedbackTypeOK, ReadInv
  <2> QED
    BY <2>2, <2>3 DEF FeedbackInv
<1>8. ASSUME NEW s \in Slots, F!MoveSlot(s)
      PROVE  FeedbackInv'
  <2>1. edit' = F!SlotMoves(s) /\ UNCHANGED <<feedback, pointer, agent>>
    BY <1>8 DEF F!MoveSlot
  <2>2. edit' = [r \in Editors |-> edit'[r]] /\ \A r \in Editors : edit'[r] = F!SlotMoves(s)[r]
    BY <2>1 DEF F!SlotMoves
  <2>3. F!FeedbackTypeOK'
    <3>1. edit' \in [Editors -> F!Edits]
      BY <1>0, <2>2, SlotMovesKeeps
    <3> QED
      BY <1>0, <2>1, <3>1 DEF F!FeedbackTypeOK
  <2>4. ASSUME NEW p \in Editors
        PROVE  /\ edit'[p].phase \in {"create", "transcript"} /\ ~ edit'[p].moved =>
                    edit'[p].seen = pointer'[edit'[p].slot]
               /\ edit'[p].phase = "edit" =>
                    /\ edit'[p].seen.status = "DRAFT"
                    /\ ~ edit'[p].moved => edit'[p].seen = feedback'[edit'[p].of]
    <3>1. CASE edit'[p] = edit[p]
      BY <1>0, <2>1, <3>1 DEF ReadInv
    <3>2. CASE edit'[p].moved /\ edit'[p].phase \in {"create", "transcript"}
      BY <3>2
    <3> QED
      BY <1>0, <2>2, <3>1, <3>2, SlotMovesKeeps
  <2>5. ReadInv'
    BY <1>0, <2>1, <2>4 DEF ReadInv
  <2> QED
    BY <2>3, <2>5 DEF FeedbackInv
<1>9. ASSUME NEW f \in Feedbacks, F!AgentReads(f)
      PROVE  FeedbackInv'
  <2> DEFINE row == [phase |-> "asking", seen |-> feedback[f], moved |-> FALSE]
  <2>1. agent' = [agent EXCEPT ![f] = row] /\ UNCHANGED <<feedback, pointer, edit>>
        /\ agent[f] # F!None
    BY <1>9, <1>n DEF F!AgentReads
  <2>2. row \in F!Tasks
    BY <1>0, <2>1 DEF F!FeedbackTypeOK, F!Tasks, ReadInv
  <2>3. F!FeedbackTypeOK'
    BY <1>0, <2>1, <2>2 DEF F!FeedbackTypeOK
  <2>4. ReadInv'
    BY <1>0, <2>1 DEF F!FeedbackTypeOK, ReadInv
  <2> QED
    BY <2>3, <2>4 DEF FeedbackInv
<1>10. ASSUME NEW f \in Feedbacks, NEW content \in Texts \cup {NoContent},
              F!AgentAnswers(f, content)
       PROVE  FeedbackInv'
  <2> DEFINE row == [feedback[f] EXCEPT !.content = content]
  <2>1. /\ agent[f].phase = "asking"
        /\ feedback' = [feedback EXCEPT ![f] = row]
        /\ edit' = [p \in Editors |-> F!Moved(p, f)]
        /\ agent' = [agent EXCEPT ![f] = F!None]
        /\ UNCHANGED pointer
    BY <1>10 DEF F!AgentAnswers
  <2>2. feedback[f] # F!NoRow
    BY <1>0, <1>n, <2>1 DEF ReadInv
  <2>3. row \in F!Rows
    BY <1>0, <2>2 DEF F!FeedbackTypeOK, F!Rows
  <2>4. edit' = [p \in Editors |-> edit'[p]] /\ \A p \in Editors : edit'[p] = F!Moved(p, f)
    BY <2>1
  <2>5. agent' = [g \in Feedbacks |-> agent'[g]] /\ agent'[f] = F!None
        /\ \A g \in Feedbacks : g # f => agent'[g] = agent[g]
    BY <1>0, <2>1 DEF F!FeedbackTypeOK
  <2> HIDE DEF row
  <2> QED
    BY <2>1, <2>2, <2>3, <2>4, <2>5, RewriteKeeps
<1>11. ASSUME NEW f \in Feedbacks, F!AgentFails(f)
       PROVE  FeedbackInv'
  <2>1. agent' = [agent EXCEPT ![f] = F!None] /\ UNCHANGED <<feedback, pointer, edit>>
    BY <1>11 DEF F!AgentFails
  <2>2. F!FeedbackTypeOK'
    BY <1>0, <1>n, <2>1 DEF F!FeedbackTypeOK
  <2>3. ReadInv'
    BY <1>0, <1>n, <2>1 DEF F!FeedbackTypeOK, ReadInv
  <2> QED
    BY <2>2, <2>3 DEF FeedbackInv
<1>12. ASSUME UNCHANGED feedbackVars
       PROVE  FeedbackInv'
  BY <1>0, <1>12 DEF FeedbackInv, F!FeedbackTypeOK, ReadInv, feedbackVars
<1> QED
  BY <1>1, <1>2, <1>3, <1>4, <1>5, <1>6, <1>7, <1>8, <1>9, <1>10, <1>11, <1>12 DEF F!Next

LEMMA FeedbackInit ==
  ASSUME F!Init
  PROVE  FeedbackInv
  BY DEF F!Init, FeedbackInv, F!FeedbackTypeOK, ReadInv, F!Edits, F!Tasks, F!None

(* A step of the service keeps what both properties ask.                   *)
LEMMA ReplacedStep ==
  ASSUME FeedbackInv, F!Next, NEW s \in Slots, pointer'[s] # pointer[s]
  PROVE  \E r \in Editors : /\ edit[r].phase \in {"create", "transcript"}
                            /\ edit[r].slot = s /\ edit[r].seen = pointer[s]
                            /\ edit'[r] = F!None
<1>1. ASSUME NEW r \in Editors, NEW f \in Feedbacks, NEW content, NEW task,
             edit[r].phase \in {"create", "transcript"}, F!Attach(r, f, content, task)
      PROVE  /\ edit[r].phase \in {"create", "transcript"}
             /\ edit[r].slot = s /\ edit[r].seen = pointer[s]
             /\ edit'[r] = F!None
  <2>1. /\ ~ edit[r].moved
        /\ pointer' = [pointer EXCEPT ![edit[r].slot] = f]
        /\ edit' = [F!SlotMoves(edit[r].slot) EXCEPT ![r] = F!None]
    BY <1>1 DEF F!Attach
  <2>2. edit[r].slot = s
    BY <2>1 DEF FeedbackInv, F!FeedbackTypeOK
  <2>3. edit'[r] = F!None
    BY <2>1 DEF F!SlotMoves
  <2> QED
    BY <1>1, <2>1, <2>2, <2>3 DEF FeedbackInv, ReadInv
<1>2. \/ \E r \in Editors, f \in Feedbacks, content \in Texts : F!Create(r, f, content)
      \/ \E r \in Editors, f \in Feedbacks : F!SubmitTranscript(r, f)
      \/ UNCHANGED pointer
  BY DEF F!Next, F!ReadSlot, F!ReadFeedback, F!Update, F!Submit, F!Write, F!Abandon,
         F!MoveSlot, F!AgentReads, F!AgentAnswers, F!AgentFails
<1> QED
  BY <1>1, <1>2 DEF F!Create, F!SubmitTranscript

LEMMA SubmittedStep ==
  ASSUME FeedbackInv, F!Next, NEW f \in Feedbacks, feedback'[f] # feedback[f],
         "SUBMITTED" \in {feedback[f].status, feedback'[f].status}
  PROVE  \/ \E r \in Editors : /\ edit[r].phase = "edit" /\ edit[r].of = f
                               /\ edit[r].seen = feedback[f]
                               /\ feedback'[f] = [feedback[f] EXCEPT !.status = "SUBMITTED"]
         \/ agent[f].phase = "asking" /\ agent[f].seen = feedback[f]
<1>1. ASSUME NEW r \in Editors, NEW g \in Feedbacks, NEW content, NEW task,
             F!Attach(r, g, content, task)
      PROVE  FALSE
  <2>1. feedback[g] = F!NoRow /\ feedback' = [feedback EXCEPT ![g] =
           [slot |-> edit[r].slot, status |-> "DRAFT", content |-> content]]
    BY <1>1 DEF F!Attach
  <2>2. f = g /\ feedback'[f].status = "DRAFT"
    BY <2>1 DEF FeedbackInv, F!FeedbackTypeOK
  <2> QED
    BY <2>1, <2>2, NoRowIsNone
<1>2. ASSUME NEW r \in Editors, NEW row, F!Write(r, row)
      PROVE  /\ edit[r].phase = "edit" /\ edit[r].of = f /\ edit[r].seen = feedback[f]
             /\ feedback'[f] = row /\ feedback[f].status = "DRAFT" /\ feedback[f] \in F!Rows
  <2>1. /\ edit[r].phase = "edit" /\ ~ edit[r].moved
        /\ feedback' = [feedback EXCEPT ![edit[r].of] = row]
    BY <1>2 DEF F!Write
  <2>2. edit[r].of = f /\ feedback'[f] = row /\ edit[r].seen \in F!Rows
    BY <2>1, EditShape DEF FeedbackInv, F!FeedbackTypeOK
  <2> QED
    BY <2>1, <2>2 DEF FeedbackInv, ReadInv
<1>3. ASSUME NEW r \in Editors, NEW content \in Texts, F!Update(r, content)
      PROVE  FALSE
  <2>1. /\ edit[r].seen = feedback[f] /\ feedback[f].status = "DRAFT"
        /\ feedback[f] \in F!Rows
        /\ feedback'[f] = [edit[r].seen EXCEPT !.content = content]
    BY <1>2, <1>3 DEF F!Update
  <2> QED
    BY <2>1 DEF F!Rows
<1>4. ASSUME NEW r \in Editors, F!Submit(r)
      PROVE  /\ edit[r].phase = "edit" /\ edit[r].of = f
             /\ edit[r].seen = feedback[f]
             /\ feedback'[f] = [feedback[f] EXCEPT !.status = "SUBMITTED"]
  BY <1>2, <1>4 DEF F!Submit
<1>5. ASSUME NEW g \in Feedbacks, NEW content, F!AgentAnswers(g, content)
      PROVE  agent[f].phase = "asking" /\ agent[f].seen = feedback[f]
  <2>1. /\ agent[g].phase = "asking" /\ ~ agent[g].moved
        /\ feedback' = [feedback EXCEPT ![g].content = content]
    BY <1>5 DEF F!AgentAnswers
  <2>2. f = g
    BY <2>1 DEF FeedbackInv, F!FeedbackTypeOK
  <2> QED
    BY <2>1, <2>2 DEF FeedbackInv, ReadInv
<1>6. \/ \E r \in Editors, g \in Feedbacks, content \in Texts : F!Create(r, g, content)
      \/ \E r \in Editors, g \in Feedbacks : F!SubmitTranscript(r, g)
      \/ \E r \in Editors, content \in Texts : F!Update(r, content)
      \/ \E r \in Editors : F!Submit(r)
      \/ \E g \in Feedbacks, content \in Texts \cup {NoContent} : F!AgentAnswers(g, content)
      \/ UNCHANGED feedback
  BY DEF F!Next, F!ReadSlot, F!ReadFeedback, F!Abandon, F!MoveSlot, F!AgentReads, F!AgentFails
<1> QED
  BY <1>1, <1>3, <1>4, <1>5, <1>6 DEF F!Create, F!SubmitTranscript

(* create_feedback and submit_transcript attach a feedback to a slot only  *)
(* in the place of the one that they found there.                          *)
THEOREM ReplacedCorrect == F!Spec => ReplacedWasSeen
<1>1. FeedbackInv /\ [F!Next]_feedbackVars =>
        [\A s \in Slots : pointer'[s] # pointer[s] =>
           \E r \in Editors : /\ edit[r].phase \in {"create", "transcript"}
                              /\ edit[r].slot = s /\ edit[r].seen = pointer[s]
                              /\ edit'[r] = F!None]_feedbackVars
  BY ReplacedStep
<1> QED
  BY <1>1, FeedbackInit, FeedbackStep, PTL
     DEF F!Spec, ReplacedWasSeen, F!ReplacedWasSeen, feedbackVars, F!feedbackVars

(* update_feedback, submit_feedback and the agent's task: a feedback is    *)
(* submitted as it was read, and only a task that read it as submitted     *)
(* writes it afterwards.                                                   *)
THEOREM SubmittedCorrect == F!Spec => SubmittedIsAsRead
<1>1. FeedbackInv /\ [F!Next]_feedbackVars =>
        [\A f \in Feedbacks :
           feedback'[f] # feedback[f]
             /\ "SUBMITTED" \in {feedback[f].status, feedback'[f].status} =>
             \/ \E r \in Editors : /\ edit[r].phase = "edit" /\ edit[r].of = f
                                   /\ edit[r].seen = feedback[f]
                                   /\ feedback'[f] = [feedback[f] EXCEPT !.status = "SUBMITTED"]
             \/ agent[f].phase = "asking" /\ agent[f].seen = feedback[f]]_feedbackVars
  BY SubmittedStep
<1> QED
  BY <1>1, FeedbackInit, FeedbackStep, PTL
     DEF F!Spec, SubmittedIsAsRead, F!SubmittedIsAsRead, feedbackVars, F!feedbackVars

-----------------------------------------------------------------------------
(* CandidateData.  What refers to a candidate refers to a row that is      *)
(* there; a request of a data subject names one that was.                  *)
KeyInv ==
  /\ referred \subseteq D!Rows
  /\ \A r \in Resumes :
       D!Exists(resume[r]) => resume[r].owner \in D!Rows \cup {NoOne}

FiledInv ==
  /\ \A d \in Dsars : dsar[d] # D!Fresh =>
       /\ candidate[dsar[d].of] # D!Fresh
       /\ dsar[d].type = "ERASURE" /\ dsar[d].status = "COMPLETED" =>
            candidate[dsar[d].of] = D!Gone
  /\ \A w \in Workers : handling[w] # D!Idle => dsar[handling[w].of] # D!Fresh

(* What an answer brings has come to the owner of the resume.              *)
Brought(c, parsed) ==
  /\ c # NoOne
  /\ parsed.jobs => c \in referred
  /\ parsed.skills => c \in skilled

BroughtAt(r) ==
  /\ ingestion[r] # D!Idle => resume[r].status = "PENDING"
  /\ ingestion[r].phase = "completing" /\ ingestion[r].parsed.person # NoOne =>
       Brought(resume[r].owner, ingestion[r].parsed)
  /\ resume[r].status = "COMPLETED" /\ resume[r].parsed.person # NoOne =>
       Brought(resume[r].owner, resume[r].parsed)

BroughtInv == \A r \in Resumes : D!Exists(resume[r]) => BroughtAt(r)

DataInv == D!CandidateDataTypeOK /\ KeyInv /\ FiledInv /\ BroughtInv

-----------------------------------------------------------------------------
LEMMA RowShapes ==
  /\ D!Fresh \notin D!CandidateRows /\ D!Gone \notin D!CandidateRows
  /\ D!Fresh \notin D!ResumeRows /\ D!Gone \notin D!ResumeRows
  /\ D!Fresh \notin D!DsarRows /\ D!Fresh # D!Gone
  /\ D!Idle.phase = "idle" /\ D!Idle \in D!Ingestions
  /\ D!Unparsed \in D!Parsed
<1>1. \A row \in D!CandidateRows : row # D!Fresh /\ row # D!Gone
  <2> SUFFICES ASSUME NEW row \in D!CandidateRows
               PROVE  row # D!Fresh /\ row # D!Gone
    OBVIOUS
  <2>1. DOMAIN row = {"person", "deleted", "old"}
    BY DEF D!CandidateRows
  <2>2. DOMAIN D!Fresh = {"is"} /\ DOMAIN D!Gone = {"is"}
    BY DEF D!Fresh, D!Gone
  <2> QED
    BY <2>1, <2>2
<1>2. \A row \in D!ResumeRows : row # D!Fresh /\ row # D!Gone
  <2> SUFFICES ASSUME NEW row \in D!ResumeRows
               PROVE  row # D!Fresh /\ row # D!Gone
    OBVIOUS
  <2>1. DOMAIN row = {"status", "owner", "old", "parsed"}
    BY DEF D!ResumeRows
  <2>2. DOMAIN D!Fresh = {"is"} /\ DOMAIN D!Gone = {"is"}
    BY DEF D!Fresh, D!Gone
  <2> QED
    BY <2>1, <2>2
<1>3. \A row \in D!DsarRows : row # D!Fresh
  <2> SUFFICES ASSUME NEW row \in D!DsarRows
               PROVE  row # D!Fresh
    OBVIOUS
  <2>1. DOMAIN row = {"of", "type", "status"}
    BY DEF D!DsarRows
  <2>2. DOMAIN D!Fresh = {"is"}
    BY DEF D!Fresh
  <2> QED
    BY <2>1, <2>2
<1>4. D!Fresh # D!Gone
  <2>1. D!Fresh.is = "fresh" /\ D!Gone.is = "gone"
    BY DEF D!Fresh, D!Gone
  <2> QED
    BY <2>1
<1>5. D!Idle.phase = "idle" /\ D!Idle \in D!Ingestions
  BY DEF D!Idle, D!Ingestions
<1>6. D!Unparsed \in D!Parsed
  BY DEF D!Unparsed, D!Parsed
<1> QED
  BY <1>1, <1>2, <1>3, <1>4, <1>5, <1>6

LEMMA RowsAre ==
  ASSUME D!CandidateDataTypeOK
  PROVE  /\ \A c \in Ids : D!Exists(candidate[c]) <=> candidate[c] \in D!CandidateRows
         /\ \A c \in Ids : c \in D!Rows <=> candidate[c] \in D!CandidateRows
         /\ \A r \in Resumes : D!Exists(resume[r]) <=> resume[r] \in D!ResumeRows
         /\ \A d \in Dsars : dsar[d] # D!Fresh <=> dsar[d] \in D!DsarRows
         /\ D!Rows \subseteq Ids
  BY RowShapes DEF D!CandidateDataTypeOK, D!Exists, D!Rows

LEMMA IngestionShape ==
  ASSUME D!CandidateDataTypeOK, NEW r \in Resumes
  PROVE  /\ ingestion[r] = D!Idle <=> ingestion[r].phase = "idle"
         /\ ingestion[r].phase = "creating" =>
              ingestion[r].parsed \in D!Parsed /\ ingestion[r].parsed.person # NoOne
         /\ ingestion[r].phase = "completing" => ingestion[r].parsed \in D!Parsed
         /\ ingestion[r].phase = "applying" =>
              ingestion[r] \in [phase: {"applying"}, parsed: D!Parsed, of: Ids,
                                seen: D!CandidateRows]
  BY DEF D!CandidateDataTypeOK, D!Ingestions, D!Idle

LEMMA HandlingShape ==
  ASSUME D!CandidateDataTypeOK, NEW w \in Workers
  PROVE  /\ handling[w] = D!Idle <=> handling[w].phase = "idle"
         /\ handling[w] # D!Idle =>
              handling[w] \in [phase: {"process", "deny"}, of: Dsars, seen: D!DsarStatus]
  BY DEF D!CandidateDataTypeOK, D!Idle

-----------------------------------------------------------------------------
(* A step that removes no row of a candidate: what refers to one is there, *)
(* and each resume is as it was or as its own ingestion leaves it.         *)
SameResume(r) ==
  /\ D!Exists(resume[r])
  /\ resume'[r].owner = resume[r].owner
  /\ resume'[r].status = resume[r].status
  /\ resume'[r].parsed = resume[r].parsed
  /\ ingestion'[r] \in {ingestion[r], D!Idle}

LEMMA SameResumeKeeps ==
  ASSUME DataInv, NEW r \in Resumes, SameResume(r),
         referred \subseteq referred', skilled \subseteq skilled'
  PROVE  BroughtAt(r)'
<1>1. BroughtAt(r)
  BY DEF SameResume, DataInv, BroughtInv
<1>2. CASE ingestion'[r] = D!Idle
  BY <1>1, <1>2, RowShapes DEF SameResume, BroughtAt, Brought
<1>3. CASE ingestion'[r] = ingestion[r]
  BY <1>1, <1>3 DEF SameResume, BroughtAt, Brought
<1> QED
  BY <1>2, <1>3 DEF SameResume

LEMMA GrowthKeeps ==
  ASSUME DataInv, D!CandidateDataTypeOK',
         \A c \in Ids : /\ candidate'[c] = D!Fresh => candidate[c] = D!Fresh
                        /\ candidate[c] = D!Gone => candidate'[c] = D!Gone,
         D!Rows \subseteq D!Rows',
         referred \subseteq referred', referred' \subseteq D!Rows', skilled \subseteq skilled',
         \A r \in Resumes : D!Exists(resume'[r]) =>
           \/ SameResume(r)
           \/ resume'[r].owner \in D!Rows' \cup {NoOne} /\ BroughtAt(r)',
         UNCHANGED <<dsar, handling>>
  PROVE  DataInv'
<1>1. KeyInv'
  BY DEF DataInv, KeyInv, SameResume
<1>2. FiledInv'
  <2>1. \A d \in Dsars : dsar[d] # D!Fresh => dsar[d].of \in Ids
    BY RowsAre DEF DataInv, D!DsarRows
  <2> QED
    BY <2>1 DEF DataInv, FiledInv
<1>3. BroughtInv'
  <2> SUFFICES ASSUME NEW r \in Resumes, D!Exists(resume'[r])
               PROVE  BroughtAt(r)'
    BY DEF BroughtInv
  <2> QED
    BY SameResumeKeeps
<1> QED
  BY <1>1, <1>2, <1>3 DEF DataInv

(* A step that writes no row, and begins, goes on with or ends no          *)
(* ingestion but one: what the phase promises of the row holds of it.      *)
LEMMA TaskKeeps ==
  ASSUME DataInv, NEW r \in Resumes, NEW task \in D!Ingestions,
         D!Continue(r, task), UNCHANGED <<candidate, resume, referred, skilled, dsar, handling, purge>>,
         ingestion[r] # D!Idle,
         task.phase = "completing" => task.parsed.person = NoOne
  PROVE  DataInv'
<1>1. /\ ingestion' = [ingestion EXCEPT ![r] = task]
      /\ ingestion \in [Resumes -> D!Ingestions]
  BY DEF D!Continue, DataInv, D!CandidateDataTypeOK
<1>2. D!CandidateDataTypeOK'
  BY <1>1 DEF DataInv, D!CandidateDataTypeOK
<1>3. D!Rows' = D!Rows
  BY DEF D!Rows
<1>4. ASSUME NEW q \in Resumes, D!Exists(resume'[q])
      PROVE  resume'[q].owner \in D!Rows' \cup {NoOne} /\ BroughtAt(q)'
  <2>1. resume'[q].owner \in D!Rows' \cup {NoOne}
    BY <1>3, <1>4 DEF DataInv, KeyInv
  <2>2. BroughtAt(q)
    BY <1>4 DEF DataInv, BroughtInv
  <2>3. BroughtAt(q)'
    BY <1>1, <2>2, <1>4 DEF BroughtAt, Brought
  <2> QED
    BY <2>1, <2>3
<1> QED
  BY <1>2, <1>3, <1>4, GrowthKeeps DEF DataInv, KeyInv

-----------------------------------------------------------------------------
(* The rest of the system.                                                 *)
LEMMA CandidateWriteKeeps ==
  ASSUME DataInv, NEW c \in Ids, NEW row \in D!CandidateRows,
         candidate[c] # D!Gone, candidate' = [candidate EXCEPT ![c] = row],
         ingestion' \in [Resumes -> D!Ingestions],
         \A r \in Resumes :
           \/ ingestion'[r] = ingestion[r]
           \/ ingestion[r] # D!Idle /\ ingestion'[r].phase # "completing",
         UNCHANGED <<resume, referred, skilled, dsar, handling, purge>>
  PROVE  DataInv'
<1>1. candidate \in [Ids -> D!CandidateRows \cup {D!Fresh, D!Gone}]
  BY DEF DataInv, D!CandidateDataTypeOK
<1>2. D!CandidateDataTypeOK'
  <2>1. candidate' \in [Ids -> D!CandidateRows \cup {D!Fresh, D!Gone}]
    BY <1>1
  <2> QED
    BY <2>1 DEF DataInv, D!CandidateDataTypeOK
<1>3. \A b \in Ids : candidate'[b] = IF b = c THEN row ELSE candidate[b]
  BY <1>1
<1>4. D!Rows \subseteq D!Rows'
  <2>1. \A b \in Ids : D!Exists(candidate[b]) => D!Exists(candidate'[b])
    BY <1>3, RowShapes DEF D!Exists
  <2> QED
    BY <2>1 DEF D!Rows
<1>5. \A b \in Ids : /\ candidate'[b] = D!Fresh => candidate[b] = D!Fresh
                     /\ candidate[b] = D!Gone => candidate'[b] = D!Gone
  BY <1>3, RowShapes
<1>6. ASSUME NEW q \in Resumes, D!Exists(resume'[q])
      PROVE  resume'[q].owner \in D!Rows' \cup {NoOne} /\ BroughtAt(q)'
  <2>1. resume'[q].owner \in D!Rows' \cup {NoOne}
    BY <1>4, <1>6 DEF DataInv, KeyInv
  <2>2. BroughtAt(q)
    BY <1>6 DEF DataInv, BroughtInv
  <2>3. CASE ingestion'[q] = ingestion[q]
    BY <2>1, <2>2, <2>3 DEF BroughtAt, Brought
  <2>4. CASE ingestion[q] # D!Idle /\ ingestion'[q].phase # "completing"
    BY <2>1, <2>2, <2>4 DEF BroughtAt, Brought
  <2> QED
    BY <2>3, <2>4
<1> QED
  BY <1>2, <1>4, <1>5, <1>6, GrowthKeeps DEF DataInv, KeyInv

(* Ages are not looked at by what is claimed.                              *)
LEMMA AgeKeeps ==
  ASSUME DataInv, D!Age
  PROVE  DataInv'
<1>1. /\ candidate \in [Ids -> D!CandidateRows \cup {D!Fresh, D!Gone}]
      /\ resume \in [Resumes -> D!ResumeRows \cup {D!Fresh, D!Gone}]
      /\ D!Rows \subseteq Ids
      /\ UNCHANGED <<referred, skilled, dsar, ingestion, handling, purge>>
  BY RowsAre DEF DataInv, D!CandidateDataTypeOK, D!Age
<1>2. ASSUME NEW c \in D!Rows, candidate' = [candidate EXCEPT ![c].old = ~@], UNCHANGED resume
      PROVE  DataInv'
  <2> DEFINE row == [candidate[c] EXCEPT !.old = ~@]
  <2>1. row \in D!CandidateRows /\ candidate[c] # D!Gone
    <3>1. candidate[c] \in D!CandidateRows
      BY <1>1, RowsAre DEF DataInv
    <3> QED
      BY <3>1, RowShapes DEF D!CandidateRows
  <2>2. candidate' = [candidate EXCEPT ![c] = row]
    BY <1>2
  <2>3. ingestion' \in [Resumes -> D!Ingestions]
    BY <1>1 DEF DataInv, D!CandidateDataTypeOK
  <2> HIDE DEF row
  <2> QED
    BY <1>1, <1>2, <2>1, <2>2, <2>3, CandidateWriteKeeps
<1>3. ASSUME NEW r \in Resumes, D!Exists(resume[r]),
             resume' = [resume EXCEPT ![r].old = ~@], UNCHANGED candidate
      PROVE  DataInv'
  <2>1. resume[r] \in D!ResumeRows
    BY <1>3, RowsAre DEF DataInv
  <2>2. resume'[r] = [resume[r] EXCEPT !.old = ~@] /\ resume'[r] \in D!ResumeRows
    BY <1>1, <1>3, <2>1 DEF D!ResumeRows
  <2>3. \A q \in Resumes : q # r => resume'[q] = resume[q]
    BY <1>1, <1>3
  <2>4. D!CandidateDataTypeOK'
    <3>1. resume' \in [Resumes -> D!ResumeRows \cup {D!Fresh, D!Gone}]
      BY <1>1, <1>3, <2>2
    <3> QED
      BY <1>1, <1>3, <3>1 DEF DataInv, D!CandidateDataTypeOK
  <2>5. ASSUME NEW q \in Resumes, D!Exists(resume'[q])
        PROVE  SameResume(q)
    <3>1. CASE q = r
      BY <1>1, <1>3, <2>1, <2>2, <3>1 DEF SameResume, D!ResumeRows
    <3>2. CASE q # r
      BY <1>1, <2>3, <2>5, <3>2 DEF SameResume
    <3> QED
      BY <3>1, <3>2
  <2>6. D!Rows' = D!Rows
    BY <1>3 DEF D!Rows
  <2> QED
    BY <1>1, <1>3, <2>4, <2>5, <2>6, GrowthKeeps DEF DataInv, KeyInv
<1> QED
  BY <1>2, <1>3 DEF D!Age

LEMMA ElsewhereKeeps ==
  ASSUME DataInv, NEW c \in Ids,
         \/ \E person \in People : D!AddCandidate(c, person)
         \/ D!SoftDelete(c)
         \/ D!Refer(c)
         \/ \E d \in Dsars, type \in {"ACCESS", "ERASURE"} : D!File(d, c, type)
  PROVE  DataInv'
<1>0. /\ ingestion \in [Resumes -> D!Ingestions]
      /\ dsar \in [Dsars -> D!DsarRows \cup {D!Fresh}]
      /\ handling \in [Workers -> {D!Idle} \cup
            [phase: {"process", "deny"}, of: Dsars, seen: D!DsarStatus]]
      /\ referred \in SUBSET Ids
  BY DEF DataInv, D!CandidateDataTypeOK
<1>1. ASSUME NEW person \in People, D!AddCandidate(c, person)
      PROVE  DataInv'
  <2> DEFINE row == [person |-> person, deleted |-> FALSE, old |-> FALSE]
  <2>1. row \in D!CandidateRows
    BY DEF D!CandidateRows
  <2>2. /\ candidate[c] # D!Gone /\ candidate' = [candidate EXCEPT ![c] = row]
        /\ UNCHANGED <<resume, referred, skilled, dsar, ingestion, handling, purge>>
    BY <1>1, RowShapes DEF D!AddCandidate
  <2> HIDE DEF row
  <2> QED
    BY <1>0, <2>1, <2>2, CandidateWriteKeeps
<1>2. ASSUME D!SoftDelete(c)
      PROVE  DataInv'
  <2> DEFINE row == [candidate[c] EXCEPT !.deleted = TRUE]
  <2>1. /\ D!Exists(candidate[c]) /\ candidate' = [candidate EXCEPT ![c] = row]
        /\ UNCHANGED <<resume, referred, skilled, dsar, ingestion, handling, purge>>
    BY <1>2 DEF D!SoftDelete, D!Live
  <2>2. candidate[c] \in D!CandidateRows
    BY <2>1, RowsAre DEF DataInv
  <2>3. row \in D!CandidateRows
    BY <2>2 DEF D!CandidateRows
  <2> HIDE DEF row
  <2> QED
    BY <1>0, <2>1, <2>2, <2>3, RowShapes, CandidateWriteKeeps
<1>3. ASSUME D!Refer(c)
      PROVE  DataInv'
  <2>1. /\ c \in D!Rows /\ referred' = referred \cup {c}
        /\ UNCHANGED <<candidate, resume, skilled, dsar, ingestion, handling, purge>>
    BY <1>3 DEF D!Refer, D!Live, D!Rows
  <2>2. D!CandidateDataTypeOK' /\ D!Rows' = D!Rows
    BY <1>0, <2>1 DEF DataInv, D!CandidateDataTypeOK, D!Rows
  <2>3. \A r \in Resumes : D!Exists(resume'[r]) => SameResume(r)
    BY <2>1 DEF SameResume
  <2> QED
    BY <2>1, <2>2, <2>3, GrowthKeeps DEF DataInv, KeyInv
<1>4. ASSUME NEW d \in Dsars, NEW type \in {"ACCESS", "ERASURE"}, D!File(d, c, type)
      PROVE  DataInv'
  <2> DEFINE row == [of |-> c, type |-> type, status |-> "PENDING"]
  <2>1. /\ dsar[d] = D!Fresh /\ candidate[c] # D!Fresh
        /\ dsar' = [dsar EXCEPT ![d] = row]
        /\ UNCHANGED <<candidate, resume, referred, skilled, ingestion, handling, purge>>
    BY <1>4 DEF D!File
  <2>2. row \in D!DsarRows
    BY DEF D!DsarRows, D!DsarStatus
  <2>3. \A e \in Dsars : dsar'[e] = IF e = d THEN row ELSE dsar[e]
    BY <1>0, <2>1
  <2>4. D!CandidateDataTypeOK'
    <3>1. dsar' \in [Dsars -> D!DsarRows \cup {D!Fresh}]
      BY <1>0, <2>1, <2>2
    <3> QED
      BY <2>1, <3>1 DEF DataInv, D!CandidateDataTypeOK
  <2>5. FiledInv'
    <3>1. \A w \in Workers : handling[w] # D!Idle => handling[w].of \in Dsars
      BY HandlingShape DEF DataInv
    <3> QED
      BY <2>1, <2>2, <2>3, <3>1, RowShapes DEF DataInv, FiledInv
  <2>6. KeyInv' /\ BroughtInv'
    BY <2>1 DEF DataInv, KeyInv, BroughtInv, BroughtAt, Brought, D!Rows
  <2> QED
    BY <2>4, <2>5, <2>6 DEF DataInv
<1> QED
  BY <1>1, <1>2, <1>3, <1>4

-----------------------------------------------------------------------------
(* Ingestion.  A resume is written, and what its answer brings with it.    *)
LEMMA ResumeWriteKeeps ==
  ASSUME DataInv, NEW r \in Resumes, NEW row \in D!ResumeRows, NEW task \in D!Ingestions,
         resume' = [resume EXCEPT ![r] = row], D!Continue(r, task),
         row.owner \in D!Rows \cup {NoOne},
         referred \subseteq referred', referred' \subseteq D!Rows,
         skilled \subseteq skilled', skilled' \subseteq Ids,
         task # D!Idle => row.status = "PENDING",
         task.phase = "completing" /\ task.parsed.person # NoOne =>
           /\ row.owner # NoOne
           /\ task.parsed.jobs => row.owner \in referred'
           /\ task.parsed.skills => row.owner \in skilled',
         row.status = "COMPLETED" /\ row.parsed.person # NoOne =>
           /\ row.owner # NoOne
           /\ row.parsed.jobs => row.owner \in referred'
           /\ row.parsed.skills => row.owner \in skilled',
         UNCHANGED <<candidate, dsar, handling, purge>>
  PROVE  DataInv'
<1>1. /\ resume \in [Resumes -> D!ResumeRows \cup {D!Fresh, D!Gone}]
      /\ ingestion \in [Resumes -> D!Ingestions]
      /\ ingestion' = [ingestion EXCEPT ![r] = task]
      /\ D!Rows' = D!Rows /\ D!Rows \subseteq Ids
  BY RowsAre DEF DataInv, D!CandidateDataTypeOK, D!Continue, D!Rows
<1>2. D!CandidateDataTypeOK'
  <2>1. resume' \in [Resumes -> D!ResumeRows \cup {D!Fresh, D!Gone}]
    BY <1>1
  <2>2. ingestion' \in [Resumes -> D!Ingestions]
    BY <1>1
  <2>3. referred' \in SUBSET Ids /\ skilled' \in SUBSET Ids
    BY <1>1
  <2> QED
    BY <2>1, <2>2, <2>3 DEF DataInv, D!CandidateDataTypeOK
<1>3. ASSUME NEW q \in Resumes, D!Exists(resume'[q])
      PROVE  \/ SameResume(q)
             \/ resume'[q].owner \in D!Rows' \cup {NoOne} /\ BroughtAt(q)'
  <2>1. CASE q # r
    BY <1>1, <1>3, <2>1 DEF SameResume
  <2>2. CASE q = r
    <3>1. resume'[r] = row /\ ingestion'[r] = task
      BY <1>1
    <3>2. BroughtAt(r)'
      BY <3>1 DEF BroughtAt, Brought
    <3> QED
      BY <1>1, <2>2, <3>1, <3>2
  <2> QED
    BY <2>1, <2>2
<1> QED
  BY <1>1, <1>2, <1>3, GrowthKeeps

LEMMA UploadKeeps ==
  ASSUME DataInv, NEW r \in Resumes, NEW owner \in Ids \cup {NoOne}, D!Upload(r, owner)
  PROVE  DataInv'
<1> DEFINE row == [status |-> "PENDING", owner |-> owner, old |-> FALSE, parsed |-> D!Unparsed]
<1>1. /\ owner \in D!Rows \cup {NoOne}
      /\ resume' = [resume EXCEPT ![r] = row]
      /\ UNCHANGED <<candidate, referred, skilled, dsar, handling, purge>>
  BY DEF D!Upload
<1>2. PICK task \in {D!Idle, [phase |-> "queued"]} : D!Continue(r, task)
  BY DEF D!Upload
<1>3. /\ task \in D!Ingestions /\ task.phase # "completing"
      /\ row \in D!ResumeRows /\ row.owner = owner /\ row.status = "PENDING"
  BY <1>2, RowShapes DEF D!Ingestions, D!ResumeRows
<1> HIDE DEF row
<1>4. referred \subseteq D!Rows /\ skilled \subseteq Ids
  BY DEF DataInv, KeyInv, D!CandidateDataTypeOK
<1> QED
  BY <1>1, <1>2, <1>3, <1>4, ResumeWriteKeeps

LEMMA AskKeeps ==
  ASSUME DataInv, NEW r \in Resumes, D!Ask(r)
  PROVE  DataInv'
<1>1. PICK task \in {D!Idle, [phase |-> "asking"]} : D!Continue(r, task)
  BY DEF D!Ask
<1>2. task \in D!Ingestions /\ task.phase # "completing"
  BY <1>1, RowShapes DEF D!Ingestions
<1>3. ingestion[r] # D!Idle
      /\ UNCHANGED <<candidate, resume, referred, skilled, dsar, handling, purge>>
  <2>1. ingestion[r].phase = "queued"
    BY DEF D!Ask
  <2> QED
    BY <2>1, RowShapes DEF D!Ask, D!stored
<1> QED
  BY <1>1, <1>2, <1>3, TaskKeeps

LEMMA AnswerKeeps ==
  ASSUME DataInv, NEW r \in Resumes, NEW parsed \in D!Parsed, D!Answer(r, parsed)
  PROVE  DataInv'
<1>1. ingestion[r] # D!Idle
      /\ UNCHANGED <<candidate, resume, referred, skilled, dsar, handling, purge>>
  <2>1. ingestion[r].phase = "asking"
    BY DEF D!Answer
  <2> QED
    BY <2>1, RowShapes DEF D!Answer, D!stored
<1>2. CASE parsed.person = NoOne
           /\ D!Continue(r, [phase |-> "completing", parsed |-> parsed])
  <2> DEFINE task == [phase |-> "completing", parsed |-> parsed]
  <2>1. task \in D!Ingestions /\ task.parsed.person = NoOne /\ D!Continue(r, task)
    BY <1>2 DEF D!Ingestions
  <2> HIDE DEF task
  <2> QED
    BY <1>1, <2>1, TaskKeeps
<1>3. CASE parsed.person # NoOne
           /\ D!Continue(r, [phase |-> "creating", parsed |-> parsed])
  <2> DEFINE task == [phase |-> "creating", parsed |-> parsed]
  <2>1. task \in D!Ingestions /\ task.phase # "completing" /\ D!Continue(r, task)
    BY <1>3 DEF D!Ingestions
  <2> HIDE DEF task
  <2> QED
    BY <1>1, <2>1, TaskKeeps
<1>4. ASSUME NEW c \in D!Living(parsed.person),
             D!Continue(r, [phase |-> "applying", parsed |-> parsed, of |-> c,
                            seen |-> candidate[c]])
      PROVE  DataInv'
  <2> DEFINE task == [phase |-> "applying", parsed |-> parsed, of |-> c,
                      seen |-> candidate[c]]
  <2>1. c \in Ids /\ candidate[c] \in D!CandidateRows
    BY <1>4, RowsAre DEF D!Living, DataInv
  <2>2. task \in D!Ingestions /\ task.phase # "completing" /\ D!Continue(r, task)
    BY <1>4, <2>1 DEF D!Ingestions
  <2> HIDE DEF task
  <2> QED
    BY <1>1, <2>2, TaskKeeps
<1> QED
  BY <1>2, <1>3, <1>4 DEF D!Answer

LEMMA CreateCandidateKeeps ==
  ASSUME DataInv, NEW r \in Resumes, NEW c \in Ids, D!CreateCandidate(r, c)
  PROVE  DataInv'
<1> DEFINE row == [person |-> ingestion[r].parsed.person, deleted |-> FALSE, old |-> FALSE]
<1>1. /\ ingestion[r].phase = "creating"
      /\ candidate[c] = D!Fresh
      /\ candidate' = [candidate EXCEPT ![c] = row]
      /\ ingestion' = [ingestion EXCEPT ![r] = [phase |-> "created"]]
      /\ UNCHANGED <<resume, referred, skilled, dsar, handling, purge>>
  BY DEF D!CreateCandidate, D!Continue
<1>2. row \in D!CandidateRows
  <2>1. ingestion[r].parsed.person \in People
    BY <1>1, IngestionShape DEF DataInv, D!Parsed
  <2> QED
    BY <2>1 DEF D!CandidateRows
<1>3. ingestion' \in [Resumes -> D!Ingestions]
      /\ \A q \in Resumes :
           \/ ingestion'[q] = ingestion[q]
           \/ ingestion[q] # D!Idle /\ ingestion'[q].phase # "completing"
  <2>1. [phase |-> "created"] \in D!Ingestions
    BY DEF D!Ingestions
  <2> QED
    BY <1>1, <2>1, RowShapes DEF DataInv, D!CandidateDataTypeOK
<1> HIDE DEF row
<1> QED
  BY <1>1, <1>2, <1>3, RowShapes, CandidateWriteKeeps

LEMMA ApplyKeeps ==
  ASSUME DataInv, NEW r \in Resumes, D!Apply(r) \/ D!ApplyPartly(r)
  PROVE  DataInv'
<1> DEFINE i == ingestion[r]
           linked == [resume[r] EXCEPT !.owner = i.of]
<1>1. /\ i.phase = "applying" /\ D!Exists(resume[r]) /\ D!Exists(candidate[i.of])
      /\ UNCHANGED <<candidate, dsar, handling, purge>>
  BY DEF D!Apply, D!ApplyPartly, D!Unwritten
<1>2. /\ i.of \in D!Rows /\ i.of \in Ids /\ i.parsed \in D!Parsed
      /\ resume[r] \in D!ResumeRows /\ resume[r].status = "PENDING"
  <2>1. i.of \in Ids /\ i.parsed \in D!Parsed
    BY <1>1, IngestionShape DEF DataInv
  <2>2. resume[r].status = "PENDING"
    BY <1>1, RowShapes DEF DataInv, BroughtInv, BroughtAt
  <2> QED
    BY <1>1, <2>1, <2>2, RowsAre DEF DataInv, D!Rows
<1>3. i.of # NoOne
  BY <1>2, RecordsAssumption
<1>4. /\ linked \in D!ResumeRows /\ linked.owner = i.of /\ linked.status = "PENDING"
      /\ \A status \in {"COMPLETED", "FAILED"} :
           /\ [linked EXCEPT !.status = status] \in D!ResumeRows
           /\ [linked EXCEPT !.status = status].owner = i.of
           /\ [linked EXCEPT !.status = status].status = status
  BY <1>2 DEF D!ResumeRows
<1>5. /\ referred \subseteq D!Rows /\ skilled \subseteq Ids
      /\ (referred \cup {i.of}) \subseteq D!Rows /\ (skilled \cup {i.of}) \subseteq Ids
  BY <1>2 DEF DataInv, KeyInv, D!CandidateDataTypeOK
<1>6. D!Idle \in D!Ingestions /\ D!Idle.phase = "idle"
  BY RowShapes
<1>7. CASE D!Apply(r)
  <2> DEFINE R == IF i.parsed.jobs THEN referred \cup {i.of} ELSE referred
             S == IF i.parsed.skills THEN skilled \cup {i.of} ELSE skilled
  <2>1. /\ referred \subseteq R /\ R \subseteq D!Rows /\ skilled \subseteq S /\ S \subseteq Ids
        /\ i.parsed.jobs => i.of \in R
        /\ i.parsed.skills => i.of \in S
    BY <1>5
  <2>2. CASE i.parsed.skills
    <3> DEFINE task == [phase |-> "completing", parsed |-> i.parsed]
    <3>1. /\ resume' = [resume EXCEPT ![r] = linked] /\ D!Continue(r, task)
          /\ referred' = R /\ skilled' = S
      BY <1>7, <2>2 DEF D!Apply, D!Bring, D!Linked
    <3>2. task \in D!Ingestions /\ task.phase = "completing" /\ task.parsed = i.parsed
      BY <1>2 DEF D!Ingestions
    <3> HIDE DEF task, linked, R, S, i
    <3> QED
      BY <1>1, <1>2, <1>3, <1>4, <2>1, <3>1, <3>2, ResumeWriteKeeps
  <2>3. CASE ~ i.parsed.skills
    <3> DEFINE row == [linked EXCEPT !.status = "COMPLETED", !.parsed = i.parsed]
    <3>1. /\ resume' = [resume EXCEPT ![r] = row] /\ D!Continue(r, D!Idle)
          /\ referred' = R /\ skilled' = S
      BY <1>7, <2>3 DEF D!Apply, D!Bring, D!Linked, D!Completed
    <3>2. row \in D!ResumeRows /\ row.owner = i.of /\ row.parsed = i.parsed
      BY <1>2, <1>4 DEF D!ResumeRows
    <3> HIDE DEF row, linked, R, S, i
    <3> QED
      BY <1>1, <1>2, <1>3, <1>6, <2>1, <3>1, <3>2, ResumeWriteKeeps
  <2> QED
    BY <2>2, <2>3
<1>8. CASE D!ApplyPartly(r)
  <2> DEFINE row == [linked EXCEPT !.status = "FAILED"]
  <2>1. /\ resume' = [resume EXCEPT ![r] = row] /\ D!Continue(r, D!Idle)
        /\ referred' \in {referred, referred \cup {i.of}} /\ skilled' = skilled
    BY <1>8 DEF D!ApplyPartly, D!Linked
  <2>2. row \in D!ResumeRows /\ row.owner = i.of /\ row.status = "FAILED"
    BY <1>4
  <2> HIDE DEF row, linked, i
  <2> QED
    BY <1>1, <1>2, <1>5, <1>6, <2>1, <2>2, ResumeWriteKeeps
<1> QED
  BY <1>7, <1>8

LEMMA CompleteKeeps ==
  ASSUME DataInv, NEW r \in Resumes, D!Complete(r)
  PROVE  DataInv'
<1> DEFINE i == ingestion[r]
           row == [resume[r] EXCEPT !.status = "COMPLETED", !.parsed = i.parsed]
<1>1. /\ i.phase = "completing" /\ D!Exists(resume[r])
      /\ resume' = [resume EXCEPT ![r] = row] /\ D!Continue(r, D!Idle)
      /\ UNCHANGED <<candidate, referred, skilled, dsar, handling, purge>>
  BY DEF D!Complete, D!Completed
<1>2. /\ resume[r] \in D!ResumeRows /\ i.parsed \in D!Parsed
      /\ resume[r].owner \in D!Rows \cup {NoOne}
      /\ i.parsed.person # NoOne => Brought(resume[r].owner, i.parsed)
  BY <1>1, RowsAre, IngestionShape DEF DataInv, KeyInv, BroughtInv, BroughtAt
<1>3. /\ row \in D!ResumeRows /\ row.owner = resume[r].owner /\ row.parsed = i.parsed
      /\ row.status = "COMPLETED"
  BY <1>2 DEF D!ResumeRows
<1>4. /\ referred \subseteq D!Rows /\ skilled \subseteq Ids
      /\ D!Idle \in D!Ingestions /\ D!Idle.phase = "idle"
  BY RowShapes DEF DataInv, KeyInv, D!CandidateDataTypeOK
<1> HIDE DEF row, i
<1> QED
  BY <1>1, <1>2, <1>3, <1>4, ResumeWriteKeeps DEF Brought

LEMMA FailIngestionKeeps ==
  ASSUME DataInv, NEW r \in Resumes, D!FailIngestion(r)
  PROVE  DataInv'
<1>1. /\ ingestion[r] # D!Idle /\ D!Continue(r, D!Idle)
      /\ UNCHANGED <<candidate, referred, skilled, dsar, handling, purge>>
      /\ D!Idle \in D!Ingestions /\ D!Idle.phase = "idle"
  BY RowShapes DEF D!FailIngestion
<1>2. CASE UNCHANGED resume
  BY <1>1, <1>2, TaskKeeps
<1>3. CASE D!Exists(resume[r]) /\ resume' = [resume EXCEPT ![r].status = "FAILED"]
  <2> DEFINE row == [resume[r] EXCEPT !.status = "FAILED"]
  <2>1. resume[r] \in D!ResumeRows /\ resume[r].owner \in D!Rows \cup {NoOne}
    BY <1>3, RowsAre DEF DataInv, KeyInv
  <2>2. /\ row \in D!ResumeRows /\ row.owner = resume[r].owner /\ row.status = "FAILED"
        /\ resume' = [resume EXCEPT ![r] = row]
    BY <1>3, <2>1 DEF D!ResumeRows
  <2>3. referred \subseteq D!Rows /\ skilled \subseteq Ids
    BY DEF DataInv, KeyInv, D!CandidateDataTypeOK
  <2> HIDE DEF row
  <2> QED
    BY <1>1, <2>1, <2>2, <2>3, ResumeWriteKeeps
<1> QED
  BY <1>2, <1>3 DEF D!FailIngestion

-----------------------------------------------------------------------------
(* What is removed is removed with all that refers to it.                  *)
LEMMA RemoveKeeps ==
  ASSUME DataInv, NEW candidates, NEW resumes, D!Remove(candidates, resumes),
         \A c \in candidates \cap D!Rows : c \notin referred /\ D!Owned(c) \subseteq resumes,
         UNCHANGED <<referred, skilled, ingestion>>
  PROVE  /\ candidate' \in [Ids -> D!CandidateRows \cup {D!Fresh, D!Gone}]
         /\ resume' \in [Resumes -> D!ResumeRows \cup {D!Fresh, D!Gone}]
         /\ KeyInv' /\ BroughtInv'
         /\ \A c \in Ids : /\ candidate'[c] = D!Fresh => candidate[c] = D!Fresh
                           /\ candidate[c] = D!Gone => candidate'[c] = D!Gone
<1>1. /\ candidate \in [Ids -> D!CandidateRows \cup {D!Fresh, D!Gone}]
      /\ resume \in [Resumes -> D!ResumeRows \cup {D!Fresh, D!Gone}]
      /\ D!Rows \subseteq Ids
      /\ candidate' = [c \in Ids |->
           IF c \in candidates /\ candidate[c] # D!Fresh THEN D!Gone ELSE candidate[c]]
      /\ resume' = [r \in Resumes |-> IF r \in resumes THEN D!Gone ELSE resume[r]]
  BY RowsAre DEF DataInv, D!CandidateDataTypeOK, D!Remove
<1>2. /\ candidate' \in [Ids -> D!CandidateRows \cup {D!Fresh, D!Gone}]
      /\ resume' \in [Resumes -> D!ResumeRows \cup {D!Fresh, D!Gone}]
      /\ \A c \in Ids : /\ candidate'[c] = D!Fresh => candidate[c] = D!Fresh
                        /\ candidate[c] = D!Gone => candidate'[c] = D!Gone
  BY <1>1, RowShapes
<1>3. D!Rows \ candidates \subseteq D!Rows'
  <2>1. \A c \in Ids : c \notin candidates => candidate'[c] = candidate[c]
    BY <1>1
  <2> QED
    BY <2>1 DEF D!Rows
<1>4. ASSUME NEW r \in Resumes, D!Exists(resume'[r])
      PROVE  r \notin resumes /\ resume'[r] = resume[r] /\ D!Exists(resume[r])
  BY <1>1, <1>4 DEF D!Exists
<1>5. KeyInv'
  <2>1. referred' \subseteq D!Rows'
    BY <1>3 DEF DataInv, KeyInv
  <2>2. ASSUME NEW r \in Resumes, D!Exists(resume'[r])
        PROVE  resume'[r].owner \in D!Rows' \cup {NoOne}
    <3>1. resume[r].owner \in D!Rows \cup {NoOne} /\ resume'[r] = resume[r]
      BY <1>4, <2>2 DEF DataInv, KeyInv
    <3>2. resume[r].owner \in D!Rows => resume[r].owner \notin candidates
      BY <1>4, <2>2 DEF D!Owned
    <3> QED
      BY <1>3, <3>1, <3>2
  <2> QED
    BY <2>1, <2>2 DEF KeyInv
<1>6. BroughtInv'
  BY <1>4 DEF DataInv, BroughtInv, BroughtAt, Brought
<1> QED
  BY <1>2, <1>5, <1>6

(* A status is written, of a request that is there.                        *)
LEMMA StatusIsSet ==
  ASSUME DataInv, NEW w \in Workers, NEW status \in D!DsarStatus, D!SetStatus(w, status),
         handling[w] # D!Idle
  PROVE  /\ dsar' \in [Dsars -> D!DsarRows \cup {D!Fresh}]
         /\ \A d \in Dsars :
              /\ dsar'[d] = D!Fresh <=> dsar[d] = D!Fresh
              /\ dsar[d] # D!Fresh =>
                   /\ dsar'[d].of = dsar[d].of /\ dsar'[d].type = dsar[d].type
                   /\ \/ dsar'[d].status = dsar[d].status
                      \/ d = handling[w].of /\ dsar'[d].status = status
<1> DEFINE g == handling[w].of
<1>1. /\ g \in Dsars /\ dsar[g] \in D!DsarRows
      /\ dsar \in [Dsars -> D!DsarRows \cup {D!Fresh}]
  BY HandlingShape, RowsAre DEF DataInv, FiledInv, D!CandidateDataTypeOK
<1>2. CASE dsar' = dsar
  BY <1>1, <1>2
<1>3. CASE dsar' = [dsar EXCEPT ![g].status = status]
  <2>1. dsar'[g] = [dsar[g] EXCEPT !.status = status]
    BY <1>1, <1>3
  <2>2. /\ dsar'[g] \in D!DsarRows /\ dsar'[g].status = status
        /\ dsar'[g].of = dsar[g].of /\ dsar'[g].type = dsar[g].type
    BY <1>1, <2>1 DEF D!DsarRows
  <2>3. \A d \in Dsars : d # g => dsar'[d] = dsar[d]
    BY <1>1, <1>3
  <2>4. dsar' = [d \in Dsars |-> dsar'[d]]
    BY <1>1, <1>3
  <2>5. dsar' \in [Dsars -> D!DsarRows \cup {D!Fresh}]
    BY <1>1, <2>2, <2>3, <2>4
  <2> HIDE DEF g
  <2>6. ASSUME NEW d \in Dsars
        PROVE  /\ dsar'[d] = D!Fresh <=> dsar[d] = D!Fresh
               /\ dsar[d] # D!Fresh =>
                    /\ dsar'[d].of = dsar[d].of /\ dsar'[d].type = dsar[d].type
                    /\ \/ dsar'[d].status = dsar[d].status
                       \/ d = g /\ dsar'[d].status = status
    BY <1>1, <2>2, <2>3, RowShapes
  <2> QED
    BY <2>5, <2>6 DEF g
<1> QED
  BY <1>2, <1>3 DEF D!SetStatus

LEMMA HandleKeeps ==
  ASSUME DataInv, NEW w \in Workers,
         D!Access(w) \/ D!Erase(w) \/ D!Deny(w) \/ D!FailHandling(w)
  PROVE  DataInv'
<1>1. /\ handling[w] # D!Idle /\ handling' = [handling EXCEPT ![w] = D!Idle]
      /\ UNCHANGED <<referred, skilled, ingestion, purge>>
  BY RowShapes DEF D!Access, D!Erase, D!Deny, D!FailHandling, D!Handle, D!stored
<1>2. /\ handling' \in [Workers -> {D!Idle} \cup
           [phase: {"process", "deny"}, of: Dsars, seen: D!DsarStatus]]
      /\ \A v \in Workers : handling'[v] # D!Idle => handling'[v] = handling[v]
  BY <1>1 DEF DataInv, D!CandidateDataTypeOK
<1>g. handling[w].of \in Dsars /\ dsar[handling[w].of] \in D!DsarRows
      /\ dsar[handling[w].of].of \in Ids
  BY <1>1, HandlingShape, RowsAre DEF DataInv, FiledInv, D!DsarRows
<1>3. ASSUME UNCHANGED <<candidate, resume>>, NEW status \in D!DsarStatus,
             D!SetStatus(w, status),
             status = "COMPLETED" => dsar[handling[w].of].type # "ERASURE"
      PROVE  DataInv'
  <2>1. D!CandidateDataTypeOK'
    BY <1>1, <1>2, <1>3, StatusIsSet DEF DataInv, D!CandidateDataTypeOK
  <2>2. KeyInv' /\ BroughtInv'
    BY <1>1, <1>3 DEF DataInv, KeyInv, BroughtInv, BroughtAt, Brought, D!Rows
  <2>3. \A d \in Dsars : dsar'[d] # D!Fresh =>
          /\ candidate'[dsar'[d].of] # D!Fresh
          /\ dsar'[d].type = "ERASURE" /\ dsar'[d].status = "COMPLETED" =>
               candidate'[dsar'[d].of] = D!Gone
    BY <1>1, <1>3, StatusIsSet DEF DataInv, FiledInv
  <2>4. \A v \in Workers : handling'[v] # D!Idle => dsar'[handling'[v].of] # D!Fresh
    <3>1. \A v \in Workers : handling'[v] # D!Idle =>
            handling'[v].of \in Dsars /\ dsar[handling'[v].of] # D!Fresh
      BY <1>2, HandlingShape DEF DataInv, FiledInv
    <3> QED
      BY <1>1, <1>3, <3>1, StatusIsSet
  <2> QED
    BY <2>1, <2>2, <2>3, <2>4 DEF DataInv, FiledInv
<1>4. CASE D!Access(w)
  BY <1>3, <1>4 DEF D!Access, D!DsarStatus
<1>5. CASE D!Deny(w)
  BY <1>3, <1>5 DEF D!Deny, D!DsarStatus
<1>6. CASE D!Erase(w)
  <2> DEFINE c == dsar[handling[w].of].of
  <2>1. /\ D!Exists(candidate[c]) => c \notin referred
        /\ D!Remove({c}, D!Owned(c))
        /\ D!SetStatus(w, "COMPLETED")
    BY <1>6 DEF D!Erase
  <2>2. candidate[c] # D!Fresh /\ c \in Ids
    BY <1>g, RowShapes DEF DataInv, FiledInv
  <2>3. candidate'[c] = D!Gone
    BY <2>1, <2>2 DEF D!Remove
  <2>4. \A b \in {c} \cap D!Rows : b \notin referred /\ D!Owned(b) \subseteq D!Owned(c)
    BY <2>1 DEF D!Rows
  <2> HIDE DEF c
  <2>5. /\ candidate' \in [Ids -> D!CandidateRows \cup {D!Fresh, D!Gone}]
        /\ resume' \in [Resumes -> D!ResumeRows \cup {D!Fresh, D!Gone}]
        /\ KeyInv' /\ BroughtInv'
        /\ \A b \in Ids : /\ candidate'[b] = D!Fresh => candidate[b] = D!Fresh
                          /\ candidate[b] = D!Gone => candidate'[b] = D!Gone
    BY <1>1, <2>1, <2>4, RemoveKeeps
  <2>6. "COMPLETED" \in D!DsarStatus
    BY DEF D!DsarStatus
  <2>7. D!CandidateDataTypeOK'
    BY <1>1, <1>2, <2>1, <2>5, <2>6, StatusIsSet DEF DataInv, D!CandidateDataTypeOK
  <2>8. ASSUME NEW d \in Dsars, dsar'[d] # D!Fresh
        PROVE  /\ candidate'[dsar'[d].of] # D!Fresh
               /\ dsar'[d].type = "ERASURE" /\ dsar'[d].status = "COMPLETED" =>
                    candidate'[dsar'[d].of] = D!Gone
    <3>1. /\ dsar[d] # D!Fresh /\ dsar'[d].of = dsar[d].of /\ dsar'[d].type = dsar[d].type
          /\ dsar'[d].status = dsar[d].status \/ d = handling[w].of
      BY <1>1, <2>1, <2>6, <2>8, StatusIsSet
    <3>2. dsar[d].of \in Ids
      BY <3>1, RowsAre DEF DataInv, D!DsarRows
    <3> QED
      BY <2>3, <2>5, <3>1, <3>2 DEF DataInv, FiledInv, c
  <2>9. \A v \in Workers : handling'[v] # D!Idle => dsar'[handling'[v].of] # D!Fresh
    <3>1. \A v \in Workers : handling'[v] # D!Idle =>
            handling'[v].of \in Dsars /\ dsar[handling'[v].of] # D!Fresh
      BY <1>2, HandlingShape DEF DataInv, FiledInv
    <3> QED
      BY <1>1, <2>1, <2>6, <3>1, StatusIsSet
  <2> QED
    BY <2>5, <2>7, <2>8, <2>9 DEF DataInv, FiledInv
<1>7. CASE D!FailHandling(w)
  <2>1. UNCHANGED <<candidate, resume, dsar>>
    BY <1>7 DEF D!FailHandling, D!stored
  <2>2. D!CandidateDataTypeOK'
    BY <1>1, <1>2, <2>1 DEF DataInv, D!CandidateDataTypeOK
  <2>3. KeyInv' /\ BroughtInv'
    BY <1>1, <2>1 DEF DataInv, KeyInv, BroughtInv, BroughtAt, Brought, D!Rows
  <2>4. FiledInv'
    BY <1>2, <2>1 DEF DataInv, FiledInv
  <2> QED
    BY <2>2, <2>3, <2>4 DEF DataInv
<1> QED
  BY <1>4, <1>5, <1>6, <1>7

LEMMA ReadDsarKeeps ==
  ASSUME DataInv, NEW w \in Workers, NEW d \in Dsars, NEW phase \in {"process", "deny"},
         D!ReadDsar(w, d, phase)
  PROVE  DataInv'
<1> DEFINE row == [phase |-> phase, of |-> d, seen |-> dsar[d].status]
<1>1. /\ dsar[d] # D!Fresh /\ handling' = [handling EXCEPT ![w] = row]
      /\ UNCHANGED <<candidate, resume, referred, skilled, dsar, ingestion, purge>>
  BY DEF D!ReadDsar, D!Handle, D!stored
<1>2. row \in [phase: {"process", "deny"}, of: Dsars, seen: D!DsarStatus]
  BY <1>1, RowsAre DEF DataInv, D!DsarRows
<1>3. /\ handling \in [Workers -> {D!Idle} \cup
           [phase: {"process", "deny"}, of: Dsars, seen: D!DsarStatus]]
      /\ row.of = d
  BY DEF DataInv, D!CandidateDataTypeOK
<1> HIDE DEF row
<1>4. handling' \in [Workers -> {D!Idle} \cup
           [phase: {"process", "deny"}, of: Dsars, seen: D!DsarStatus]]
  BY <1>1, <1>2, <1>3
<1>5. D!CandidateDataTypeOK'
  BY <1>1, <1>4 DEF DataInv, D!CandidateDataTypeOK
<1>6. KeyInv' /\ BroughtInv'
  BY <1>1 DEF DataInv, KeyInv, BroughtInv, BroughtAt, Brought, D!Rows
<1>7. FiledInv'
  BY <1>1, <1>3 DEF DataInv, FiledInv
<1> QED
  BY <1>5, <1>6, <1>7 DEF DataInv

(* The retention sweep.                                                    *)
LEMMA SweepKeeps ==
  ASSUME DataInv, D!Select \/ D!Purge \/ D!FailSweep
  PROVE  DataInv'
<1>1. ASSUME UNCHANGED <<candidate, resume, referred, skilled, dsar, ingestion, handling>>,
             D!CandidateDataTypeOK'
      PROVE  DataInv'
  BY <1>1 DEF DataInv, KeyInv, FiledInv, BroughtInv, BroughtAt, Brought, D!Rows
<1>2. CASE D!Select
  <2> DEFINE seen == [r \in D!OldResumes |-> resume[r]]
             candidates == {c \in D!Rows : candidate[c].deleted /\ candidate[c].old}
  <2>1. /\ purge' = [phase |-> "delete", seen |-> seen, candidates |-> candidates]
        /\ UNCHANGED <<candidate, resume, referred, skilled, dsar, ingestion, handling>>
    BY <1>2 DEF D!Select, D!stored
  <2>2. seen \in [D!OldResumes -> D!ResumeRows] /\ D!OldResumes \in SUBSET Resumes
    BY RowsAre DEF DataInv, D!OldResumes
  <2>3. candidates \in SUBSET Ids
    BY RowsAre DEF DataInv
  <2> HIDE DEF seen, candidates
  <2>4. seen \in UNION {[found -> D!ResumeRows] : found \in SUBSET Resumes}
    BY <2>2
  <2>5. purge' \in [phase: {"delete"}, candidates: SUBSET Ids,
                    seen: UNION {[found -> D!ResumeRows] : found \in SUBSET Resumes}]
    BY <2>1, <2>3, <2>4
  <2>6. D!CandidateDataTypeOK'
    BY <2>1, <2>5 DEF DataInv, D!CandidateDataTypeOK
  <2> QED
    BY <1>1, <2>1, <2>6
<1>3. CASE D!FailSweep
  <2>1. UNCHANGED <<candidate, resume, referred, skilled, dsar, ingestion, handling>>
        /\ purge' = D!Idle
    BY <1>3 DEF D!FailSweep, D!stored
  <2>2. D!CandidateDataTypeOK'
    BY <2>1 DEF DataInv, D!CandidateDataTypeOK
  <2> QED
    BY <1>1, <2>1, <2>2
<1>4. CASE D!Purge
  <2> DEFINE present == {r \in DOMAIN purge.seen : D!Unwritten(resume[r], purge.seen[r])}
             candidates == purge.candidates
  <2>1. /\ \A c \in candidates \cap D!Rows :
             c \notin referred /\ D!Owned(c) \subseteq present
        /\ D!Remove(candidates, present)
        /\ purge' = D!Idle
        /\ UNCHANGED <<referred, skilled, dsar, ingestion, handling>>
    BY <1>4 DEF D!Purge
  <2> HIDE DEF present, candidates
  <2>2. /\ candidate' \in [Ids -> D!CandidateRows \cup {D!Fresh, D!Gone}]
        /\ resume' \in [Resumes -> D!ResumeRows \cup {D!Fresh, D!Gone}]
        /\ KeyInv' /\ BroughtInv'
        /\ \A c \in Ids : /\ candidate'[c] = D!Fresh => candidate[c] = D!Fresh
                          /\ candidate[c] = D!Gone => candidate'[c] = D!Gone
    BY <2>1, RemoveKeeps
  <2>3. D!CandidateDataTypeOK'
    BY <2>1, <2>2 DEF DataInv, D!CandidateDataTypeOK
  <2>4. FiledInv'
    <3>1. \A d \in Dsars : dsar[d] # D!Fresh => dsar[d].of \in Ids
      BY RowsAre DEF DataInv, D!DsarRows
    <3> QED
      BY <2>1, <2>2, <3>1 DEF DataInv, FiledInv
  <2> QED
    BY <2>2, <2>3, <2>4 DEF DataInv
<1> QED
  BY <1>2, <1>3, <1>4

LEMMA DataInit ==
  ASSUME D!Init
  PROVE  DataInv
<1>1. D!CandidateDataTypeOK
  BY RowShapes DEF D!Init, D!CandidateDataTypeOK
<1>2. /\ \A r \in Resumes : ~ D!Exists(resume[r])
      /\ referred = {}
      /\ \A d \in Dsars : dsar[d] = D!Fresh
      /\ \A w \in Workers : handling[w] = D!Idle
  BY DEF D!Init, D!Exists
<1> QED
  BY <1>1, <1>2 DEF DataInv, KeyInv, FiledInv, BroughtInv

(* One step per action.                                                    *)
LEMMA DataStep ==
  ASSUME DataInv, [D!Next]_(D!dataVars)
  PROVE  DataInv'
<1>1. CASE \E c \in Ids :
             \/ \E person \in People : D!AddCandidate(c, person)
             \/ D!SoftDelete(c)
             \/ D!Refer(c)
             \/ \E d \in Dsars, type \in {"ACCESS", "ERASURE"} : D!File(d, c, type)
  BY <1>1, ElsewhereKeeps
<1>2. CASE D!Age
  BY <1>2, AgeKeeps
<1>3. ASSUME NEW r \in Resumes,
             \/ \E owner \in Ids \cup {NoOne} : D!Upload(r, owner)
             \/ D!Ask(r)
             \/ \E parsed \in D!Parsed : D!Answer(r, parsed)
             \/ \E c \in Ids : D!CreateCandidate(r, c)
             \/ D!Apply(r)
             \/ D!ApplyPartly(r)
             \/ D!Complete(r)
             \/ D!FailIngestion(r)
      PROVE  DataInv'
  BY <1>3, UploadKeeps, AskKeeps, AnswerKeeps, CreateCandidateKeeps, ApplyKeeps,
     CompleteKeeps, FailIngestionKeeps
<1>4. ASSUME NEW w \in Workers,
             \/ \E d \in Dsars, phase \in {"process", "deny"} : D!ReadDsar(w, d, phase)
             \/ D!Access(w)
             \/ D!Erase(w)
             \/ D!Deny(w)
             \/ D!FailHandling(w)
      PROVE  DataInv'
  BY <1>4, ReadDsarKeeps, HandleKeeps
<1>5. CASE D!Select \/ D!Purge \/ D!FailSweep
  BY <1>5, SweepKeeps
<1>6. CASE UNCHANGED D!dataVars
  BY <1>6 DEF D!dataVars, D!stored, DataInv, D!CandidateDataTypeOK, KeyInv, FiledInv, BroughtInv,
              BroughtAt, Brought, D!Rows
<1> QED
  BY <1>1, <1>2, <1>3, <1>4, <1>5, <1>6 DEF D!Next

LEMMA DataProperties ==
  ASSUME DataInv
  PROVE  CompletedErasureIsDone /\ CompletedIsApplied
<1>1. ASSUME NEW d \in Dsars, D!Exists(dsar[d]), dsar[d].type = "ERASURE",
             dsar[d].status = "COMPLETED"
      PROVE  /\ candidate[dsar[d].of] = D!Gone
             /\ D!Owned(dsar[d].of) = {}
             /\ dsar[d].of \notin referred
  <2>1. dsar[d] # D!Fresh
    BY <1>1 DEF D!Exists
  <2>2. dsar[d].of \in Ids /\ candidate[dsar[d].of] = D!Gone
    BY <1>1, <2>1, RowsAre DEF DataInv, FiledInv, D!DsarRows
  <2>3. dsar[d].of \notin D!Rows /\ dsar[d].of # NoOne
    BY <2>2, RecordsAssumption DEF D!Rows, D!Exists
  <2> QED
    BY <2>2, <2>3 DEF DataInv, KeyInv, D!Owned
<1>2. ASSUME NEW r \in Resumes, D!Exists(resume[r]), resume[r].status = "COMPLETED",
             resume[r].parsed.person # NoOne
      PROVE  /\ resume[r].owner \in D!Rows
             /\ resume[r].parsed.jobs => resume[r].owner \in referred
             /\ resume[r].parsed.skills => resume[r].owner \in skilled
  BY <1>2 DEF DataInv, KeyInv, BroughtInv, BroughtAt, Brought
<1> QED
  BY <1>1, <1>2 DEF CompletedErasureIsDone, D!CompletedErasureIsDone,
                    CompletedIsApplied, D!CompletedIsApplied

(* process_erasure_dsar: where an erasure is COMPLETED there is no row of  *)
(* the candidate and none that refers to it.                               *)
THEOREM ErasureCorrect == D!Spec => []CompletedErasureIsDone
<1>1. D!Spec => []DataInv
  BY DataInit, DataStep, PTL DEF D!Spec
<1> QED
  BY <1>1, DataProperties, PTL

(* _run_ingestion: what the answer to a COMPLETED resume brought is there, *)
(* at its owner.                                                           *)
THEOREM IngestionCorrect == D!Spec => []CompletedIsApplied
<1>1. D!Spec => []DataInv
  BY DataInit, DataStep, PTL DEF D!Spec
<1> QED
  BY <1>1, DataProperties, PTL

-----------------------------------------------------------------------------
(* Reminders.                                                              *)

(* The arithmetic of the back-offs, which the provers do not know: a power *)
(* of two is the number of the subsets of a set.                           *)
LEMMA PowerIsCount ==
  ASSUME NEW n \in Nat
  PROVE  /\ IsFiniteSet(SUBSET (1..n))
         /\ 2^n = Cardinality(SUBSET (1..n))
         /\ 2^n \in Nat
<1>1. IsFiniteSet(1..n) /\ Cardinality(1..n) = n
  BY FS_Interval
<1>2. IsFiniteSet(SUBSET (1..n)) /\ Cardinality(SUBSET (1..n)) = 2^n
  BY <1>1, FS_SUBSET
<1> QED
  BY <1>2, FS_CardinalityType

LEMMA PowerGrows ==
  ASSUME NEW m \in Nat, NEW n \in Nat, m <= n
  PROVE  2^m <= 2^n /\ 2^m >= 1
<1>1. SUBSET (1..m) \subseteq SUBSET (1..n)
  OBVIOUS
<1>2. Cardinality(SUBSET (1..m)) <= Cardinality(SUBSET (1..n))
  BY <1>1, PowerIsCount, FS_Subset
<1>3. Cardinality(SUBSET (1..m)) # 0
  <2>1. {} \in SUBSET (1..m) /\ IsFiniteSet(SUBSET (1..m))
    BY PowerIsCount
  <2> QED
    BY <2>1, FS_EmptySet
<1>4. /\ 2^m = Cardinality(SUBSET (1..m)) /\ 2^m \in Nat
      /\ 2^n = Cardinality(SUBSET (1..n)) /\ 2^n \in Nat
  BY PowerIsCount
<1> QED
  BY <1>2, <1>3, <1>4

LEMMA PowerDoubles ==
  ASSUME NEW n \in Nat
  PROVE  2^(n + 1) = 2 * 2^n
<1> DEFINE Old == SUBSET (1..n)
           New == {X \cup {n + 1} : X \in Old}
           f == [X \in Old |-> X \cup {n + 1}]
<1>1. f \in Bijection(Old, New)
  <2>1. \A X \in Old : n + 1 \notin X
    OBVIOUS
  <2>2. f \in Injection(Old, New)
    <3>1. f \in [Old -> New]
      OBVIOUS
    <3>2. ASSUME NEW X \in Old, NEW Y \in Old, f[X] = f[Y] PROVE X = Y
      <4>1. X \cup {n + 1} = Y \cup {n + 1}
        BY <3>2
      <4> QED
        BY <2>1, <4>1
    <3> QED
      BY <3>1, <3>2 DEF Injection, IsInjective
  <2>3. f \in Surjection(Old, New)
    BY DEF Surjection
  <2> QED
    BY <2>2, <2>3 DEF Bijection
<1>2. IsFiniteSet(Old) /\ Cardinality(Old) = 2^n
  BY PowerIsCount
<1>3. IsFiniteSet(New) /\ Cardinality(New) = 2^n
  BY <1>1, <1>2, FS_Bijection DEF ExistsBijection
<1>4. Old \cap New = {}
  OBVIOUS
<1>5. SUBSET (1..(n + 1)) = Old \cup New
  <2>1. ASSUME NEW Y \in SUBSET (1..(n + 1)) PROVE Y \in Old \cup New
    <3>1. Y \ {n + 1} \in Old
      OBVIOUS
    <3>2. Y = Y \ {n + 1} \/ Y = (Y \ {n + 1}) \cup {n + 1}
      OBVIOUS
    <3> QED
      BY <3>1, <3>2
  <2>2. ASSUME NEW Y \in Old \cup New PROVE Y \in SUBSET (1..(n + 1))
    OBVIOUS
  <2> QED
    BY <2>1, <2>2
<1>6. Cardinality(Old \cup New) = 2^n + 2^n - 0
  <2> HIDE DEF Old, New
  <2>1. Cardinality(Old \cup New) = Cardinality(Old) + Cardinality(New) - Cardinality(Old \cap New)
    BY <1>2, <1>3, FS_Union
  <2>2. Cardinality(Old \cap New) = 0
    BY <1>4, FS_EmptySet
  <2> QED
    BY <1>2, <1>3, <2>1, <2>2
<1>7. 2^(n + 1) = Cardinality(SUBSET (1..(n + 1)))
  <2>1. n + 1 \in Nat
    OBVIOUS
  <2> QED
    BY <2>1, PowerIsCount
<1>8. 2^(n + 1) = 2^n + 2^n - 0
  BY <1>5, <1>6, <1>7
<1> HIDE DEF Old, New
<1> QED
  BY <1>8, PowerIsCount

(* Minutes from the first attempt of a delivery to another one.            *)
Elapsed(attempt) == 2 ^ (attempt - 1) - 1

LEMMA BackOffsAddUp ==
  /\ N!Total \in Nat
  /\ Elapsed(1) = 0
  /\ \A a \in 1..MaxAttempts : Elapsed(a) \in 0..N!Total
  /\ \A a \in 1..MaxAttempts :
       a < MaxAttempts =>
         /\ a + 1 \in 1..MaxAttempts
         /\ N!BackOff(a) \in 1..N!Total
         /\ Elapsed(a + 1) = Elapsed(a) + N!BackOff(a)
<1>1. MaxAttempts - 1 \in Nat
  BY RecordsAssumption
<1>2. \A a \in 1..MaxAttempts : /\ a - 1 \in Nat
                                /\ 2^(a - 1) \in Nat
                                /\ 1 <= 2^(a - 1)
                                /\ 2^(a - 1) <= 2^(MaxAttempts - 1)
  <2> TAKE a \in 1..MaxAttempts
  <2>1. a - 1 \in Nat /\ a - 1 <= MaxAttempts - 1
    BY RecordsAssumption
  <2> QED
    BY <1>1, <2>1, PowerGrows, PowerIsCount
<1>3. 2^(MaxAttempts - 1) \in Nat /\ 1 <= 2^(MaxAttempts - 1)
  BY <1>1, PowerGrows, PowerIsCount
<1>4. N!Total \in Nat
  BY <1>3 DEF N!Total
<1>5. \A a \in 1..MaxAttempts : Elapsed(a) \in 0..N!Total
  BY <1>2, <1>3 DEF Elapsed, N!Total
<1>6. Elapsed(1) = 0
  <2>1. 2^0 = 1
    OBVIOUS
  <2>2. 1 - 1 = 0
    OBVIOUS
  <2> QED
    BY <2>1, <2>2 DEF Elapsed
<1>7. ASSUME NEW a \in 1..MaxAttempts, a < MaxAttempts
      PROVE  /\ a + 1 \in 1..MaxAttempts
             /\ N!BackOff(a) \in 1..N!Total
             /\ Elapsed(a + 1) = Elapsed(a) + N!BackOff(a)
  <2>1. a + 1 \in 1..MaxAttempts
    BY <1>7, RecordsAssumption
  <2>2. (a + 1) - 1 = (a - 1) + 1
    OBVIOUS
  <2>3. 2^((a + 1) - 1) = 2 * 2^(a - 1)
    BY <1>2, <2>2, PowerDoubles
  <2>4. 2^((a + 1) - 1) <= 2^(MaxAttempts - 1)
    BY <1>2, <2>1
  <2>5. 2^(a - 1) \in Nat /\ 1 <= 2^(a - 1)
    BY <1>2
  <2>6. N!BackOff(a) \in 1..N!Total
    BY <1>3, <2>3, <2>4, <2>5 DEF N!BackOff, N!Total
  <2>7. Elapsed(a + 1) = Elapsed(a) + N!BackOff(a)
    BY <2>3, <2>5 DEF N!BackOff, Elapsed
  <2> QED
    BY <2>1, <2>6, <2>7
<1> QED
  BY <1>4, <1>5, <1>6, <1>7

-----------------------------------------------------------------------------
(* Types.                                                                  *)

(* A delivery that backs off has an attempt left, and its slot is not      *)
(* among those the sweep has still to come to.                             *)
DeliveryInv ==
  /\ sweep.phase = "backing" => sweep.attempt < MaxAttempts
  /\ sweep.phase \in {"trying", "backing"} => sweep.slot \notin sweep.found

LEMMA SweepShape ==
  ASSUME NEW sw \in N!Sweeps
  PROVE  /\ sw.phase \in {"asleep", "next", "trying", "backing"}
         /\ sw.phase = "asleep" => sw \in [phase: {"asleep"}, wait: 0..Interval]
         /\ sw.phase = "next" => sw \in [phase: {"next"}, found: SUBSET Interviews]
         /\ sw.phase = "trying" =>
              sw \in [phase: {"trying"}, found: SUBSET Interviews, slot: Interviews,
                         attempt: 1..MaxAttempts]
         /\ sw.phase = "backing" =>
              sw \in [phase: {"backing"}, found: SUBSET Interviews, slot: Interviews,
                         attempt: 1..MaxAttempts, wait: 0..N!Total]
  BY DEF N!Sweeps

LEMMA RemindersTypeInit ==
  ASSUME N!Init
  PROVE  N!TypeOK /\ DeliveryInv
<1>1. N!Total \in Nat
  BY BackOffsAddUp
<1>2. sweep \in N!Sweeps
  BY RecordsAssumption DEF N!Init, N!Asleep, N!Sweeps
<1> QED
  BY <1>1, <1>2, RecordsAssumption
     DEF N!Init, N!TypeOK, N!Asleep, N!Over, N!Horizon, DeliveryInv

LEMMA RemindersTypeStep ==
  ASSUME N!TypeOK, DeliveryInv, [N!Next]_(N!vars)
  PROVE  N!TypeOK' /\ DeliveryInv'
<1>1. N!Total \in Nat
  BY BackOffsAddUp
<1> USE DEF N!TypeOK
<1>2. N!Asleep \in N!Sweeps /\ N!Asleep.phase = "asleep"
  BY RecordsAssumption DEF N!Asleep, N!Sweeps
<1>3. ASSUME NEW s \in Interviews, NEW t \in 1..N!Horizon, N!Plan(s, t) PROVE N!TypeOK' /\ DeliveryInv'
  BY <1>1, <1>3, RecordsAssumption DEF N!Plan, N!Over, N!Horizon, DeliveryInv
<1>4. ASSUME NEW s \in Interviews, N!Change(s) PROVE N!TypeOK' /\ DeliveryInv'
  BY <1>4 DEF N!Change, DeliveryInv
<1>5. CASE N!Tick
  <2>1. left' \in [Interviews -> N!Over..N!Horizon]
    BY <1>1, <1>5, RecordsAssumption DEF N!Tick, N!Over, N!Horizon
  <2>2. open' \in [Interviews -> BOOLEAN] /\ waited' \in [Interviews -> Nat]
    BY <1>5 DEF N!Tick
  <2>3. sweep' \in N!Sweeps /\ DeliveryInv'
    <3>1. CASE sweep.phase = "asleep"
      <4>1. sweep' = [phase |-> "asleep", wait |-> sweep.wait - 1] /\ sweep.wait - 1 \in 0..Interval
        BY <1>5, <3>1, SweepShape, RecordsAssumption DEF N!Tick
      <4> QED
        BY <4>1 DEF N!Sweeps, DeliveryInv
    <3>2. CASE sweep.phase = "backing"
      <4>1. /\ sweep' = [sweep EXCEPT !.wait = sweep.wait - 1]
            /\ sweep.wait \in 0..N!Total /\ sweep.wait > 0
        BY <1>5, <3>2, SweepShape DEF N!Tick
      <4>2. sweep.wait - 1 \in 0..N!Total
        BY <1>1, <4>1
      <4>3. sweep' \in [phase: {"backing"}, found: SUBSET Interviews, slot: Interviews,
                        attempt: 1..MaxAttempts, wait: 0..N!Total]
        BY <3>2, <4>1, <4>2, SweepShape
      <4>4. /\ sweep'.phase = "backing" /\ sweep'.found = sweep.found
            /\ sweep'.slot = sweep.slot /\ sweep'.attempt = sweep.attempt
        BY <3>2, <4>1, SweepShape
      <4> QED
        BY <3>2, <4>3, <4>4 DEF N!Sweeps, DeliveryInv
    <3> QED
      BY <1>5, <3>1, <3>2 DEF N!Tick
  <2> QED
    BY <1>5, <2>1, <2>2, <2>3 DEF N!Tick
<1>6. CASE N!Select
  <2>1. sweep' = [phase |-> "next", found |-> {s \in Interviews : N!Due(s)}]
    BY <1>6 DEF N!Select
  <2> QED
    BY <1>6, <2>1 DEF N!Select, N!Sweeps, DeliveryInv
<1>7. ASSUME NEW s \in Interviews, N!Take(s) PROVE N!TypeOK' /\ DeliveryInv'
  <2>1. sweep.found \in SUBSET Interviews
    BY <1>7, SweepShape DEF N!Take
  <2>2. \/ sweep' = [phase |-> "next", found |-> N!Rest(s)]
        \/ sweep' = [phase |-> "trying", found |-> N!Rest(s), slot |-> s, attempt |-> 1]
    BY <1>7 DEF N!Take
  <2>3. N!Rest(s) \in SUBSET Interviews /\ s \notin N!Rest(s) /\ 1 \in 1..MaxAttempts
    BY <2>1, RecordsAssumption DEF N!Rest
  <2>4. sweep' \in N!Sweeps /\ DeliveryInv'
    BY <2>2, <2>3 DEF N!Sweeps, DeliveryInv
  <2> QED
    BY <1>7, <2>4 DEF N!Take
<1>8. CASE N!Deliver \/ N!GiveUp
  <2>1. sweep.phase = "trying" /\ sweep' = [phase |-> "next", found |-> sweep.found]
    BY <1>8 DEF N!Deliver, N!GiveUp, N!Loses
  <2>2. sweep.found \in SUBSET Interviews /\ sweep.slot \in Interviews
    BY <2>1, SweepShape
  <2>3. sweep' \in N!Sweeps /\ DeliveryInv'
    BY <2>1, <2>2 DEF N!Sweeps, DeliveryInv
  <2> QED
    BY <1>8, <2>2, <2>3 DEF N!Deliver, N!GiveUp, N!Loses
<1>9. CASE N!Retry
  <2>1. sweep.phase = "trying" /\ sweep.attempt < MaxAttempts /\ sweep' = N!BackAgain
    BY <1>9 DEF N!Retry, N!Loses
  <2>2. sweep.found \in SUBSET Interviews /\ sweep.slot \in Interviews /\ sweep.attempt \in 1..MaxAttempts
    BY <2>1, SweepShape
  <2>3. N!BackOff(sweep.attempt) \in 0..N!Total
    <3>1. N!BackOff(sweep.attempt) \in 1..N!Total
      BY <2>1, <2>2, BackOffsAddUp
    <3> QED
      BY <1>1, <3>1
  <2>4. sweep' \in N!Sweeps
    BY <2>1, <2>2, <2>3 DEF N!BackAgain, N!Sweeps
  <2>5. DeliveryInv'
    BY <2>1 DEF N!BackAgain, DeliveryInv
  <2> QED
    BY <1>9, <2>2, <2>4, <2>5 DEF N!Retry, N!Loses
<1>10. CASE N!Wake
  <2>1. /\ sweep.phase = "backing"
        /\ sweep' = [phase |-> "trying", found |-> sweep.found, slot |-> sweep.slot,
                     attempt |-> sweep.attempt + 1]
    BY <1>10 DEF N!Wake
  <2>2. /\ sweep.found \in SUBSET Interviews /\ sweep.slot \in Interviews
        /\ sweep.attempt \in 1..MaxAttempts /\ sweep.attempt < MaxAttempts
    BY <2>1, SweepShape DEF DeliveryInv
  <2>3. sweep.attempt + 1 \in 1..MaxAttempts
    BY <2>2, BackOffsAddUp
  <2>4. sweep' \in N!Sweeps /\ DeliveryInv'
    BY <2>1, <2>2, <2>3 DEF N!Sweeps, DeliveryInv
  <2> QED
    BY <1>10, <2>4 DEF N!Wake
<1>11. CASE N!Finish
  BY <1>2, <1>11 DEF N!Finish, DeliveryInv
<1>12. CASE N!Fail
  BY <1>2, <1>12, RecordsAssumption DEF N!Fail, DeliveryInv
<1>13. CASE UNCHANGED N!vars
  BY <1>13 DEF N!vars, DeliveryInv
<1> QED
  BY <1>3, <1>4, <1>5, <1>6, <1>7, <1>8, <1>9, <1>10, <1>11, <1>12, <1>13 DEF N!Next, N!Proceed, N!Attempt

(* Every reminder that is sent is well typed, and so is the loop.          *)
THEOREM RemindersTypeCorrect == N!Behaviour => []N!TypeOK
<1>1. N!Init => N!TypeOK /\ DeliveryInv
  BY RemindersTypeInit
<1>2. N!TypeOK /\ DeliveryInv /\ [N!Next]_(N!vars) => N!TypeOK' /\ DeliveryInv'
  BY RemindersTypeStep
<1> QED
  BY <1>1, <1>2, PTL DEF N!Behaviour

-----------------------------------------------------------------------------
(* Reminders are timely: between the first attempt, which looked at the    *)
(* clock, and this one lie the back-offs of this delivery and nothing else.*)
TimelyInv ==
  /\ sweep.phase = "trying" =>
       left[sweep.slot] \in -Elapsed(sweep.attempt)..Window
  /\ sweep.phase = "backing" =>
       left[sweep.slot] \in (sweep.wait - Elapsed(sweep.attempt + 1))..Window

LEMMA TimelyStep ==
  ASSUME N!TypeOK, DeliveryInv, TimelyInv, [N!Next]_(N!vars)
  PROVE  TimelyInv'
<1>1. N!Total \in Nat
  BY BackOffsAddUp
<1>2. sweep \in N!Sweeps /\ left \in [Interviews -> N!Over..N!Horizon]
  BY DEF N!TypeOK
<1>3. ASSUME NEW s \in Interviews, NEW t \in 1..N!Horizon, N!Plan(s, t) PROVE TimelyInv'
  <2>1. sweep' = sweep /\ left' = [left EXCEPT ![s] = t] /\ s \notin N!InHand
    BY <1>3 DEF N!Plan
  <2>2. sweep.phase \in {"trying", "backing"} => sweep.slot \in Interviews /\ sweep.slot # s
    BY <1>2, <2>1, SweepShape DEF N!InHand
  <2>3. sweep.phase \in {"trying", "backing"} => left'[sweep.slot] = left[sweep.slot]
    BY <1>2, <2>1, <2>2
  <2> QED
    BY <2>1, <2>3 DEF TimelyInv
<1>4. ASSUME UNCHANGED <<left, sweep>> PROVE TimelyInv'
  BY <1>4 DEF TimelyInv
<1>5. CASE N!Tick
  <2>1. CASE sweep.phase = "asleep"
    <3>1. sweep'.phase = "asleep"
      BY <1>2, <1>5, <2>1, SweepShape DEF N!Tick
    <3> QED
      BY <3>1 DEF TimelyInv
  <2>2. CASE sweep.phase = "backing"
    <3>1. /\ sweep' = [sweep EXCEPT !.wait = sweep.wait - 1]
          /\ sweep.wait \in 0..N!Total /\ sweep.wait > 0
          /\ sweep.slot \in Interviews /\ sweep.attempt \in 1..MaxAttempts
          /\ sweep.attempt < MaxAttempts
      BY <1>2, <1>5, <2>2, SweepShape DEF N!Tick, DeliveryInv
    <3>2. /\ sweep'.phase = "backing" /\ sweep'.slot = sweep.slot
          /\ sweep'.attempt = sweep.attempt /\ sweep'.wait = sweep.wait - 1
      BY <1>2, <2>2, <3>1, SweepShape
    <3>3. Elapsed(sweep.attempt + 1) \in 0..N!Total
      BY <3>1, BackOffsAddUp
    <3>4. left[sweep.slot] \in (sweep.wait - Elapsed(sweep.attempt + 1))..Window
      BY <2>2 DEF TimelyInv
    <3>5. left[sweep.slot] > N!Over
      BY <1>1, <3>1, <3>3, <3>4, RecordsAssumption DEF N!Over
    <3>6. left'[sweep.slot] = left[sweep.slot] - 1
      BY <1>5, <3>1, <3>5 DEF N!Tick
    <3>7. left'[sweep.slot] \in (sweep.wait - 1 - Elapsed(sweep.attempt + 1))..Window
      BY <1>1, <3>1, <3>3, <3>4, <3>6, RecordsAssumption
    <3> QED
      BY <3>2, <3>7 DEF TimelyInv
  <2> QED
    BY <1>5, <2>1, <2>2 DEF N!Tick
<1>6. ASSUME sweep'.phase \in {"asleep", "next"} PROVE TimelyInv'
  BY <1>6 DEF TimelyInv
<1>7. ASSUME NEW s \in Interviews, N!Take(s) PROVE TimelyInv'
  <2>1. CASE sweep' = [phase |-> "next", found |-> N!Rest(s)]
    BY <1>6, <2>1
  <2>2. CASE /\ N!Soon(s)
             /\ sweep' = [phase |-> "trying", found |-> N!Rest(s), slot |-> s, attempt |-> 1]
    <3>1. left'[s] \in 0..Window /\ Elapsed(1) = 0
      BY <1>7, <2>2, BackOffsAddUp DEF N!Take, N!Soon
    <3> QED
      BY <2>2, <3>1 DEF TimelyInv
  <2> QED
    BY <1>7, <2>1, <2>2 DEF N!Take
<1>8. CASE N!Retry
  <2>1. sweep.phase = "trying" /\ sweep.attempt < MaxAttempts /\ sweep' = N!BackAgain
        /\ left' = left
    BY <1>8 DEF N!Retry, N!Loses
  <2>2. sweep.attempt \in 1..MaxAttempts
    BY <1>2, <2>1, SweepShape
  <2>3. /\ Elapsed(sweep.attempt + 1) = Elapsed(sweep.attempt) + N!BackOff(sweep.attempt)
        /\ Elapsed(sweep.attempt) \in 0..N!Total
        /\ N!BackOff(sweep.attempt) \in 1..N!Total
    BY <2>1, <2>2, BackOffsAddUp
  <2>4. N!BackOff(sweep.attempt) - Elapsed(sweep.attempt + 1) = -Elapsed(sweep.attempt)
    BY <1>1, <2>3
  <2>5. /\ sweep'.phase = "backing" /\ sweep'.slot = sweep.slot
        /\ sweep'.attempt = sweep.attempt /\ sweep'.wait = N!BackOff(sweep.attempt)
    BY <2>1 DEF N!BackAgain
  <2> QED
    BY <2>1, <2>4, <2>5 DEF TimelyInv
<1>9. CASE N!Wake
  <2>1. /\ sweep.phase = "backing" /\ sweep.wait = 0 /\ left' = left
        /\ sweep' = [phase |-> "trying", found |-> sweep.found, slot |-> sweep.slot,
                     attempt |-> sweep.attempt + 1]
    BY <1>9 DEF N!Wake
  <2>2. Elapsed(sweep.attempt + 1) \in 0..N!Total
    BY <1>2, <2>1, BackOffsAddUp, SweepShape DEF DeliveryInv
  <2>3. 0 - Elapsed(sweep.attempt + 1) = -Elapsed(sweep.attempt + 1)
    BY <1>1, <2>2
  <2> QED
    BY <2>1, <2>3 DEF TimelyInv
<1>10. CASE \/ N!Select \/ N!Deliver \/ N!GiveUp \/ N!Finish \/ N!Fail
  BY <1>6, <1>10 DEF N!Select, N!Deliver, N!GiveUp, N!Loses, N!Finish, N!Fail, N!Asleep
<1>11. ASSUME NEW s \in Interviews, N!Change(s) PROVE TimelyInv'
  BY <1>4, <1>11 DEF N!Change
<1>12. CASE UNCHANGED N!vars
  BY <1>4, <1>12 DEF N!vars
<1> QED
  BY <1>3, <1>5, <1>7, <1>8, <1>9, <1>10, <1>11, <1>12 DEF N!Next, N!Proceed, N!Attempt

(* A reminder goes out within the window before the start, or, when it is  *)
(* retried, late by no more than the back-offs of its own delivery: those  *)
(* of the slots before it delay it without making it late.                 *)
THEOREM TimelyCorrect == N!Behaviour => []RemindersAreTimely
<1> DEFINE Inv == N!TypeOK /\ DeliveryInv /\ TimelyInv
<1>1. N!Init => Inv
  BY RemindersTypeInit DEF N!Init, N!Asleep, TimelyInv
<1>2. Inv /\ [N!Next]_(N!vars) => Inv'
  BY RemindersTypeStep, TimelyStep
<1>3. Inv => RemindersAreTimely
  <2> SUFFICES ASSUME Inv, sweep.phase = "trying"
               PROVE  left[sweep.slot] \in -N!Total..Window
    BY DEF RemindersAreTimely, N!RemindersAreTimely
  <2>1. sweep.slot \in Interviews /\ sweep.attempt \in 1..MaxAttempts
    BY SweepShape DEF N!TypeOK
  <2>2. Elapsed(sweep.attempt) \in 0..N!Total /\ N!Total \in Nat
    BY <2>1, BackOffsAddUp
  <2>3. left[sweep.slot] \in -Elapsed(sweep.attempt)..Window
    BY DEF TimelyInv
  <2> QED
    BY <2>2, <2>3, RecordsAssumption
<1> QED
  BY <1>1, <1>2, <1>3, PTL DEF N!Behaviour

-----------------------------------------------------------------------------
(* The wait of a slot that is due: whatever the sweep is doing, waited so  *)
(* far and still ahead of it add up to no more than the longest wait.      *)

(* The deliveries to these slots, each through all its back-offs.          *)
Cost(S) == Cardinality(S) * N!Total

(* Those to all slots but one.                                             *)
Detour == (Cardinality(Interviews) - 1) * N!Total

(* A sweep that comes to nothing.                                          *)
Round == Interval + Detour

Credit(fl) == (MaxFaults - fl) * Round

(* What is left of the delivery under way; its own does not keep a slot    *)
(* waiting.                                                                *)
Current(s, sw) ==
  IF sw.phase \in {"asleep", "next"} \/ sw.slot = s THEN 0
  ELSE IF sw.phase = "trying" THEN N!Total - Elapsed(sw.attempt)
  ELSE sw.wait + N!Total - Elapsed(sw.attempt + 1)

Ahead(s, sw, fl) ==
  IF sw.phase = "asleep" THEN sw.wait + Detour + Credit(fl)
  ELSE Cost(sw.found \ {s}) + Current(s, sw) + Credit(fl)
       + (IF s \in sw.found THEN 0 ELSE Round)

Sound(sw) ==
  /\ sw \in N!Sweeps
  /\ sw.phase \in {"trying", "backing"} => sw.slot \notin sw.found
  /\ sw.phase = "backing" =>
       sw.attempt < MaxAttempts /\ sw.wait <= Elapsed(sw.attempt + 1)

AheadInv ==
  \A s \in Interviews :
    /\ waited[s] <= N!LongestWait
    /\ N!Due(s) => waited[s] + Ahead(s, sweep, faults) <= N!LongestWait

LEMMA CostFacts ==
  ASSUME NEW S \in SUBSET Interviews
  PROVE  /\ Cost(S) \in Nat
         /\ \A x \in S : Cost(S) = Cost(S \ {x}) + N!Total
         /\ Cost({}) = 0
<1>1. IsFiniteSet(S) /\ Cardinality(S) \in Nat /\ N!Total \in Nat
  BY BackOffsAddUp, FS_Subset, FS_CardinalityType, RecordsAssumption
<1>2. Cost(S) \in Nat
  BY <1>1 DEF Cost
<1>3. ASSUME NEW x \in S PROVE Cost(S) = Cost(S \ {x}) + N!Total
  <2>1. Cardinality(S \ {x}) = Cardinality(S) - 1
    BY <1>1, FS_RemoveElement
  <2>2. \A c, t \in Nat : c * t = (c - 1) * t + t
    OBVIOUS
  <2> QED
    BY <1>1, <2>1, <2>2 DEF Cost
<1>4. Cost({}) = 0
  BY <1>1, FS_EmptySet DEF Cost
<1> QED
  BY <1>2, <1>3, <1>4

LEMMA CostOfOthers ==
  ASSUME NEW s \in Interviews
  PROVE  /\ Detour \in Nat
         /\ \A S \in SUBSET (Interviews \ {s}) : Cost(S) <= Detour
         /\ \A t \in Interviews \ {s} : \A S \in SUBSET (Interviews \ {s, t}) : Cost(S) + N!Total <= Detour
<1>1. N!Total \in Nat
  BY BackOffsAddUp
<1>2. /\ IsFiniteSet(Interviews \ {s})
      /\ Cardinality(Interviews \ {s}) = Cardinality(Interviews) - 1
      /\ Cardinality(Interviews \ {s}) \in Nat
  BY FS_RemoveElement, FS_CardinalityType, RecordsAssumption
<1>3. Detour = Cost(Interviews \ {s})
  BY <1>2 DEF Detour, Cost
<1>4. ASSUME NEW S \in SUBSET (Interviews \ {s}) PROVE Cost(S) <= Detour
  <2>1. Cardinality(S) <= Cardinality(Interviews \ {s}) /\ Cardinality(S) \in Nat
    BY <1>2, FS_Subset, FS_CardinalityType
  <2>2. \A a, b, t \in Nat : a <= b => a * t <= b * t
    OBVIOUS
  <2> QED
    BY <1>1, <1>2, <1>3, <2>1, <2>2 DEF Cost
<1>5. ASSUME NEW t \in Interviews \ {s}, NEW S \in SUBSET (Interviews \ {s, t})
      PROVE  Cost(S) + N!Total <= Detour
  <2>1. Cost(S \cup {t}) = Cost((S \cup {t}) \ {t}) + N!Total
    BY CostFacts
  <2>2. (S \cup {t}) \ {t} = S
    OBVIOUS
  <2>3. Cost(S \cup {t}) <= Detour
    BY <1>4
  <2> QED
    BY <2>1, <2>2, <2>3
<1>6. Detour \in Nat
  BY <1>3, CostFacts
<1> QED
  BY <1>4, <1>5, <1>6

LEMMA LongestWaitIs ==
  ASSUME NEW s \in Interviews
  PROVE  /\ N!LongestWait = MaxFaults * Round + Interval + Detour + Detour
         /\ Round \in Nat /\ N!LongestWait \in Nat
<1> DEFINE k == Cardinality(Interviews) - 1
<1>1. k \in Int /\ N!Total \in Int /\ MaxFaults \in Int /\ Interval \in Int
  BY BackOffsAddUp, FS_CardinalityType, RecordsAssumption
<1>2. \A m, i, n, t \in Int :
        (m + 1) * i + (m + 2) * n * t = m * (i + n * t) + i + n * t + n * t
  OBVIOUS
<1>3. N!LongestWait = (MaxFaults + 1) * Interval + (MaxFaults + 2) * k * N!Total
  BY DEF N!LongestWait, N!Cardinality, Cardinality
<1>4. Detour = k * N!Total
  BY DEF Detour
<1> HIDE DEF k
<1>5. N!LongestWait = MaxFaults * (Interval + k * N!Total) + Interval + k * N!Total + k * N!Total
  BY <1>1, <1>2, <1>3
<1>6. Round \in Nat
  BY CostOfOthers, RecordsAssumption DEF Round
<1>7. N!LongestWait = MaxFaults * Round + Interval + Detour + Detour
  BY <1>4, <1>5 DEF Round
<1>8. MaxFaults * Round \in Nat
  <2>1. \A m, r \in Nat : m * r \in Nat
    OBVIOUS
  <2> QED
    BY <1>6, <2>1, RecordsAssumption
<1> QED
  BY <1>6, <1>7, <1>8, CostOfOthers, RecordsAssumption

LEMMA CreditFacts ==
  ASSUME NEW s \in Interviews, NEW fl \in 0..MaxFaults
  PROVE  /\ Credit(fl) \in Nat
         /\ Credit(fl) <= MaxFaults * Round
         /\ fl < MaxFaults => Credit(fl) = Credit(fl + 1) + Round
<1>1. Round \in Nat /\ MaxFaults \in Nat
  BY LongestWaitIs, RecordsAssumption
<1>2. MaxFaults - fl \in Nat /\ fl \in Nat
  BY <1>1
<1>3. \A m, r \in Nat : m * r \in Nat
  OBVIOUS
<1>4. \A m, r, f \in Nat : f <= m => (m - f) * r <= m * r
  OBVIOUS
<1>5. \A m, r, f \in Nat : (m - f) * r = (m - (f + 1)) * r + r
  OBVIOUS
<1> QED
  BY <1>1, <1>2, <1>3, <1>4, <1>5 DEF Credit

LEMMA CurrentFacts ==
  ASSUME NEW s \in Interviews, NEW sw, Sound(sw)
  PROVE  Current(s, sw) \in 0..N!Total
<1>1. N!Total \in Nat
  BY BackOffsAddUp
<1>2. CASE sw.phase \in {"asleep", "next"} \/ sw.slot = s
  BY <1>1, <1>2 DEF Current
<1>3. CASE sw.phase = "trying" /\ sw.slot # s
  <2>1. Elapsed(sw.attempt) \in 0..N!Total
    BY <1>3, SweepShape, BackOffsAddUp DEF Sound
  <2> QED
    BY <1>1, <1>3, <2>1 DEF Current
<1>4. CASE sw.phase = "backing" /\ sw.slot # s
  <2>1. sw.attempt \in 1..MaxAttempts /\ sw.attempt < MaxAttempts /\ sw.wait \in 0..N!Total
    BY <1>4, SweepShape DEF Sound
  <2>2. Elapsed(sw.attempt + 1) \in 0..N!Total
    BY <2>1, BackOffsAddUp
  <2>3. sw.wait <= Elapsed(sw.attempt + 1)
    BY <1>4 DEF Sound
  <2> QED
    BY <1>1, <1>4, <2>1, <2>2, <2>3 DEF Current
<1> QED
  BY <1>2, <1>3, <1>4, SweepShape DEF Sound

(* What is ahead of a slot never exceeds the longest wait.                 *)
LEMMA AheadBound ==
  ASSUME NEW s \in Interviews, NEW sw, Sound(sw), NEW fl \in 0..MaxFaults
  PROVE  Ahead(s, sw, fl) \in 0..N!LongestWait
<1>1. /\ N!LongestWait = MaxFaults * Round + Interval + Detour + Detour
      /\ Round \in Nat /\ Round = Interval + Detour /\ Detour \in Nat
      /\ Credit(fl) \in Nat /\ Credit(fl) <= MaxFaults * Round
      /\ Interval \in Nat /\ MaxFaults * Round \in Nat
  <2>1. Round \in Nat /\ MaxFaults \in Nat /\ Interval \in Nat
    BY LongestWaitIs, RecordsAssumption
  <2>2. \A m, r \in Nat : m * r \in Nat
    OBVIOUS
  <2> QED
    BY <2>1, <2>2, LongestWaitIs, CreditFacts, CostOfOthers DEF Round
<1> DEFINE P == MaxFaults * Round
           Own == Cost(sw.found \ {s})
           Cur == Current(s, sw)
<1>2. CASE sw.phase = "asleep"
  <2>1. sw.wait \in 0..Interval
    BY <1>2, SweepShape DEF Sound
  <2>2. Ahead(s, sw, fl) = sw.wait + Detour + Credit(fl)
    BY <1>2 DEF Ahead
  <2> HIDE DEF P
  <2>3. P \in Nat /\ Credit(fl) <= P /\ N!LongestWait = P + Interval + Detour + Detour
    BY <1>1 DEF P
  <2> QED
    BY <1>1, <2>1, <2>2, <2>3
<1>3. CASE sw.phase # "asleep"
  <2>1. sw.found \in SUBSET Interviews
    BY <1>3, SweepShape DEF Sound
  <2>2. Own \in Nat /\ Own <= Detour
    BY <2>1, CostFacts, CostOfOthers
  <2>3. Cur \in Nat /\ N!Total \in Nat /\ Cur <= N!Total
    BY CurrentFacts, BackOffsAddUp
  <2>4. Own + Cur <= Detour
    <3>1. CASE sw.phase = "next" \/ sw.slot = s
      <4>1. Cur = 0
        BY <3>1 DEF Current
      <4> QED
        BY <2>2, <4>1
    <3>2. CASE sw.phase # "next" /\ sw.slot # s
      <4>1. sw.slot \in Interviews \ {s} /\ sw.found \ {s} \in SUBSET (Interviews \ {s, sw.slot})
        BY <1>3, <2>1, <3>2, SweepShape DEF Sound
      <4>2. Own + N!Total <= Detour
        BY <4>1, CostOfOthers
      <4> HIDE DEF Own, Cur
      <4> QED
        BY <1>1, <2>2, <2>3, <4>2
    <3> QED
      BY <3>1, <3>2
  <2>5. Ahead(s, sw, fl) = Own + Cur + Credit(fl) + (IF s \in sw.found THEN 0 ELSE Round)
    BY <1>3 DEF Ahead
  <2> HIDE DEF Own, Cur, P
  <2>6. P \in Nat /\ Credit(fl) <= P /\ N!LongestWait = P + Interval + Detour + Detour
    BY <1>1 DEF P
  <2> QED
    BY <1>1, <2>2, <2>3, <2>4, <2>5, <2>6
<1> QED
  BY <1>2, <1>3

(* What a step does to one slot: its wait begins anew, or nothing more     *)
(* comes to lie ahead of it, or a minute of its wait is over.              *)
LEMMA WaitOfOne ==
  ASSUME N!TypeOK, Sound(sweep), NEW s \in Interviews, [N!Next]_(N!vars)
  PROVE  \/ waited'[s] = 0
         \/ /\ waited'[s] = waited[s]
            /\ N!Due(s)' => /\ N!Due(s)
                            /\ Ahead(s, sweep', faults') <= Ahead(s, sweep, faults)
         \/ /\ N!Due(s)
            /\ waited'[s] = waited[s] + 1
            /\ Ahead(s, sweep', faults') + 1 <= Ahead(s, sweep, faults)
<1> DEFINE Kept == /\ waited'[s] = waited[s]
                   /\ N!Due(s)' => /\ N!Due(s)
                                   /\ Ahead(s, sweep', faults') <= Ahead(s, sweep, faults)
           Less == /\ N!Due(s)
                   /\ waited'[s] = waited[s] + 1
                   /\ Ahead(s, sweep', faults') + 1 <= Ahead(s, sweep, faults)
<1> SUFFICES waited'[s] = 0 \/ Kept \/ Less
  OBVIOUS
<1>1. /\ sweep \in N!Sweeps /\ faults \in 0..MaxFaults /\ waited \in [Interviews -> Nat]
      /\ left \in [Interviews -> N!Over..N!Horizon] /\ open \in [Interviews -> BOOLEAN]
  BY DEF N!TypeOK
<1>2. /\ N!Total \in Nat /\ Detour \in Nat /\ Interval \in Nat /\ Round \in Nat
      /\ Round = Interval + Detour /\ Credit(faults) \in Nat
  BY <1>1, BackOffsAddUp, CostOfOthers, LongestWaitIs, CreditFacts, RecordsAssumption
     DEF Round
<1>3. Current(s, sweep) \in 0..N!Total
  BY CurrentFacts
<1>4. sweep.phase # "asleep" =>
        /\ sweep.found \in SUBSET Interviews
        /\ Cost(sweep.found \ {s}) \in Nat /\ Cost(sweep.found \ {s}) <= Detour
        /\ Ahead(s, sweep, faults) =
             Cost(sweep.found \ {s}) + Current(s, sweep) + Credit(faults)
             + (IF s \in sweep.found THEN 0 ELSE Round)
  BY <1>1, SweepShape, CostFacts, CostOfOthers DEF Ahead
<1>5. sweep.phase = "asleep" =>
        sweep.wait \in 0..Interval /\ Ahead(s, sweep, faults) = sweep.wait + Detour + Credit(faults)
  BY <1>1, SweepShape DEF Ahead
<1>6. Ahead(s, sweep, faults) \in Nat
  BY <1>1, AheadBound
<1>7. ASSUME waited'[s] = waited[s], UNCHANGED <<left, open>>,
             N!Due(s) => Ahead(s, sweep', faults') <= Ahead(s, sweep, faults)
      PROVE  Kept
  BY <1>7 DEF N!Due, N!Soon
<1>8. ASSUME NEW t \in Interviews, NEW m \in 1..N!Horizon, N!Plan(t, m) PROVE waited'[s] = 0 \/ Kept
  <2>1. CASE t = s
    BY <1>1, <1>8, <2>1 DEF N!Plan
  <2>2. CASE t # s
    <3>1. waited'[s] = waited[s] /\ left'[s] = left[s] /\ open'[s] = open[s]
          /\ UNCHANGED <<sweep, faults>>
      BY <1>1, <1>8, <2>2 DEF N!Plan
    <3> QED
      BY <1>6, <3>1 DEF N!Due, N!Soon
  <2> QED
    BY <2>1, <2>2
<1>9. ASSUME NEW t \in Interviews, N!Change(t) PROVE waited'[s] = 0 \/ Kept
  <2>1. CASE t = s
    BY <1>1, <1>9, <2>1 DEF N!Change
  <2>2. CASE t # s
    <3>1. waited'[s] = waited[s] /\ left'[s] = left[s] /\ open'[s] = open[s]
          /\ UNCHANGED <<sweep, faults>>
      BY <1>1, <1>9, <2>2 DEF N!Change
    <3> QED
      BY <1>6, <3>1 DEF N!Due, N!Soon
  <2> QED
    BY <2>1, <2>2
<1>10. ASSUME N!Tick PROVE waited'[s] = 0 \/ Less
  <2>1. CASE ~(N!Due(s) /\ ~N!Backing(s))
    BY <1>10, <2>1 DEF N!Tick
  <2>2. CASE N!Due(s) /\ ~N!Backing(s)
    <3>1. waited'[s] = waited[s] + 1 /\ faults' = faults
      BY <1>10, <2>2 DEF N!Tick
    <3>2. CASE sweep.phase = "asleep"
      <4>1. sweep' = [phase |-> "asleep", wait |-> sweep.wait - 1]
        BY <1>1, <1>10, <3>2, SweepShape DEF N!Tick
      <4>2. Ahead(s, sweep', faults') = sweep.wait - 1 + Detour + Credit(faults)
        BY <3>1, <4>1 DEF Ahead
      <4> QED
        BY <1>2, <1>5, <2>2, <3>1, <3>2, <4>2
    <3>3. CASE sweep.phase = "backing"
      <4>1. /\ sweep' = [sweep EXCEPT !.wait = sweep.wait - 1]
            /\ sweep.wait \in 0..N!Total
            /\ sweep.attempt \in 1..MaxAttempts /\ sweep.attempt < MaxAttempts
            /\ sweep.slot # s
        BY <1>1, <1>10, <2>2, <3>3, SweepShape DEF N!Tick, N!Backing, Sound
      <4>2. /\ sweep'.phase = "backing" /\ sweep'.slot = sweep.slot /\ sweep'.found = sweep.found
            /\ sweep'.attempt = sweep.attempt /\ sweep'.wait = sweep.wait - 1
        BY <1>1, <3>3, <4>1, SweepShape
      <4>3. Elapsed(sweep.attempt + 1) \in 0..N!Total
        BY <4>1, BackOffsAddUp
      <4>4. /\ Current(s, sweep) = sweep.wait + N!Total - Elapsed(sweep.attempt + 1)
            /\ Current(s, sweep') = sweep.wait - 1 + N!Total - Elapsed(sweep.attempt + 1)
        BY <3>3, <4>1, <4>2 DEF Current
      <4>5. Current(s, sweep') = Current(s, sweep) - 1
        BY <1>2, <4>1, <4>3, <4>4
      <4>6. Ahead(s, sweep', faults') =
              Cost(sweep.found \ {s}) + Current(s, sweep') + Credit(faults)
              + (IF s \in sweep.found THEN 0 ELSE Round)
        BY <3>1, <4>2 DEF Ahead
      <4> QED
        BY <1>2, <1>3, <1>4, <2>2, <3>1, <3>3, <4>5, <4>6
    <3> QED
      BY <1>10, <3>2, <3>3 DEF N!Tick
  <2> QED
    BY <2>1, <2>2
<1>11. ASSUME N!Select PROVE Kept
  <2>1. /\ sweep.phase = "asleep" /\ sweep.wait = 0
        /\ sweep' = [phase |-> "next", found |-> {t \in Interviews : N!Due(t)}]
        /\ UNCHANGED <<left, open, faults, waited>>
    BY <1>11 DEF N!Select
  <2>2. ASSUME N!Due(s) PROVE Ahead(s, sweep', faults') <= Ahead(s, sweep, faults)
    <3> DEFINE found == {t \in Interviews : N!Due(t)}
    <3>1. s \in found /\ found \in SUBSET Interviews
      BY <2>2
    <3>2. sweep'.phase = "next" /\ sweep'.found = found
      BY <2>1
    <3> HIDE DEF found
    <3>3. Current(s, sweep') = 0
      BY <3>2 DEF Current
    <3>4. Cost(found \ {s}) \in Nat /\ Cost(found \ {s}) <= Detour
      BY <3>1, CostFacts, CostOfOthers
    <3>5. Ahead(s, sweep', faults') = Cost(found \ {s}) + 0 + Credit(faults) + 0
      BY <2>1, <3>1, <3>2, <3>3 DEF Ahead
    <3> QED
      BY <1>2, <1>5, <2>1, <3>4, <3>5
  <2> QED
    BY <1>7, <2>1, <2>2
<1>12. ASSUME NEW t \in Interviews, N!Take(t) PROVE waited'[s] = 0 \/ Kept
  <2>1. CASE t = s
    BY <1>1, <1>12, <2>1 DEF N!Take
  <2>2. CASE t # s
    <3>1. /\ sweep.phase = "next" /\ t \in sweep.found /\ waited'[s] = waited[s]
          /\ UNCHANGED <<left, open, faults>>
      BY <1>1, <1>12, <2>2 DEF N!Take
    <3>2. /\ sweep'.phase \in {"next", "trying"} /\ sweep'.found = sweep.found \ {t}
          /\ sweep'.phase = "trying" => sweep'.slot = t /\ sweep'.attempt = 1
      BY <1>12 DEF N!Take, N!Rest
    <3>3. Current(s, sweep') <= N!Total /\ Current(s, sweep') \in Nat
      <4>1. Elapsed(1) = 0
        BY BackOffsAddUp
      <4> QED
        BY <1>2, <2>2, <3>2, <4>1 DEF Current
    <3>4. Cost(sweep.found \ {s}) = Cost(sweep'.found \ {s}) + N!Total
      <4>1. t \in sweep.found \ {s} /\ sweep.found \ {s} \in SUBSET Interviews
        BY <1>4, <2>2, <3>1
      <4>2. (sweep.found \ {s}) \ {t} = sweep'.found \ {s}
        BY <3>2
      <4> QED
        BY <4>1, <4>2, CostFacts
    <3>5. Cost(sweep'.found \ {s}) \in Nat
      BY <1>4, <3>1, <3>2, CostFacts
    <3>6. Ahead(s, sweep', faults') =
            Cost(sweep'.found \ {s}) + Current(s, sweep') + Credit(faults)
            + (IF s \in sweep.found THEN 0 ELSE Round)
      BY <2>2, <3>1, <3>2 DEF Ahead
    <3>7. Ahead(s, sweep', faults') <= Ahead(s, sweep, faults)
      BY <1>2, <1>3, <1>4, <3>1, <3>3, <3>4, <3>5, <3>6
    <3> QED
      BY <1>7, <3>1, <3>7
  <2> QED
    BY <2>1, <2>2
(* The rest of a delivery: what is found stays, and Current does not grow. *)
<1>13. ASSUME sweep.phase \in {"trying", "backing"}, sweep'.phase # "asleep",
              sweep'.found = sweep.found, UNCHANGED <<left, open, faults, waited>>,
              Current(s, sweep') \in Nat, Current(s, sweep') <= Current(s, sweep)
       PROVE  Kept
  <2>1. Ahead(s, sweep', faults') =
          Cost(sweep.found \ {s}) + Current(s, sweep') + Credit(faults)
          + (IF s \in sweep.found THEN 0 ELSE Round)
    BY <1>13 DEF Ahead
  <2>2. Ahead(s, sweep', faults') <= Ahead(s, sweep, faults)
    BY <1>2, <1>3, <1>4, <1>13, <2>1
  <2> QED
    BY <1>7, <1>13, <2>2
<1>14. ASSUME N!Deliver \/ N!GiveUp PROVE Kept
  <2>1. /\ sweep.phase = "trying" /\ sweep'.phase = "next" /\ sweep'.found = sweep.found
        /\ UNCHANGED <<left, open, faults, waited>>
    BY <1>14 DEF N!Deliver, N!GiveUp, N!Loses
  <2>2. Current(s, sweep') = 0
    BY <2>1 DEF Current
  <2> QED
    BY <1>3, <1>13, <2>1, <2>2
<1>15. ASSUME N!Retry PROVE Kept
  <2>1. /\ sweep.phase = "trying" /\ sweep.attempt < MaxAttempts
        /\ sweep'.phase = "backing" /\ sweep'.found = sweep.found
        /\ sweep'.slot = sweep.slot /\ sweep'.attempt = sweep.attempt
        /\ sweep'.wait = N!BackOff(sweep.attempt)
        /\ UNCHANGED <<left, open, faults, waited>>
    BY <1>15 DEF N!Retry, N!Loses, N!BackAgain
  <2>2. /\ Elapsed(sweep.attempt + 1) = Elapsed(sweep.attempt) + N!BackOff(sweep.attempt)
        /\ Elapsed(sweep.attempt) \in 0..N!Total /\ N!BackOff(sweep.attempt) \in 1..N!Total
    BY <1>1, <2>1, SweepShape, BackOffsAddUp
  <2>3. Current(s, sweep') = Current(s, sweep)
    <3>1. CASE sweep.slot = s
      BY <2>1, <3>1 DEF Current
    <3>2. CASE sweep.slot # s
      <4>1. /\ Current(s, sweep) = N!Total - Elapsed(sweep.attempt)
            /\ Current(s, sweep') =
                 N!BackOff(sweep.attempt) + N!Total - Elapsed(sweep.attempt + 1)
        BY <2>1, <3>2 DEF Current
      <4> QED
        BY <1>2, <2>2, <4>1
    <3> QED
      BY <3>1, <3>2
  <2> QED
    BY <1>3, <1>13, <2>1, <2>3
<1>16. ASSUME N!Wake PROVE Kept
  <2>1. /\ sweep.phase = "backing" /\ sweep.wait = 0
        /\ sweep'.phase = "trying" /\ sweep'.found = sweep.found
        /\ sweep'.slot = sweep.slot /\ sweep'.attempt = sweep.attempt + 1
        /\ UNCHANGED <<left, open, faults, waited>>
    BY <1>16 DEF N!Wake
  <2>2. Elapsed(sweep.attempt + 1) \in 0..N!Total
    BY <2>1, SweepShape, BackOffsAddUp DEF Sound
  <2>3. Current(s, sweep') = Current(s, sweep)
    <3>1. CASE sweep.slot = s
      BY <2>1, <3>1 DEF Current
    <3>2. CASE sweep.slot # s
      <4>1. /\ Current(s, sweep) = 0 + N!Total - Elapsed(sweep.attempt + 1)
            /\ Current(s, sweep') = N!Total - Elapsed(sweep.attempt + 1)
        BY <2>1, <3>2 DEF Current
      <4> QED
        BY <1>2, <2>2, <4>1
    <3> QED
      BY <3>1, <3>2
  <2> QED
    BY <1>3, <1>13, <2>1, <2>3
<1>17. ASSUME N!Finish PROVE Kept
  <2>1. /\ sweep.phase = "next" /\ sweep.found = {} /\ sweep' = N!Asleep
        /\ UNCHANGED <<left, open, faults, waited>>
    BY <1>17 DEF N!Finish
  <2>2. Ahead(s, sweep', faults') = Interval + Detour + Credit(faults)
    BY <2>1 DEF Ahead, N!Asleep
  <2>3. Ahead(s, sweep, faults) >= Credit(faults) + Round
    BY <1>2, <1>3, <1>4, <2>1
  <2> QED
    BY <1>2, <1>7, <2>1, <2>2, <2>3
<1>18. ASSUME N!Fail PROVE Kept
  <2>1. /\ faults < MaxFaults /\ faults' = faults + 1 /\ sweep' = N!Asleep
        /\ UNCHANGED <<left, open, waited>>
    BY <1>18 DEF N!Fail
  <2>2. Credit(faults) = Credit(faults + 1) + Round /\ Credit(faults + 1) \in Nat
    <3>1. faults + 1 \in 0..MaxFaults
      BY <1>1, <2>1, RecordsAssumption
    <3> QED
      BY <1>1, <2>1, <3>1, CreditFacts
  <2>3. Ahead(s, sweep', faults') = Interval + Detour + Credit(faults + 1)
    BY <2>1 DEF Ahead, N!Asleep
  <2>4. Ahead(s, sweep, faults) >= Credit(faults)
    BY <1>1, <1>2, <1>3, <1>4, <1>5, SweepShape
  <2> QED
    BY <1>2, <1>6, <1>7, <2>1, <2>2, <2>3, <2>4
<1>19. ASSUME UNCHANGED N!vars PROVE Kept
  BY <1>6, <1>7, <1>19 DEF N!vars
<1> QED
  BY <1>8, <1>9, <1>10, <1>11, <1>12, <1>14, <1>15, <1>16, <1>17, <1>18, <1>19
     DEF N!Next, N!Proceed, N!Attempt

LEMMA SoundInit ==
  ASSUME N!Init
  PROVE  N!TypeOK /\ Sound(sweep) /\ AheadInv
<1>1. N!TypeOK
  BY RemindersTypeInit
<1>2. Sound(sweep)
  BY <1>1 DEF N!TypeOK, N!Init, N!Asleep, Sound
<1>3. \A s \in Interviews : Ahead(s, sweep, faults) \in 0..N!LongestWait /\ waited[s] = 0
  BY <1>1, <1>2, AheadBound DEF N!Init, N!TypeOK
<1>4. \A s \in Interviews : N!LongestWait \in Nat
  BY LongestWaitIs
<1> QED
  BY <1>1, <1>2, <1>3, <1>4 DEF AheadInv

LEMMA SoundStep ==
  ASSUME N!TypeOK, DeliveryInv, Sound(sweep), [N!Next]_(N!vars)
  PROVE  Sound(sweep')
<1>1. sweep' \in N!Sweeps /\ DeliveryInv'
  BY RemindersTypeStep DEF N!TypeOK
<1>2. ASSUME sweep'.phase = "backing" PROVE sweep'.wait <= Elapsed(sweep'.attempt + 1)
  <2>1. CASE N!Retry
    <3>1. /\ sweep.phase = "trying" /\ sweep.attempt < MaxAttempts
          /\ sweep'.attempt = sweep.attempt /\ sweep'.wait = N!BackOff(sweep.attempt)
      BY <2>1 DEF N!Retry, N!Loses, N!BackAgain
    <3>2. /\ Elapsed(sweep.attempt + 1) = Elapsed(sweep.attempt) + N!BackOff(sweep.attempt)
          /\ Elapsed(sweep.attempt) \in 0..N!Total /\ N!BackOff(sweep.attempt) \in 1..N!Total
          /\ N!Total \in Nat
      BY <3>1, SweepShape, BackOffsAddUp DEF Sound
    <3> QED
      BY <3>1, <3>2
  <2>2. CASE N!Tick
    <3>1. /\ sweep.phase = "backing" /\ sweep.wait \in 0..N!Total
          /\ sweep'.attempt = sweep.attempt /\ sweep'.wait = sweep.wait - 1
      BY <1>2, <2>2, SweepShape DEF N!Tick, Sound
    <3>2. sweep.wait <= Elapsed(sweep.attempt + 1)
      BY <3>1 DEF Sound
    <3>3. Elapsed(sweep.attempt + 1) \in 0..N!Total /\ N!Total \in Nat
      BY <3>1, SweepShape, BackOffsAddUp DEF Sound
    <3> QED
      BY <3>1, <3>2, <3>3
  <2>3. CASE UNCHANGED sweep
    BY <1>2, <2>3 DEF Sound
  <2>4. ASSUME NEW s \in Interviews, N!Take(s) PROVE FALSE
    BY <1>2, <2>4 DEF N!Take
  <2>5. CASE \/ N!Select \/ N!Deliver \/ N!GiveUp \/ N!Wake \/ N!Finish \/ N!Fail
    BY <1>2, <2>5 DEF N!Select, N!Deliver, N!GiveUp, N!Wake, N!Finish, N!Fail, N!Asleep
  <2>6. ASSUME NEW s \in Interviews, (\E t \in 1..N!Horizon : N!Plan(s, t)) \/ N!Change(s)
        PROVE  UNCHANGED sweep
    BY <2>6 DEF N!Plan, N!Change
  <2>7. UNCHANGED N!vars => UNCHANGED sweep
    BY DEF N!vars
  <2> QED
    BY <2>1, <2>2, <2>3, <2>4, <2>5, <2>6, <2>7 DEF N!Next, N!Proceed, N!Attempt
<1> QED
  BY <1>1, <1>2 DEF Sound, DeliveryInv

(* A slot that stays due is taken up within the longest wait, however many *)
(* slots there are, with every attempt failing and all faults allowed for: *)
(* a sweep reaches all it has found, and one that fails is begun again.    *)
THEOREM TakenUpCorrect == N!Behaviour => []DueIsTakenUp
<1> DEFINE Inv == N!TypeOK /\ DeliveryInv /\ Sound(sweep) /\ AheadInv
<1>1. N!Init => Inv
  BY RemindersTypeInit, SoundInit
<1>2. Inv /\ [N!Next]_(N!vars) => Inv'
  <2> SUFFICES ASSUME Inv, [N!Next]_(N!vars) PROVE Inv'
    OBVIOUS
  <2>1. N!TypeOK' /\ DeliveryInv' /\ Sound(sweep')
    BY RemindersTypeStep, SoundStep
  <2>2. ASSUME NEW s \in Interviews
        PROVE  /\ waited'[s] <= N!LongestWait
               /\ N!Due(s)' => waited'[s] + Ahead(s, sweep', faults') <= N!LongestWait
    <3>1. /\ Ahead(s, sweep, faults) \in 0..N!LongestWait
          /\ Ahead(s, sweep', faults') \in 0..N!LongestWait
      BY <2>1, AheadBound DEF N!TypeOK
    <3>2. N!LongestWait \in Nat
      BY LongestWaitIs
    <3>3. waited[s] \in Nat /\ waited'[s] \in Nat
      BY <2>1 DEF N!TypeOK
    <3>4. /\ waited[s] <= N!LongestWait
          /\ N!Due(s) => waited[s] + Ahead(s, sweep, faults) <= N!LongestWait
      BY DEF AheadInv
    <3>5. \/ waited'[s] = 0
          \/ /\ waited'[s] = waited[s]
             /\ N!Due(s)' => /\ N!Due(s)
                             /\ Ahead(s, sweep', faults') <= Ahead(s, sweep, faults)
          \/ /\ N!Due(s)
             /\ waited'[s] = waited[s] + 1
             /\ Ahead(s, sweep', faults') + 1 <= Ahead(s, sweep, faults)
      BY WaitOfOne
    <3> QED
      BY <3>1, <3>2, <3>3, <3>4, <3>5
  <2> QED
    BY <2>1, <2>2 DEF AheadInv
<1>3. Inv => DueIsTakenUp
  BY DEF AheadInv, DueIsTakenUp, N!DueIsTakenUp
<1> QED
  BY <1>1, <1>2, <1>3, PTL DEF N!Behaviour

-----------------------------------------------------------------------------
(* The components have no variable in common, so that a behaviour of all   *)
(* is one of each, and what is proved of each holds of all.                *)
LEMMA Composition == RecordsSpec => Spec /\ F!Spec /\ A!Spec /\ D!Spec /\ N!Behaviour
<1>1. RecordsInit => Init /\ F!Init /\ A!Init /\ D!Init /\ N!Init
  BY DEF RecordsInit
<1>2. [RecordsNext]_recordsVars =>
        /\ [Next]_vars
        /\ [F!Next]_(F!feedbackVars)
        /\ [A!Next]_(A!availabilityVars)
        /\ [D!Next]_(D!dataVars)
        /\ [N!Next]_(N!vars)
  BY DEF RecordsNext, recordsVars, feedbackVars, F!feedbackVars, availabilityVars,
         A!availabilityVars, dataVars, D!dataVars, D!stored, reminderVars, N!vars
<1> QED
  BY <1>1, <1>2, PTL DEF RecordsSpec, Spec, F!Spec, A!Spec, D!Spec, N!Behaviour

(* Every row, request and task of the five components has its type.        *)
THEOREM RecordsTypeCorrect == RecordsSpec => []RecordsTypeOK
<1>1. FeedbackInv /\ AvailabilityInv /\ DataInv /\ TypeOK /\ N!TypeOK => RecordsTypeOK
  BY DEF FeedbackInv, AvailabilityInv, DataInv, RecordsTypeOK
<1>2. F!Spec => []FeedbackInv
  BY FeedbackInit, FeedbackStep, PTL DEF F!Spec, feedbackVars, F!feedbackVars
<1>3. D!Spec => []DataInv
  BY DataInit, DataStep, PTL DEF D!Spec
<1> QED
  BY <1>1, <1>2, <1>3, Composition, TypeCorrect, AvailabilityInvariant, RemindersTypeCorrect, PTL

(* What is proved of each component, of the composition that the run of    *)
(* this module checks.                                                     *)
THEOREM RecordsCorrect ==
  RecordsSpec =>
    /\ []SubmittedIsComplete /\ []AskedHaveToken /\ SubmittedIsFinal
    /\ ReplacedWasSeen /\ SubmittedIsAsRead
    /\ []ActiveOverrunIsBounded /\ CascadeHitsScheduled
    /\ []CompletedErasureIsDone /\ []CompletedIsApplied
    /\ []RemindersAreTimely /\ []DueIsTakenUp
  BY Composition, CompleteCorrect, TokenCorrect, FinalCorrect, ReplacedCorrect,
     SubmittedCorrect, OverrunCorrect, CascadeCorrect, ErasureCorrect, IngestionCorrect,
     TimelyCorrect, TakenUpCorrect, PTL
=============================================================================
