------------------------------ MODULE Feedback ------------------------------
(***************************************************************************)
(* User feedback: a form that is presented, rated, followed up, dismissed  *)
(* and, years later, deleted, by several tabs of several users at once     *)
(* (server/internal/userfeedback, server/internal/store/feedback.go and    *)
(* the queries of store/dbgen/user_feedback.sql.go).                       *)
(*                                                                         *)
(* Each action is one statement of a PostgreSQL transaction at READ        *)
(* COMMITTED, or, once the transaction holds the row of its prompt, all    *)
(* that it does up to its commit: nobody else reads or writes that prompt  *)
(* and its answers in between.  Waiting for a lock is an action that is    *)
(* not enabled.  Left out: texts, scores of follow-up answers, and the     *)
(* snapshot of the interests that is stored with an answer.                *)
(***************************************************************************)
EXTENDS Naturals, FiniteSets, Sequences

CONSTANTS
    Users,
    Prompts,     \* the UUIDs that tabs make up, one for each form they want to show
    Forms,       \* ids of the rows of feedback_forms
    FormRows,    \* FormRows[f]: key, cooldown and questions of that row
    Tabs,        \* API requests that are served at the same time
    Asked,       \* questions that are sent with a score
    Scores,      \* scores that are sent
    AnswerLists, \* lists of follow-up answers that are sent
    Retention,   \* RetentionYears
    CleanupInterval,
    BatchSize,   \* CleanupBatchSize
    None,        \* no user, no form, no question, no score
    MaxTime      \* bound of the clock, for model checking

MinScore == 1
MaxScore == 5
FollowupScoreMax == 2

Instants == 1..MaxTime

ASSUME FeedbackAssumption ==
    /\ IsFiniteSet(Prompts)
    /\ DOMAIN FormRows = Forms
    /\ \A f \in Forms : FormRows[f].cooldown \in Nat
    \* The id of a question is the primary key of its table.
    /\ \A f \in Forms : \A q, r \in FormRows[f].questions : q.id = r.id => q = r
    /\ MaxTime \in Nat \ {0} /\ Retention \in Nat /\ CleanupInterval \in Nat
    /\ None \notin Users \cup Forms

-----------------------------------------------------------------------------
(* Forms: definition.go *)

Roots(form) == {q \in form.questions : q.ifQuestion = None}

\* A question of a form is shown after score when its threshold allows it.
FollowupsFor(form, score) ==
    {q \in form.questions : q.max # None /\ score <= q.max}

\* One question has no condition; all others depend on it, with the same threshold.
ValidDefinition(form) ==
    /\ form.cooldown >= 1
    /\ \A q, r \in form.questions : q # r => q.key # r.key /\ q.order # r.order
    /\ \A q \in Roots(form) : q.max = None
    /\ Cardinality(Roots(form)) = 1
    /\ \A q \in form.questions \ Roots(form) :
           /\ \A root \in Roots(form) : q.ifQuestion = root.id
           /\ q.max = FollowupScoreMax

RootId(form) == (CHOOSE q \in Roots(form) : TRUE).id

ValidOverall(form, question, score) ==
    /\ score \in MinScore..MaxScore
    /\ question = RootId(form)

Given(list) == {list[i].question : i \in DOMAIN list}

\* Every answer is to a question that is shown, none is to the same question twice,
\* and no question that must be answered is missing.
ValidFollowup(form, score, list) ==
    LET expected == {q.id : q \in FollowupsFor(form, score)}
    IN  /\ expected # {}
        /\ Given(list) \subseteq expected
        /\ Cardinality(Given(list)) = Len(list)
        /\ \A i \in DOMAIN list : list[i].score \in MinScore..MaxScore
        /\ \A q \in FollowupsFor(form, score) : q.required => q.id \in Given(list)

NextEligibleAt(shown, cooldown) == shown + cooldown

-----------------------------------------------------------------------------

VARIABLES
    now,
    status,      \* status[p] of feedback_prompts; "none" before the row, "gone" after it
    stage,       \* stage[p]
    owner,       \* owner[p]: user_ID
    form,        \* form[p]: form_id
    shownAt,     \* shownAt[p]
    finishedAt,  \* finishedAt[p]; 0 for NULL
    submission,  \* submission[p]: status of the row of feedback_submissions, or "none"
    answers,     \* answers[p]: the questions with a row in feedback_answers
    overall,     \* overall[p]: the score of the root question, or None
    lastCleanup, \* Service.lastCleanup; 0 for IsZero
    pc,          \* pc[t]: the statement that t's transaction runs next
    request,     \* request[t]: what t was asked for
    read,        \* read[t]: the form, and the status of the prompt, that t has read
    batch        \* batch[t]: the prompts that t's DeleteExpired has listed

rows == <<status, stage, owner, form, shownAt, finishedAt, submission, answers, overall>>
txs  == <<pc, request, read, batch>>
vars == <<now, rows, lastCleanup, txs>>

Questions == UNION {{q.id : q \in FormRows[f].questions} : f \in Forms}
Stored    == {"shown", "dismissed", "submitted"}

Requests == [op : {"none", "present", "submit", "complete", "dismiss"},
             user : Users \cup {None}, prompt : Prompts \cup {None}, at : Nat,
             question : Asked \cup {None}, score : Scores \cup {None},
             list : AnswerLists \cup {<<>>}]
Reads    == [form : Forms \cup {None}, status : Stored \cup {"none"}]

NoRequest == [op |-> "none", user |-> None, prompt |-> None, at |-> 0,
              question |-> None, score |-> None, list |-> <<>>]
NoRead    == [form |-> None, status |-> "none"]

TypeOK ==
    /\ now \in Instants
    /\ status \in [Prompts -> Stored \cup {"none", "gone"}]
    /\ stage \in [Prompts -> {"overall", "followup"}]
    /\ owner \in [Prompts -> Users \cup {None}]
    /\ form \in [Prompts -> Forms \cup {None}]
    /\ shownAt \in [Prompts -> Nat]
    /\ finishedAt \in [Prompts -> Nat]
    /\ submission \in [Prompts -> {"none", "partial", "completed"}]
    /\ answers \in [Prompts -> SUBSET (Questions \cup Asked)]
    /\ overall \in [Prompts -> Scores \cup {None}]
    /\ lastCleanup \in Nat
    /\ pc \in [Tabs -> {"idle", "existing", "advisory", "last", "insert", "due", "delete",
                        "lock", "locked"}]
    /\ request \in [Tabs -> Requests]
    /\ read \in [Tabs -> Reads]
    /\ batch \in [Tabs -> SUBSET Prompts]

Init ==
    /\ now = 1
    /\ status = [p \in Prompts |-> "none"]
    /\ stage = [p \in Prompts |-> "overall"]
    /\ owner = [p \in Prompts |-> None]
    /\ form = [p \in Prompts |-> None]
    /\ shownAt = [p \in Prompts |-> 0]
    /\ finishedAt = [p \in Prompts |-> 0]
    /\ submission = [p \in Prompts |-> "none"]
    /\ answers = [p \in Prompts |-> {}]
    /\ overall = [p \in Prompts |-> None]
    /\ lastCleanup = 0
    /\ pc = [t \in Tabs |-> "idle"]
    /\ request = [t \in Tabs |-> NoRequest]
    /\ read = [t \in Tabs |-> NoRead]
    /\ batch = [t \in Tabs |-> {}]

-----------------------------------------------------------------------------
(* Rows and locks *)

Exists(p) == status[p] \in Stored

Prompt(t) == request[t].prompt

\* GetFeedbackFormByID: a prompt keeps the version it was presented with.
FormOf(p) == FormRows[form[p]]

\* GetFeedbackSubmissionByPrompt: prompt_id is unique.
Rated(p) == submission[p] # "none"

\* Mutant: the prompt is read without FOR UPDATE.
NeverLocked(p) == TRUE

\* LockFeedbackPrompt: the row is kept from its reading to the commit.
Unlocked(p) == \A t \in Tabs : ~(pc[t] = "locked" /\ Prompt(t) = p)

\* Mutant: the decision to present is made by any number of tabs at a time.
NeverDeciding(u, key) == TRUE

\* LockUserFeedbackForm: an advisory lock of the transaction.
Undecided(u, key) ==
    \A t \in Tabs : ~(/\ pc[t] \in {"last", "insert"}
                      /\ request[t].user = u
                      /\ FormRows[read[t].form].key = key)

\* LastFeedbackPrompt: the latest row of the user for the key of a form, whatever
\* its version.
PromptsOf(u, key) == {p \in Prompts : Exists(p) /\ owner[p] = u /\ FormOf(p).key = key}

\* The latest prompt is the one that decides.
CoolingDown(u, f, at) ==
    \E p \in PromptsOf(u, FormRows[f].key) :
        at < NextEligibleAt(shownAt[p], FormRows[f].cooldown)

Go(t, to) == pc' = [pc EXCEPT ![t] = to]

\* The transaction of t ends, by a commit or by the deferred Rollback.
End(t) ==
    /\ Go(t, "idle")
    /\ request' = [request EXCEPT ![t] = NoRequest]
    /\ read' = [read EXCEPT ![t] = NoRead]
    /\ batch' = [batch EXCEPT ![t] = {}]

Begin(t, to, r) ==
    /\ pc[t] = "idle"
    /\ Go(t, to)
    /\ request' = [request EXCEPT ![t] = r]
    /\ UNCHANGED <<now, rows, lastCleanup, read, batch>>

\* A statement fails, or the request is given up: nothing that the transaction wrote
\* stays.
Fail(t) ==
    /\ pc[t] # "idle"
    /\ End(t)
    /\ UNCHANGED <<now, rows, lastCleanup>>

-----------------------------------------------------------------------------
(* Present: service.go and store/feedback.go.  Whether it shows the form or not,   *)
(* unless the database fails, a cleanup may follow.                                *)

PresentBegin(t, u, p) ==
    /\ status[p] # "gone"
    /\ Begin(t, "existing", [NoRequest EXCEPT !.op = "present", !.user = u,
                                              !.prompt = p, !.at = now])

Continue(t, to) ==
    /\ Go(t, to)
    /\ UNCHANGED <<now, rows, lastCleanup, request, batch>>

\* existingPresentation, which locks the row: a prompt that is there is shown as it is,
\* whatever form is active; to another user it is as good as none.
Readable(p) == Exists(p) => Unlocked(p)

\* loadForm, of the active form: without one, or with one that is not valid, nothing is
\* shown.
Usable(f) == f # None /\ ValidDefinition(FormRows[f])

\* Which form f is active, if any, is decided by hand, at any time.
PresentForm(t, f) ==
    LET p == Prompt(t)
    IN  /\ pc[t] = "existing"
        /\ Readable(p)
        /\ IF ~Exists(p) /\ Usable(f)
           THEN /\ Continue(t, "advisory")
                /\ read' = [read EXCEPT ![t].form = f]
           ELSE Continue(t, "due") /\ UNCHANGED read

\* The advisory lock, and existingPresentation once more
PresentDecide(t) ==
    LET p == Prompt(t)
    IN  /\ pc[t] = "advisory"
        /\ Undecided(request[t].user, FormRows[read[t].form].key)
        /\ Readable(p)
        /\ Continue(t, IF Exists(p) THEN "due" ELSE "last")
        /\ UNCHANGED read

PresentLast(t) ==
    /\ pc[t] = "last"
    /\ Continue(t, IF CoolingDown(request[t].user, read[t].form, request[t].at)
                           THEN "due" ELSE "insert")
    /\ UNCHANGED read

\* InsertFeedbackPrompt leaves a row that has the id, somebody else's, as it is.  No
\* request lasts as long as Retention: an id that was deleted does not come back.
InsertPrompt(p, u, f, at) ==
    IF status[p] = "none"
    THEN /\ status' = [status EXCEPT ![p] = "shown"]
         /\ owner' = [owner EXCEPT ![p] = u]
         /\ form' = [form EXCEPT ![p] = f]
         /\ shownAt' = [shownAt EXCEPT ![p] = at]
    ELSE UNCHANGED <<status, owner, form, shownAt>>

PresentInsert(t) ==
    /\ pc[t] = "insert"
    /\ Go(t, "due")
    /\ InsertPrompt(Prompt(t), request[t].user, read[t].form, request[t].at)
    /\ UNCHANGED <<now, stage, finishedAt, submission, answers, overall, lastCleanup,
                   request, read, batch>>

Present(t) ==
    \/ \E f \in Forms \cup {None} : PresentForm(t, f)
    \/ PresentDecide(t)
    \/ PresentLast(t)
    \/ PresentInsert(t)

-----------------------------------------------------------------------------
(* cleanupIfDue and DeleteExpired *)

CleanupIsDue(at) == lastCleanup = 0 \/ at >= lastCleanup + CleanupInterval

\* COALESCE(finished_at, shown_at)
LastTouched(p) == IF finishedAt[p] # 0 THEN finishedAt[p] ELSE shownAt[p]

\* Mutant: what was touched within the retention is listed, too.
ExpiredAny(at) == {p \in Prompts : Exists(p)}

Expired(at) == {p \in Prompts : Exists(p) /\ LastTouched(p) + Retention < at}

\* The subquery of DeleteExpiredFeedbackPrompts: the oldest expired prompts.
OldestExpired(at) ==
    {oldest \in SUBSET Expired(at) :
        /\ \A p \in oldest, q \in Expired(at) \ oldest : LastTouched(p) <= LastTouched(q)
        /\ Cardinality(oldest) <= BatchSize
        /\ oldest # Expired(at) => Cardinality(oldest) = BatchSize}

CleanupIfDue(t) ==
    /\ pc[t] = "due"
    /\ IF CleanupIsDue(request[t].at)
       THEN /\ lastCleanup' = request[t].at
            /\ \E oldest \in OldestExpired(request[t].at) :
                   IF oldest = {} THEN End(t)
                   ELSE /\ batch' = [batch EXCEPT ![t] = oldest]
                        /\ Go(t, "delete")
                        /\ UNCHANGED <<request, read>>
       ELSE End(t) /\ UNCHANGED lastCleanup
    /\ UNCHANGED <<now, rows>>

\* The DELETE waits for the rows that others have locked, and then deletes what the
\* subquery has listed, without looking at the times again.  Submissions and answers
\* go with their prompt (ON DELETE CASCADE).
DeleteExpired(t) ==
    LET Clear(f, value) == [p \in Prompts |-> IF p \in batch[t] THEN value ELSE f[p]]
    IN  /\ pc[t] = "delete"
        /\ \A p \in batch[t] : Unlocked(p)
        /\ status' = Clear(status, "gone")
        /\ stage' = Clear(stage, "overall")
        /\ owner' = Clear(owner, None)
        /\ form' = Clear(form, None)
        /\ shownAt' = Clear(shownAt, 0)
        /\ finishedAt' = Clear(finishedAt, 0)
        /\ submission' = Clear(submission, "none")
        /\ answers' = Clear(answers, {})
        /\ overall' = Clear(overall, None)
        /\ End(t)
        /\ UNCHANGED <<now, lastCleanup>>

Cleanup(t) == CleanupIfDue(t) \/ DeleteExpired(t)

-----------------------------------------------------------------------------
(* lockOwnPrompt: what is read here is what the transaction decides by.  The prompt  *)
(* of a submission, and its user, that GetFeedbackSubmissionOwner finds without a    *)
(* lock, never change.                                                               *)

LockOwnPrompt(t) ==
    LET p == Prompt(t)
    IN  /\ pc[t] = "lock"
        /\ Exists(p) => Unlocked(p)
        /\ IF /\ Exists(p) /\ owner[p] = request[t].user
              /\ request[t].op = "complete" => Rated(p)
           THEN /\ Go(t, "locked")
                /\ read' = [read EXCEPT ![t].status = status[p]]
                /\ UNCHANGED <<request, batch>>
           ELSE End(t)
        /\ UNCHANGED <<now, rows, lastCleanup>>

\* Mutant: finished_at is left without a value.
MarkUndated(p, to, at) ==
    /\ status' = [status EXCEPT ![p] = to]
    /\ finishedAt' = [finishedAt EXCEPT ![p] = None]

\* MarkFeedbackPromptSubmitted and MarkFeedbackPromptDismissed change a prompt that is
\* shown, and no other.
Mark(p, to, at) ==
    IF status[p] = "shown"
    THEN /\ status' = [status EXCEPT ![p] = to]
         /\ finishedAt' = [finishedAt EXCEPT ![p] = at]
    ELSE UNCHANGED <<status, finishedAt>>

\* MarkFeedbackPromptFollowup
MarkFollowup(p) ==
    /\ stage' = [stage EXCEPT ![p] = IF status[p] = "shown" THEN "followup" ELSE @]
    /\ UNCHANGED <<status, finishedAt>>

\* InsertFeedbackAnswer: a question is answered once (the primary key).
InsertAnswers(p, questions) == answers' = [answers EXCEPT ![p] = @ \cup questions]

-----------------------------------------------------------------------------
(* SubmitOverall *)

SubmitBegin(t, u, p, question, score) ==
    Begin(t, "lock", [NoRequest EXCEPT !.op = "submit", !.user = u, !.prompt = p,
                                       !.at = now, !.question = question,
                                       !.score = score])

\* A second answer is told of the first; a prompt that is over takes none.
MayRate(t) ==
    LET p == Prompt(t)
    IN  /\ ~Rated(p)
        /\ read[t].status = "shown"
        /\ ValidDefinition(FormOf(p))
        /\ ValidOverall(FormOf(p), request[t].question, request[t].score)

\* Mutant: a first answer ends the prompt, also when there are questions left.
InsertSubmissionCompleted(t, followup) ==
    submission' = [submission EXCEPT ![Prompt(t)] = "completed"]

\* InsertFeedbackSubmission
InsertSubmission(t, followup) ==
    submission' = [submission EXCEPT ![Prompt(t)] = IF followup THEN "partial"
                                                                ELSE "completed"]

SubmitOverall(t) ==
    LET p        == Prompt(t)
        followup == FollowupsFor(FormOf(p), request[t].score) # {}
    IN  /\ pc[t] = "locked" /\ request[t].op = "submit"
        /\ IF MayRate(t)
           THEN /\ InsertSubmission(t, followup)
                /\ InsertAnswers(p, {request[t].question})
                /\ overall' = [overall EXCEPT ![p] = request[t].score]
                /\ IF followup THEN MarkFollowup(p)
                               ELSE Mark(p, "submitted", request[t].at) /\ UNCHANGED stage
           ELSE UNCHANGED <<status, stage, finishedAt, submission, answers, overall>>
        /\ End(t)
        /\ UNCHANGED <<now, owner, form, shownAt, lastCleanup>>

-----------------------------------------------------------------------------
(* CompleteFollowup.  A submission is named by its prompt: prompt_id is unique. *)

CompleteBegin(t, u, p, list) ==
    Begin(t, "lock", [NoRequest EXCEPT !.op = "complete", !.user = u, !.prompt = p,
                                       !.at = now, !.list = list])

\* LockFeedbackSubmission and GetFeedbackAnswerScore, under the lock of the prompt
MayComplete(t) ==
    LET p == Prompt(t)
    IN  /\ submission[p] = "partial"
        /\ read[t].status = "shown"
        /\ ValidDefinition(FormOf(p))
        /\ ValidFollowup(FormOf(p), overall[p], request[t].list)

\* CompleteFeedbackSubmission
CompleteSubmission(p) ==
    submission' = [submission EXCEPT ![p] = IF @ = "partial" THEN "completed" ELSE @]

CompleteFollowup(t) ==
    LET p == Prompt(t)
    IN  /\ pc[t] = "locked" /\ request[t].op = "complete"
        /\ IF MayComplete(t)
           THEN /\ InsertAnswers(p, Given(request[t].list))
                /\ CompleteSubmission(p)
                /\ Mark(p, "submitted", request[t].at)
           ELSE UNCHANGED <<status, finishedAt, submission, answers>>
        /\ End(t)
        /\ UNCHANGED <<now, stage, owner, form, shownAt, overall, lastCleanup>>

-----------------------------------------------------------------------------
(* Dismiss *)

DismissBegin(t, u, p) ==
    Begin(t, "lock", [NoRequest EXCEPT !.op = "dismiss", !.user = u, !.prompt = p,
                                       !.at = now])

Dismiss(t) ==
    /\ pc[t] = "locked" /\ request[t].op = "dismiss"
    /\ IF read[t].status = "shown"
       THEN Mark(Prompt(t), "dismissed", request[t].at)
       ELSE UNCHANGED <<status, finishedAt>>
    /\ End(t)
    /\ UNCHANGED <<now, stage, owner, form, shownAt, submission, answers,
                   overall, lastCleanup>>

-----------------------------------------------------------------------------

Tick ==
    /\ now < MaxTime
    /\ now' = now + 1
    /\ UNCHANGED <<rows, lastCleanup, txs>>

\* A screen answers, follows up and closes only what it has shown.
Ask(t) ==
    \E u \in Users, p \in Prompts :
        \/ PresentBegin(t, u, p)
        \/ /\ status[p] # "none"
           /\ \/ \E q \in Asked, score \in Scores : SubmitBegin(t, u, p, q, score)
              \/ \E list \in AnswerLists : CompleteBegin(t, u, p, list)
              \/ DismissBegin(t, u, p)

Serve(t) ==
    \/ Present(t) \/ Cleanup(t)
    \/ LockOwnPrompt(t) \/ SubmitOverall(t) \/ CompleteFollowup(t)
    \/ Dismiss(t)

Next ==
    \/ \E t \in Tabs : Ask(t) \/ Serve(t) \/ Fail(t)
    \/ Tick

Spec == Init /\ [][Next]_vars

-----------------------------------------------------------------------------
(* Properties *)

\* A submission that is completed holds an answer to every question that its score
\* asks for and must be answered; one that is not holds the first answer alone
\* (store/feedback.go, SubmitOverall and CompleteFollowup).
AnswersFit ==
    \A p \in Prompts :
        LET followups == FollowupsFor(FormOf(p), overall[p])
            rest      == answers[p] \ {RootId(FormOf(p))}
        IN  IF submission[p] = "none" THEN answers[p] = {}
            ELSE /\ RootId(FormOf(p)) \in answers[p]
                 /\ rest \subseteq {q.id : q \in followups}
                 /\ submission[p] = "partial" => followups # {} /\ rest = {}
                 /\ submission[p] = "completed" =>
                        \A q \in followups : q.required => q.id \in rest

\* However many tabs ask at once, a user is shown a form again only after its
\* cooldown, also when its version has changed (store/feedback.go, Present).
CooldownKept ==
    \A p, q \in Prompts :
        p # q /\ Exists(p) /\ Exists(q) /\ owner[p] = owner[q] /\ FormOf(p).key = FormOf(q).key
        => \/ shownAt[q] >= NextEligibleAt(shownAt[p], FormOf(q).cooldown)
           \/ shownAt[p] >= NextEligibleAt(shownAt[q], FormOf(p).cooldown)

\* What is deleted was shown longer ago than the retention (DeleteExpired).
DeletedOnlyOld ==
    [][\A p \in Prompts : Exists(p) /\ status'[p] = "gone" => shownAt[p] + Retention < now]_vars

\* What the rows of a prompt and of its submission tell together; "torn" if they disagree
Life(p) ==
    CASE status[p] \in {"none", "gone"} -> status[p]
      [] status[p] = "shown" /\ submission[p] = "none" /\ stage[p] = "overall" -> "shown"
      [] status[p] = "shown" /\ submission[p] = "partial" /\ stage[p] = "followup" -> "partial"
      [] status[p] = "submitted" /\ submission[p] = "completed" -> "completed"
      [] status[p] = "dismissed" /\ submission[p] # "completed" -> "dismissed"
      [] OTHER -> "torn"

Ledger == INSTANCE FeedbackLedger
              WITH life <- [p \in Prompts |-> Life(p)], answered <- answers

\* The status of a prompt and of its submission tell one story, and nothing but the
\* steps of FeedbackLedger changes it: an outcome is final, whoever asks for what in
\* another tab (store/feedback.go).
ImplementsLedger == Ledger!Spec

=============================================================================
