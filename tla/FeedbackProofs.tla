---------------------------- MODULE FeedbackProofs ---------------------------
(***************************************************************************)
(* Proofs about Feedback, for every number of users, prompts and tabs, and *)
(* every list of forms.                                                    *)
(***************************************************************************)
EXTENDS Feedback, FiniteSetTheorems, TLAPS

-----------------------------------------------------------------------------
(* Types *)

Statements == {"idle", "existing", "advisory", "last", "insert", "due", "delete", "lock",
               "locked"}
Presenting == {"existing", "advisory", "last", "insert", "due", "delete"}

\* What a transaction was asked for (q), has read (r) and has listed (b) when, at time i,
\* it is about to run statement next.
Fits(q, r, b, next, i) ==
    /\ q.at <= i
    /\ next = "idle" => q = NoRequest /\ r = NoRead
    /\ next # "delete" => b = {}
    /\ next # "idle" => q.user \in Users /\ q.prompt \in Prompts /\ q.at >= 1
    /\ next \in Presenting => q.op = "present"
    /\ next \in {"lock", "locked"} => q.op \in {"submit", "complete", "dismiss"}
    /\ q.op = "submit" => q.question \in Asked /\ q.score \in Scores
    /\ next \in {"advisory", "last", "insert"} => r.form \in Forms

RequestsWhole ==
    /\ now \in Instants
    /\ pc \in [Tabs -> Statements]
    /\ request \in [Tabs -> Requests]
    /\ read \in [Tabs -> Reads]
    /\ batch \in [Tabs -> SUBSET Prompts]
    /\ \A t \in Tabs : Fits(request[t], read[t], batch[t], pc[t], now)

\* A prompt that is there is of a user and of a form, and only such a one is answered.
RowsWhole ==
    /\ status \in [Prompts -> Stored \cup {"none", "gone"}]
    /\ stage \in [Prompts -> {"overall", "followup"}]
    /\ owner \in [Prompts -> Users \cup {None}]
    /\ form \in [Prompts -> Forms \cup {None}]
    /\ shownAt \in [Prompts -> Nat]
    /\ finishedAt \in [Prompts -> Nat]
    /\ submission \in [Prompts -> {"none", "partial", "completed"}]
    /\ answers \in [Prompts -> SUBSET (Questions \cup Asked)]
    /\ overall \in [Prompts -> Scores \cup {None}]
    /\ lastCleanup \in Nat
    /\ \A p \in Prompts : Exists(p) => owner[p] \in Users /\ form[p] \in Forms
    /\ \A p \in Prompts : submission[p] # "none" => Exists(p)

\* A transaction that keeps the row of a prompt keeps it alone, and what it has read of
\* it is still true.
LocksKept ==
    /\ \A t \in Tabs : pc[t] = "locked" =>
           /\ Exists(Prompt(t)) /\ owner[Prompt(t)] = request[t].user
           /\ read[t].status = status[Prompt(t)]
    /\ \A s, t \in Tabs :
           pc[s] = "locked" /\ pc[t] = "locked" /\ Prompt(s) = Prompt(t) => s = t

Typing == RequestsWhole /\ RowsWhole /\ LocksKept

LEMMA TypingTypeOK == Typing => TypeOK
  BY DEF Typing, RequestsWhole, RowsWhole, TypeOK, Statements

LEMMA Clock == RequestsWhole => now \in Nat /\ now >= 1
  BY FeedbackAssumption DEF RequestsWhole, Instants

LEMMA Blank ==
    /\ NoRequest \in Requests /\ NoRead \in Reads
    /\ NoRequest.op = "none" /\ NoRequest.at = 0
    /\ \A i \in Nat : Fits(NoRequest, NoRead, {}, "idle", i)
  <1>1. NoRequest \in Requests /\ NoRead \in Reads
    BY DEF NoRequest, NoRead, Requests, Reads
  <1>2. NoRequest.op = "none" /\ NoRequest.at = 0
    BY DEF NoRequest
  <1>3. QED
    BY <1>1, <1>2 DEF Fits, Presenting

LEMMA InitTyping == Init => Typing
  <1> SUFFICES ASSUME Init
               PROVE  Typing
    OBVIOUS
  <1>1. RequestsWhole
    BY Blank, FeedbackAssumption DEF Init, RequestsWhole, Instants, Statements
  <1>2. RowsWhole
    BY DEF Init, RowsWhole, Exists, Stored
  <1>3. LocksKept
    BY DEF Init, LocksKept
  <1>4. QED
    BY <1>1, <1>2, <1>3 DEF Typing

\* The transaction of t goes on with q, r and b; the others stay as they are.
LEMMA GoTyping ==
    ASSUME RequestsWhole, NEW t \in Tabs, NEW to \in Statements, NEW q \in Requests,
           NEW r \in Reads, NEW b \in SUBSET Prompts,
           Go(t, to), request' = [request EXCEPT ![t] = q], read' = [read EXCEPT ![t] = r],
           batch' = [batch EXCEPT ![t] = b], now' = now, Fits(q, r, b, to, now)
    PROVE  RequestsWhole'
  BY DEF RequestsWhole, Go

LEMMA EndTyping ==
    ASSUME RequestsWhole, NEW t \in Tabs, End(t), now' = now
    PROVE  RequestsWhole'
  <1>1. Fits(NoRequest, NoRead, {}, "idle", now) /\ "idle" \in Statements
    BY Blank, Clock DEF Statements
  <1>2. NoRequest \in Requests /\ NoRead \in Reads /\ {} \in SUBSET Prompts
    BY Blank
  <1>3. QED
    BY <1>1, <1>2, GoTyping DEF End

LEMMA ContinueTyping ==
    ASSUME RequestsWhole, NEW t \in Tabs, NEW to \in Statements, NEW r \in Reads,
           Go(t, to), read' = [read EXCEPT ![t] = r], UNCHANGED <<request, batch, now>>,
           Fits(request[t], r, batch[t], to, now)
    PROVE  RequestsWhole'
  BY DEF RequestsWhole, Go

\* A request begins.
LEMMA BeginTyping ==
    ASSUME RequestsWhole, NEW t \in Tabs, NEW to \in {"existing", "lock"}, NEW q \in Requests,
           Begin(t, to, q), q.user \in Users, q.prompt \in Prompts, q.at = now,
           to = "existing" => q.op = "present",
           to = "lock" => q.op \in {"submit", "complete", "dismiss"},
           q.op = "submit" => q.question \in Asked /\ q.score \in Scores
    PROVE  RequestsWhole'
  <1>1. batch[t] = {} /\ now \in Nat /\ now >= 1
    BY Clock DEF RequestsWhole, Fits, Begin
  <1>2. Fits(q, read[t], {}, to, now)
    BY <1>1 DEF Fits, Presenting
  <1>3. QED
    BY <1>1, <1>2 DEF RequestsWhole, Begin, Go, Statements

\* What a tab asks for, and when it may
LEMMA AskBegins ==
    ASSUME RequestsWhole, NEW t \in Tabs, Ask(t)
    PROVE  \E to \in {"existing", "lock"}, q \in Requests :
               /\ Begin(t, to, q) /\ q.user \in Users /\ q.prompt \in Prompts /\ q.at = now
               /\ to = "existing" => q.op = "present"
               /\ to = "lock" => /\ q.op \in {"submit", "complete", "dismiss"}
                                /\ status[q.prompt] # "none"
               /\ q.op = "submit" => q.question \in Asked /\ q.score \in Scores
  <1>1. PICK u \in Users, p \in Prompts :
            \/ PresentBegin(t, u, p)
            \/ /\ status[p] # "none"
               /\ \/ \E q \in Asked, score \in Scores : SubmitBegin(t, u, p, q, score)
                  \/ \E list \in AnswerLists : CompleteBegin(t, u, p, list)
                  \/ DismissBegin(t, u, p)
    BY DEF Ask
  <1>2. now \in Nat
    BY Clock
  <1>3. CASE PresentBegin(t, u, p)
    <2> DEFINE q == [NoRequest EXCEPT !.op = "present", !.user = u, !.prompt = p, !.at = now]
    <2>1. q \in Requests
      BY <1>2, Blank DEF Requests
    <2>2. q.op = "present" /\ q.user = u /\ q.prompt = p /\ q.at = now
      BY DEF NoRequest
    <2>3. Begin(t, "existing", q)
      BY <1>3 DEF PresentBegin
    <2>4. QED
      BY <2>1, <2>2, <2>3
  <1>4. ASSUME NEW question \in Asked, NEW score \in Scores,
               SubmitBegin(t, u, p, question, score)
        PROVE  \E q \in Requests :
                   /\ Begin(t, "lock", q) /\ q.op = "submit"
                   /\ q.user = u /\ q.prompt = p /\ q.at = now
                   /\ q.question = question /\ q.score = score
    <2> DEFINE q == [NoRequest EXCEPT !.op = "submit", !.user = u, !.prompt = p,
                                      !.at = now, !.question = question, !.score = score]
    <2>1. q \in Requests
      BY <1>2, Blank DEF Requests
    <2>2. /\ q.op = "submit" /\ q.user = u /\ q.prompt = p /\ q.at = now
          /\ q.question = question /\ q.score = score
      BY DEF NoRequest
    <2>3. QED
      BY <1>4, <2>1, <2>2 DEF SubmitBegin
  <1>5. ASSUME NEW list \in AnswerLists, CompleteBegin(t, u, p, list)
        PROVE  \E q \in Requests : /\ Begin(t, "lock", q) /\ q.op = "complete"
                                   /\ q.user = u /\ q.prompt = p /\ q.at = now
    <2> DEFINE q == [NoRequest EXCEPT !.op = "complete", !.user = u, !.prompt = p,
                                      !.at = now, !.list = list]
    <2>1. q \in Requests
      BY <1>2, Blank DEF Requests
    <2>2. q.op = "complete" /\ q.user = u /\ q.prompt = p /\ q.at = now
      BY DEF NoRequest
    <2>3. QED
      BY <1>5, <2>1, <2>2 DEF CompleteBegin
  <1>6. ASSUME DismissBegin(t, u, p)
        PROVE  \E q \in Requests : /\ Begin(t, "lock", q) /\ q.op = "dismiss"
                                   /\ q.user = u /\ q.prompt = p /\ q.at = now
    <2> DEFINE q == [NoRequest EXCEPT !.op = "dismiss", !.user = u, !.prompt = p, !.at = now]
    <2>1. q \in Requests
      BY <1>2, Blank DEF Requests
    <2>2. q.op = "dismiss" /\ q.user = u /\ q.prompt = p /\ q.at = now
      BY DEF NoRequest
    <2>3. QED
      BY <1>6, <2>1, <2>2 DEF DismissBegin
  <1>7. QED
    BY <1>1, <1>3, <1>4, <1>5, <1>6

LEMMA AskTyping ==
    ASSUME RequestsWhole, NEW t \in Tabs, Ask(t)
    PROVE  RequestsWhole' /\ UNCHANGED <<now, rows, lastCleanup>>
  <1>1. PICK to \in {"existing", "lock"}, q \in Requests :
            /\ Begin(t, to, q) /\ q.user \in Users /\ q.prompt \in Prompts /\ q.at = now
            /\ to = "existing" => q.op = "present"
            /\ to = "lock" => q.op \in {"submit", "complete", "dismiss"}
            /\ q.op = "submit" => q.question \in Asked /\ q.score \in Scores
    BY AskBegins
  <1>2. QED
    BY <1>1, BeginTyping DEF Begin
LEMMA NextRequests == Typing /\ [Next]_vars => RequestsWhole'
  <1> SUFFICES ASSUME Typing, [Next]_vars
               PROVE  RequestsWhole'
    OBVIOUS
  <1> USE DEF Typing
  <1>1. now \in Nat /\ now >= 1
    BY Clock
  <1>2. ASSUME NEW t \in Tabs, Ask(t)
        PROVE  RequestsWhole'
    BY <1>2, AskTyping
  <1>3. ASSUME NEW t \in Tabs, Present(t)
        PROVE  RequestsWhole'
    <2>1. Fits(request[t], read[t], batch[t], pc[t], now)
          /\ read[t] \in Reads /\ read' = [read EXCEPT ![t] = read'[t]]
      BY <1>3 DEF RequestsWhole, Present, PresentForm, PresentDecide, PresentLast,
                  PresentInsert, Continue
    <2>2. CASE \E f \in Forms \cup {None} : PresentForm(t, f)
      <3>1. PICK f \in Forms \cup {None} : PresentForm(t, f)
        BY <2>2
      <3>2. CASE ~Exists(Prompt(t)) /\ Usable(f)
        <4>1. [read[t] EXCEPT !.form = f] \in Reads /\ f \in Forms
              /\ [read[t] EXCEPT !.form = f].form = f
          BY <2>1, <3>2 DEF Usable, Reads
        <4>2. Fits(request[t], [read[t] EXCEPT !.form = f], batch[t], "advisory", now)
          BY <2>1, <3>1, <4>1 DEF PresentForm, Fits, Presenting
        <4>3. read' = [read EXCEPT ![t] = [read[t] EXCEPT !.form = f]]
          BY <3>1, <3>2 DEF PresentForm
        <4>4. QED
          BY <3>1, <3>2, <4>1, <4>2, <4>3, ContinueTyping
          DEF PresentForm, Continue, Statements
      <3>3. CASE ~(~Exists(Prompt(t)) /\ Usable(f))
        <4>1. Fits(request[t], read[t], batch[t], "due", now)
          BY <2>1, <3>1 DEF PresentForm, Fits, Presenting
        <4>2. read' = [read EXCEPT ![t] = read[t]]
          BY <2>1, <3>1, <3>3 DEF PresentForm
        <4>3. QED
          BY <2>1, <3>1, <3>3, <4>1, <4>2, ContinueTyping DEF PresentForm, Continue, Statements
      <3>4. QED
        BY <3>2, <3>3
    <2>3. CASE PresentDecide(t) \/ PresentLast(t) \/ PresentInsert(t)
      <3>1. PICK to \in {"due", "last", "insert"} :
                /\ Go(t, to) /\ (to # "due" => pc[t] \in {"advisory", "last"})
                /\ UNCHANGED <<now, request, batch, read>>
        BY <2>3 DEF PresentDecide, PresentLast, PresentInsert, Continue
      <3>2. pc[t] \in Presenting \ {"delete"}
        BY <2>3 DEF PresentDecide, PresentLast, PresentInsert, Presenting
      <3>3. Fits(request[t], read[t], batch[t], to, now)
        BY <2>1, <3>1, <3>2 DEF Fits, Presenting
      <3>4. read' = [read EXCEPT ![t] = read[t]]
        BY <2>1, <3>1
      <3>5. to \in Statements /\ read[t] \in Reads /\ UNCHANGED <<request, batch, now>>
        BY <2>1, <3>1 DEF Statements
      <3>6. RequestsWhole
        OBVIOUS
      <3>7. QED
        BY <3>1, <3>3, <3>4, <3>5, <3>6 DEF RequestsWhole, Go
    <2>4. QED
      BY <1>3, <2>2, <2>3 DEF Present
  <1>4. ASSUME NEW t \in Tabs, CleanupIfDue(t)
        PROVE  RequestsWhole'
    <2>1. CASE End(t)
      BY <1>4, <2>1, EndTyping DEF CleanupIfDue
    <2>2. CASE ~End(t)
      <3>1. PICK oldest \in SUBSET Prompts :
                /\ batch' = [batch EXCEPT ![t] = oldest] /\ Go(t, "delete")
                /\ UNCHANGED <<now, request, read>>
        BY <1>4, <2>2 DEF CleanupIfDue, OldestExpired, Expired
      <3>2. Fits(request[t], read[t], oldest, "delete", now)
        BY <1>4 DEF CleanupIfDue, RequestsWhole, Fits, Presenting
      <3>3. QED
        BY <3>1, <3>2 DEF RequestsWhole, Go, Statements
    <2>3. QED
      BY <2>1, <2>2
  <1>5. ASSUME NEW t \in Tabs, LockOwnPrompt(t)
        PROVE  RequestsWhole'
    <2>1. CASE End(t)
      BY <1>5, <2>1, EndTyping DEF LockOwnPrompt
    <2>2. CASE ~End(t)
      <3> DEFINE r == [read[t] EXCEPT !.status = status[Prompt(t)]]
      <3>1. /\ Exists(Prompt(t)) /\ Go(t, "locked") /\ read' = [read EXCEPT ![t] = r]
            /\ UNCHANGED <<now, request, batch>>
        BY <1>5, <2>2 DEF LockOwnPrompt
      <3>2. Fits(request[t], read[t], batch[t], "lock", now) /\ read[t] \in Reads
        BY <1>5 DEF LockOwnPrompt, RequestsWhole
      <3>3. r \in Reads
        BY <3>1, <3>2 DEF Exists, Reads
      <3>4. Fits(request[t], r, batch[t], "locked", now)
        BY <3>2 DEF Fits, Presenting
      <3>5. QED
        BY <3>1, <3>3, <3>4, ContinueTyping DEF Statements
    <2>3. QED
      BY <2>1, <2>2
  <1>6. ASSUME NEW t \in Tabs,
               DeleteExpired(t) \/ SubmitOverall(t) \/ CompleteFollowup(t) \/ Dismiss(t)
               \/ Fail(t)
        PROVE  RequestsWhole'
    BY <1>6, EndTyping DEF DeleteExpired, SubmitOverall, CompleteFollowup, Dismiss, Fail
  <1>7. CASE Tick
    <2>1. now' = now + 1 /\ now' \in Instants
      BY <1>1, <1>7, FeedbackAssumption DEF Tick, Instants
    <2>2. QED
      BY <1>1, <1>7, <2>1 DEF Tick, txs, RequestsWhole, Fits, Requests
  <1>8. CASE UNCHANGED vars
    BY <1>8 DEF vars, txs, RequestsWhole
  <1>9. QED
    BY <1>2, <1>3, <1>4, <1>5, <1>6, <1>7, <1>8 DEF Next, Serve, Cleanup

\* What a step does to the row of a prompt
RowSame(p) ==
    /\ status'[p] = status[p] /\ stage'[p] = stage[p]
    /\ owner'[p] = owner[p] /\ form'[p] = form[p]
    /\ shownAt'[p] = shownAt[p] /\ finishedAt'[p] = finishedAt[p]
    /\ submission'[p] = submission[p] /\ answers'[p] = answers[p] /\ overall'[p] = overall[p]

\* It is inserted by t,
Inserted(p, t) ==
    /\ PresentInsert(t) /\ Prompt(t) = p
    /\ status[p] = "none" /\ status'[p] = "shown"
    /\ owner'[p] = request[t].user /\ form'[p] = read[t].form /\ shownAt'[p] = request[t].at
    /\ stage'[p] = stage[p] /\ finishedAt'[p] = finishedAt[p]
    /\ submission'[p] = submission[p] /\ answers'[p] = answers[p] /\ overall'[p] = overall[p]

\* deleted,
Deleted(p, t) ==
    /\ DeleteExpired(t) /\ p \in batch[t]
    /\ status'[p] = "gone" /\ stage'[p] = "overall"
    /\ owner'[p] = None /\ form'[p] = None /\ shownAt'[p] = 0 /\ finishedAt'[p] = 0
    /\ submission'[p] = "none" /\ answers'[p] = {} /\ overall'[p] = None

\* or answered or dismissed by the transaction that keeps it.
Answered(p, t) ==
    /\ Prompt(t) = p /\ pc[t] = "locked" /\ End(t)
    /\ owner'[p] = owner[p] /\ form'[p] = form[p] /\ shownAt'[p] = shownAt[p]

AnsweredFirst(p, t) ==
    /\ SubmitOverall(t) /\ Answered(p, t) /\ MayRate(t)
    /\ answers'[p] = answers[p] \cup {request[t].question}
    /\ overall'[p] = request[t].score
    /\ IF FollowupsFor(FormOf(p), request[t].score) # {}
       THEN /\ submission'[p] = "partial" /\ stage'[p] = "followup"
            /\ status'[p] = status[p] /\ finishedAt'[p] = finishedAt[p]
       ELSE /\ submission'[p] = "completed" /\ stage'[p] = stage[p]
            /\ status'[p] = "submitted" /\ finishedAt'[p] = request[t].at

FollowedUp(p, t) ==
    /\ CompleteFollowup(t) /\ Answered(p, t) /\ MayComplete(t)
    /\ answers'[p] = answers[p] \cup Given(request[t].list)
    /\ submission'[p] = "completed" /\ status'[p] = "submitted"
    /\ finishedAt'[p] = request[t].at
    /\ stage'[p] = stage[p] /\ overall'[p] = overall[p]

Dismissed(p, t) ==
    /\ Dismiss(t) /\ Answered(p, t)
    /\ status[p] = "shown" /\ status'[p] = "dismissed" /\ finishedAt'[p] = request[t].at
    /\ stage'[p] = stage[p]
    /\ submission'[p] = submission[p] /\ answers'[p] = answers[p] /\ overall'[p] = overall[p]

RowStep(p) ==
    \/ RowSame(p)
    \/ \E t \in Tabs : \/ Inserted(p, t) \/ Deleted(p, t)
                       \/ AnsweredFirst(p, t) \/ FollowedUp(p, t) \/ Dismissed(p, t)

LEMMA RowSteps ==
    ASSUME Typing, [Next]_vars, NEW p \in Prompts
    PROVE  RowStep(p)
  <1>1. UNCHANGED rows => RowSame(p)
    BY DEF rows, RowSame
  <1>2. ASSUME NEW t \in Tabs, PresentInsert(t)
        PROVE  RowStep(p)
    <2>1. CASE Prompt(t) = p /\ status[p] = "none"
      BY <1>2, <2>1 DEF PresentInsert, InsertPrompt, Inserted, RowStep, Typing, RowsWhole
    <2>2. CASE ~(Prompt(t) = p /\ status[p] = "none")
      BY <1>2, <2>2 DEF PresentInsert, InsertPrompt, RowSame, RowStep, Typing, RowsWhole
    <2>3. QED
      BY <2>1, <2>2
  <1>3. ASSUME NEW t \in Tabs, DeleteExpired(t)
        PROVE  RowStep(p)
    BY <1>3 DEF DeleteExpired, Deleted, RowSame, RowStep
  <1>4. ASSUME NEW t \in Tabs, pc[t] = "locked"
        PROVE  Prompt(t) \in Prompts /\ read[t].status = status[Prompt(t)]
    BY <1>4 DEF Typing, RequestsWhole, Fits, Prompt, LocksKept
  <1>5. ASSUME NEW t \in Tabs, SubmitOverall(t)
        PROVE  RowStep(p)
    <2>1. pc[t] = "locked" /\ End(t)
      BY <1>5 DEF SubmitOverall
    <2>2. CASE Prompt(t) = p /\ MayRate(t)
      <3>1. status[p] = "shown"
        BY <1>4, <2>1, <2>2 DEF MayRate
      <3>2. /\ answers' = [answers EXCEPT ![p] = @ \cup {request[t].question}]
            /\ overall' = [overall EXCEPT ![p] = request[t].score]
            /\ UNCHANGED <<owner, form, shownAt>>
        BY <1>5, <2>2 DEF SubmitOverall, InsertAnswers
      <3>3. Answered(p, t)
        BY <2>1, <2>2, <3>2 DEF Answered
      <3>4. CASE FollowupsFor(FormOf(p), request[t].score) # {}
        <4>1. MarkFollowup(p) /\ submission' = [submission EXCEPT ![p] = "partial"]
          BY <1>5, <2>2, <3>4 DEF SubmitOverall, InsertSubmission
        <4>2. QED
          BY <1>5, <2>2, <3>1, <3>2, <3>3, <3>4, <4>1
          DEF MarkFollowup, AnsweredFirst, RowStep, Typing, RowsWhole
      <3>5. CASE FollowupsFor(FormOf(p), request[t].score) = {}
        <4>1. /\ Mark(p, "submitted", request[t].at) /\ UNCHANGED stage
              /\ submission' = [submission EXCEPT ![p] = "completed"]
          BY <1>5, <2>2, <3>5 DEF SubmitOverall, InsertSubmission
        <4>2. QED
          BY <1>5, <2>2, <3>1, <3>2, <3>3, <3>5, <4>1
          DEF Mark, AnsweredFirst, RowStep, Typing, RowsWhole
      <3>6. QED
        BY <3>4, <3>5
    <2>3. CASE ~(Prompt(t) = p /\ MayRate(t))
      BY <1>4, <1>5, <2>1, <2>3
      DEF SubmitOverall, InsertSubmission, InsertAnswers, MarkFollowup, Mark, RowSame,
          RowStep, Typing, RowsWhole
    <2>4. QED
      BY <2>2, <2>3
  <1>6. ASSUME NEW t \in Tabs, CompleteFollowup(t)
        PROVE  RowStep(p)
    <2>1. pc[t] = "locked" /\ End(t)
      BY <1>6 DEF CompleteFollowup
    <2>2. CASE Prompt(t) = p /\ MayComplete(t)
      <3>1. status[p] = "shown" /\ submission[p] = "partial"
        BY <1>4, <2>1, <2>2 DEF MayComplete
      <3>2. QED
        BY <1>6, <2>1, <2>2, <3>1
        DEF CompleteFollowup, InsertAnswers, CompleteSubmission, Mark, Answered, FollowedUp,
            RowStep, Typing, RowsWhole
    <2>3. CASE ~(Prompt(t) = p /\ MayComplete(t))
      BY <1>4, <1>6, <2>1, <2>3
      DEF CompleteFollowup, InsertAnswers, CompleteSubmission, Mark, RowSame, RowStep,
          Typing, RowsWhole
    <2>4. QED
      BY <2>2, <2>3
  <1>7. ASSUME NEW t \in Tabs, Dismiss(t)
        PROVE  RowStep(p)
    <2>1. pc[t] = "locked" /\ End(t)
      BY <1>7 DEF Dismiss
    <2>2. CASE Prompt(t) = p /\ status[p] = "shown"
      BY <1>4, <1>7, <2>1, <2>2
      DEF Dismiss, Mark, Answered, Dismissed, RowStep, Typing, RowsWhole
    <2>3. CASE ~(Prompt(t) = p /\ status[p] = "shown")
      BY <1>4, <1>7, <2>1, <2>3 DEF Dismiss, Mark, RowSame, RowStep, Typing, RowsWhole
    <2>4. QED
      BY <2>2, <2>3
  <1>8. ASSUME NEW t \in Tabs, Ask(t)
        PROVE  UNCHANGED rows
    BY <1>8, AskTyping DEF Typing
  <1>9. ASSUME NEW t \in Tabs, Fail(t) \/ CleanupIfDue(t) \/ LockOwnPrompt(t)
        PROVE  UNCHANGED rows
    BY <1>9 DEF Fail, CleanupIfDue, LockOwnPrompt
  <1>10. ASSUME NEW t \in Tabs, Present(t), ~PresentInsert(t)
         PROVE  UNCHANGED rows
    BY <1>10 DEF Present, PresentForm, PresentDecide, PresentLast, Continue
  <1>11. Tick \/ UNCHANGED vars => UNCHANGED rows
    BY DEF Tick, vars
  <1>12. QED
    BY <1>1, <1>2, <1>3, <1>5, <1>6, <1>7, <1>8, <1>9, <1>10, <1>11
    DEF Next, Serve, Cleanup, RowStep


RowTypes ==
    /\ status \in [Prompts -> Stored \cup {"none", "gone"}]
    /\ stage \in [Prompts -> {"overall", "followup"}]
    /\ owner \in [Prompts -> Users \cup {None}]
    /\ form \in [Prompts -> Forms \cup {None}]
    /\ shownAt \in [Prompts -> Nat]
    /\ finishedAt \in [Prompts -> Nat]
    /\ submission \in [Prompts -> {"none", "partial", "completed"}]
    /\ answers \in [Prompts -> SUBSET (Questions \cup Asked)]
    /\ overall \in [Prompts -> Scores \cup {None}]

LEMMA NextRowTypes == Typing /\ [Next]_vars => RowTypes'
  <1> SUFFICES ASSUME Typing, [Next]_vars
               PROVE  RowTypes'
    OBVIOUS
  <1>1. RowTypes
    BY DEF Typing, RowsWhole, RowTypes
  <1>2. ASSUME UNCHANGED rows
        PROVE  RowTypes'
    BY <1>1, <1>2 DEF rows, RowTypes
  <1>3. ASSUME NEW t \in Tabs
        PROVE  /\ request[t] \in Requests /\ request[t].at \in Nat
               /\ request[t].user \in Users \cup {None}
               /\ request[t].question \in Asked \cup {None}
               /\ request[t].score \in Scores \cup {None}
               /\ read[t].form \in Forms \cup {None}
    BY DEF Typing, RequestsWhole, Requests, Reads
  <1>4. ASSUME NEW t \in Tabs, PresentInsert(t)
        PROVE  RowTypes'
    BY <1>1, <1>3, <1>4 DEF PresentInsert, InsertPrompt, RowTypes, Stored
  <1>5. ASSUME NEW t \in Tabs, DeleteExpired(t)
        PROVE  RowTypes'
    BY <1>1, <1>5 DEF DeleteExpired, RowTypes
  <1>6. ASSUME NEW t \in Tabs, pc[t] = "locked"
        PROVE  Prompt(t) \in Prompts /\ form[Prompt(t)] \in Forms
               /\ (request[t].op = "submit" => request[t].question \in Asked)
    BY <1>6 DEF Typing, RequestsWhole, Fits, Prompt, LocksKept, RowsWhole
  <1>7. ASSUME NEW t \in Tabs, SubmitOverall(t)
        PROVE  RowTypes'
    <2>1. /\ Prompt(t) \in Prompts /\ request[t].question \in Asked
          /\ UNCHANGED <<owner, form, shownAt>>
      BY <1>6, <1>7 DEF SubmitOverall
    <2>2. answers' \in [Prompts -> SUBSET (Questions \cup Asked)]
      BY <1>1, <1>7, <2>1 DEF SubmitOverall, InsertAnswers, RowTypes
    <2>3. submission' \in [Prompts -> {"none", "partial", "completed"}]
      BY <1>1, <1>7, <2>1 DEF SubmitOverall, InsertSubmission, RowTypes
    <2>4. overall' \in [Prompts -> Scores \cup {None}]
      BY <1>1, <1>3, <1>7, <2>1 DEF SubmitOverall, RowTypes
    <2>5. /\ status' \in [Prompts -> Stored \cup {"none", "gone"}]
          /\ stage' \in [Prompts -> {"overall", "followup"}]
          /\ finishedAt' \in [Prompts -> Nat]
      BY <1>1, <1>3, <1>7, <2>1 DEF SubmitOverall, MarkFollowup, Mark, RowTypes, Stored
    <2>6. QED
      BY <1>1, <2>1, <2>2, <2>3, <2>4, <2>5 DEF RowTypes
  <1>8. ASSUME NEW t \in Tabs, CompleteFollowup(t)
        PROVE  RowTypes'
    <2>1. /\ Prompt(t) \in Prompts /\ form[Prompt(t)] \in Forms
          /\ UNCHANGED <<stage, owner, form, shownAt, overall>>
      BY <1>6, <1>8 DEF CompleteFollowup
    <2>2. MayComplete(t) => Given(request[t].list) \subseteq Questions
      BY <2>1 DEF MayComplete, ValidFollowup, FollowupsFor, FormOf, Questions
    <2>3. answers' \in [Prompts -> SUBSET (Questions \cup Asked)]
      BY <1>1, <1>8, <2>1, <2>2 DEF CompleteFollowup, InsertAnswers, RowTypes
    <2>4. submission' \in [Prompts -> {"none", "partial", "completed"}]
      BY <1>1, <1>8, <2>1 DEF CompleteFollowup, CompleteSubmission, RowTypes
    <2>5. /\ status' \in [Prompts -> Stored \cup {"none", "gone"}]
          /\ finishedAt' \in [Prompts -> Nat]
      BY <1>1, <1>3, <1>8, <2>1 DEF CompleteFollowup, Mark, RowTypes, Stored
    <2>6. QED
      BY <1>1, <2>1, <2>3, <2>4, <2>5 DEF RowTypes
  <1>9. ASSUME NEW t \in Tabs, Dismiss(t)
        PROVE  RowTypes'
    BY <1>1, <1>3, <1>6, <1>9 DEF Dismiss, Mark, RowTypes, Stored
  <1>10. ASSUME NEW t \in Tabs, Ask(t)
         PROVE  UNCHANGED rows
    BY <1>10, AskTyping DEF Typing
  <1>11. ASSUME NEW t \in Tabs, Fail(t) \/ CleanupIfDue(t) \/ LockOwnPrompt(t)
         PROVE  UNCHANGED rows
    BY <1>11 DEF Fail, CleanupIfDue, LockOwnPrompt
  <1>12. ASSUME NEW t \in Tabs, Present(t), ~PresentInsert(t)
         PROVE  UNCHANGED rows
    BY <1>12 DEF Present, PresentForm, PresentDecide, PresentLast, Continue
  <1>13. Tick \/ UNCHANGED vars => UNCHANGED rows
    BY DEF Tick, vars
  <1>14. QED
    BY <1>2, <1>4, <1>5, <1>7, <1>8, <1>9, <1>10, <1>11, <1>12, <1>13
    DEF Next, Serve, Cleanup

LEMMA NextCleanup == Typing /\ [Next]_vars => lastCleanup' \in Nat
  <1> SUFFICES ASSUME Typing, [Next]_vars
               PROVE  lastCleanup' \in Nat
    OBVIOUS
  <1>1. lastCleanup \in Nat /\ \A t \in Tabs : request[t].at \in Nat
    BY DEF Typing, RowsWhole, RequestsWhole, Requests
  <1>2. ASSUME NEW t \in Tabs, CleanupIfDue(t)
        PROVE  lastCleanup' \in Nat
    BY <1>1, <1>2 DEF CleanupIfDue
  <1>3. ASSUME NEW t \in Tabs, Ask(t)
        PROVE  UNCHANGED lastCleanup
    BY <1>3, AskTyping DEF Typing
  <1>4. ASSUME NEW t \in Tabs, Present(t) \/ DeleteExpired(t) \/ LockOwnPrompt(t)
                               \/ SubmitOverall(t) \/ CompleteFollowup(t) \/ Dismiss(t)
                               \/ Fail(t)
        PROVE  UNCHANGED lastCleanup
    BY <1>4 DEF Present, PresentForm, PresentDecide, PresentLast, PresentInsert, Continue,
                DeleteExpired, LockOwnPrompt, SubmitOverall, CompleteFollowup, Dismiss, Fail
  <1>5. Tick \/ UNCHANGED vars => UNCHANGED lastCleanup
    BY DEF Tick, vars
  <1>6. QED
    BY <1>1, <1>2, <1>3, <1>4, <1>5 DEF Next, Serve, Cleanup

LEMMA NextRows == Typing /\ [Next]_vars => RowsWhole'
  <1> SUFFICES ASSUME Typing, [Next]_vars
               PROVE  RowsWhole'
    OBVIOUS
  <1>1. RowTypes' /\ lastCleanup' \in Nat
    BY NextRowTypes, NextCleanup
  <1>2. ASSUME NEW p \in Prompts
        PROVE  /\ Exists(p)' => owner'[p] \in Users /\ form'[p] \in Forms
               /\ submission'[p] # "none" => Exists(p)'
    <2>1. /\ Exists(p) => owner[p] \in Users /\ form[p] \in Forms
          /\ submission[p] # "none" => Exists(p)
      BY DEF Typing, RowsWhole
    <2>2. CASE RowSame(p)
      BY <2>1, <2>2 DEF RowSame, Exists
    <2>3. ASSUME NEW t \in Tabs, Inserted(p, t)
          PROVE  /\ owner'[p] \in Users /\ form'[p] \in Forms /\ status'[p] = "shown"
      BY <2>3 DEF Inserted, PresentInsert, Typing, RequestsWhole, Fits
    <2>4. ASSUME NEW t \in Tabs, Deleted(p, t)
          PROVE  ~Exists(p)' /\ submission'[p] = "none"
      BY <2>4 DEF Deleted, Exists, Stored
    <2>5. ASSUME NEW t \in Tabs, Answered(p, t)
          PROVE  Exists(p) /\ owner'[p] = owner[p] /\ form'[p] = form[p]
      BY <2>5 DEF Answered, Typing, LocksKept
    <2>6. ASSUME NEW t \in Tabs, AnsweredFirst(p, t) \/ FollowedUp(p, t) \/ Dismissed(p, t)
          PROVE  Exists(p)' /\ Answered(p, t)
      <3>1. Answered(p, t)
        BY <2>6 DEF AnsweredFirst, FollowedUp, Dismissed
      <3>2. status'[p] = status[p] \/ status'[p] \in {"submitted", "dismissed"}
        BY <2>6 DEF AnsweredFirst, FollowedUp, Dismissed
      <3>3. QED
        BY <2>5, <3>1, <3>2 DEF Exists, Stored
    <2>7. QED
      BY <2>1, <2>2, <2>3, <2>4, <2>5, <2>6, RowSteps DEF RowStep, Exists, Stored
  <1>3. QED
    BY <1>1, <1>2 DEF RowTypes, RowsWhole

\* What a step does to the transaction of a tab: nothing, its end, or
TabSame(s) ==
    pc'[s] = pc[s] /\ request'[s] = request[s] /\ read'[s] = read[s] /\ batch'[s] = batch[s]

Ended(s) == pc'[s] = "idle" /\ batch'[s] = {}

\* its beginning,
Began(s) ==
    /\ pc'[s] \in {"existing", "lock"} /\ batch'[s] = {} /\ request'[s].at = now
    /\ pc'[s] = "lock" => status[request'[s].prompt] # "none"
    /\ UNCHANGED <<now, rows>>

\* a list to delete,
Listed(s) ==
    /\ CleanupIfDue(s) /\ pc'[s] = "delete" /\ batch'[s] \subseteq Expired(request[s].at)
    /\ UNCHANGED <<now, rows>>

\* the row of its prompt,
Locked(s) ==
    /\ LockOwnPrompt(s) /\ pc[s] = "lock" /\ pc'[s] = "locked"
    /\ Exists(Prompt(s)) /\ Unlocked(Prompt(s)) /\ owner[Prompt(s)] = request[s].user
    /\ read'[s].status = status[Prompt(s)]
    /\ request'[s] = request[s] /\ batch'[s] = batch[s]
    /\ UNCHANGED <<now, rows>>

\* or the next statement of a presentation.
Presented(s) ==
    /\ Present(s) /\ pc[s] \in {"existing", "advisory", "last", "insert"}
    /\ pc'[s] \in {"advisory", "last", "insert", "due"}
    /\ request'[s] = request[s] /\ batch'[s] = batch[s]
    /\ pc'[s] \in {"last", "insert"} => read'[s] = read[s]
    /\ pc'[s] = "last" =>
           /\ pc[s] = "advisory"
           /\ Undecided(request[s].user, FormRows[read[s].form].key)
    /\ pc'[s] = "insert" =>
           pc[s] = "last" /\ ~CoolingDown(request[s].user, read[s].form, request[s].at)
    /\ pc[s] # "insert" => UNCHANGED rows
    /\ UNCHANGED now

Moves(s) == Ended(s) \/ Began(s) \/ Listed(s) \/ Locked(s) \/ Presented(s)

OthersSame(s) == \A t \in Tabs \ {s} : TabSame(t)

\* One tab at a time takes a step.
LEMMA TabSteps ==
    ASSUME Typing, [Next]_vars
    PROVE  \/ \A s \in Tabs : TabSame(s)
           \/ \E s \in Tabs : Moves(s) /\ OthersSame(s)
  <1>1. RequestsWhole
    BY DEF Typing
  <1>2. ASSUME NEW t \in Tabs, End(t)
        PROVE  Ended(t) /\ OthersSame(t)
    BY <1>1, <1>2 DEF End, Go, Ended, OthersSame, TabSame, RequestsWhole
  <1>3. ASSUME NEW t \in Tabs, Ask(t)
        PROVE  Began(t) /\ OthersSame(t)
    <2>1. PICK to \in {"existing", "lock"}, q \in Requests :
              /\ Begin(t, to, q) /\ q.at = now
              /\ to = "lock" => status[q.prompt] # "none"
      BY <1>1, <1>3, AskBegins
    <2>2. batch[t] = {}
      BY <1>1, <2>1 DEF RequestsWhole, Fits, Begin
    <2>3. QED
      BY <1>1, <2>1, <2>2 DEF Begin, Go, Began, OthersSame, TabSame, RequestsWhole
  <1>4. ASSUME NEW t \in Tabs, Present(t)
        PROVE  Presented(t) /\ OthersSame(t)
    <2>1. CASE \E f \in Forms \cup {None} : PresentForm(t, f)
      <3>1. PICK f \in Forms \cup {None} : PresentForm(t, f)
        BY <2>1
      <3>2. PICK to \in {"advisory", "due"} : Continue(t, to)
        BY <3>1 DEF PresentForm
      <3>3. pc[t] = "existing" /\ \A s \in Tabs \ {t} : read'[s] = read[s]
        BY <1>1, <3>1 DEF PresentForm, RequestsWhole
      <3>4. QED
        BY <1>1, <1>4, <3>2, <3>3
        DEF Continue, Go, Presented, OthersSame, TabSame, RequestsWhole
    <2>2. CASE PresentDecide(t)
      BY <1>1, <1>4, <2>2
      DEF PresentDecide, Continue, Go, Presented, OthersSame, TabSame, RequestsWhole
    <2>3. CASE PresentLast(t)
      BY <1>1, <1>4, <2>3
      DEF PresentLast, Continue, Go, Presented, OthersSame, TabSame, RequestsWhole
    <2>4. CASE PresentInsert(t)
      BY <1>1, <1>4, <2>4
      DEF PresentInsert, Go, Presented, OthersSame, TabSame, RequestsWhole
    <2>5. QED
      BY <1>4, <2>1, <2>2, <2>3, <2>4 DEF Present
  <1>5. ASSUME NEW t \in Tabs, CleanupIfDue(t)
        PROVE  Moves(t) /\ OthersSame(t)
    <2>1. CASE End(t)
      BY <1>2, <2>1 DEF Moves
    <2>2. CASE ~End(t)
      <3>1. PICK oldest \in OldestExpired(request[t].at) :
                /\ batch' = [batch EXCEPT ![t] = oldest] /\ Go(t, "delete")
                /\ UNCHANGED <<now, rows, request, read>>
        BY <1>5, <2>2 DEF CleanupIfDue
      <3>2. oldest \subseteq Expired(request[t].at)
        BY <3>1 DEF OldestExpired
      <3>3. QED
        BY <1>1, <1>5, <3>1, <3>2
        DEF Go, Listed, Moves, OthersSame, TabSame, RequestsWhole
    <2>3. QED
      BY <2>1, <2>2
  <1>6. ASSUME NEW t \in Tabs, LockOwnPrompt(t)
        PROVE  Moves(t) /\ OthersSame(t)
    <2>1. CASE End(t)
      BY <1>2, <2>1 DEF Moves
    <2>2. CASE ~End(t)
      <3>1. /\ pc[t] = "lock" /\ Exists(Prompt(t)) /\ Unlocked(Prompt(t))
            /\ owner[Prompt(t)] = request[t].user /\ Go(t, "locked")
            /\ read' = [read EXCEPT ![t].status = status[Prompt(t)]]
            /\ UNCHANGED <<now, rows, request, batch>>
        BY <1>6, <2>2 DEF LockOwnPrompt
      <3>2. read[t] \in Reads
        BY <1>1 DEF RequestsWhole
      <3>3. read'[t].status = status[Prompt(t)]
        BY <1>1, <3>1, <3>2 DEF RequestsWhole, Reads
      <3>4. OthersSame(t) /\ pc'[t] = "locked"
        BY <1>1, <3>1 DEF Go, OthersSame, TabSame, RequestsWhole
      <3>5. QED
        BY <1>6, <3>1, <3>3, <3>4 DEF Locked, Moves
    <2>3. QED
      BY <2>1, <2>2
  <1>7. ASSUME NEW t \in Tabs,
               DeleteExpired(t) \/ SubmitOverall(t) \/ CompleteFollowup(t) \/ Dismiss(t)
               \/ Fail(t)
        PROVE  End(t)
    BY <1>7 DEF DeleteExpired, SubmitOverall, CompleteFollowup, Dismiss, Fail
  <1>8. Tick \/ UNCHANGED vars => \A s \in Tabs : TabSame(s)
    BY DEF Tick, vars, txs, TabSame
  <1>9. QED
    BY <1>2, <1>3, <1>4, <1>5, <1>6, <1>7, <1>8 DEF Next, Serve, Cleanup, Moves

LEMMA NextLocks == Typing /\ [Next]_vars => LocksKept'
  <1> SUFFICES ASSUME Typing, [Next]_vars
               PROVE  LocksKept'
    OBVIOUS
  <1>1. LocksKept
    BY DEF Typing
  <1>2. ASSUME NEW s \in Tabs, pc'[s] = "locked"
        PROVE  Prompt(s)' = Prompt(s) /\ request'[s] = request[s] /\ Prompt(s) \in Prompts
               /\ \/ pc[s] = "locked" /\ TabSame(s)
                  \/ Locked(s) /\ OthersSame(s)
    <2>1. \/ pc[s] = "locked" /\ TabSame(s)
          \/ Locked(s) /\ OthersSame(s)
      BY <1>2, TabSteps
      DEF TabSame, Moves, Ended, Began, Listed, Presented, OthersSame
    <2>2. request'[s] = request[s] /\ pc[s] \in {"lock", "locked"}
      BY <2>1 DEF TabSame, Locked
    <2>3. Prompt(s) \in Prompts
      BY <2>2 DEF Typing, RequestsWhole, Fits, Prompt
    <2>4. QED
      BY <2>1, <2>2, <2>3 DEF Prompt
  <1>3. ASSUME NEW s \in Tabs, pc'[s] = "locked"
        PROVE  /\ Exists(Prompt(s))' /\ owner'[Prompt(s)] = request[s].user
               /\ read'[s].status = status'[Prompt(s)]
    <2>1. CASE Locked(s)
      BY <2>1 DEF Locked, Exists, rows, Prompt
    <2>2. CASE pc[s] = "locked" /\ TabSame(s)
      <3> DEFINE p == Prompt(s)
      <3>1. p \in Prompts /\ request'[s].prompt = p
        BY <1>2, <1>3 DEF Prompt
      <3>2. /\ Exists(p) /\ owner[p] = request[s].user /\ read[s].status = status[p]
        BY <1>1, <2>2 DEF LocksKept
      <3>3. ASSUME NEW t \in Tabs
            PROVE  ~Inserted(p, t) /\ ~Deleted(p, t) /\ ~Answered(p, t)
        <4>1. ~Inserted(p, t)
          BY <3>2 DEF Inserted, Exists, Stored
        <4>2. ~Deleted(p, t)
          BY <2>2 DEF Deleted, DeleteExpired, Unlocked
        <4>3. ~Answered(p, t)
          <5> SUFFICES ASSUME Answered(p, t)
                       PROVE  FALSE
            OBVIOUS
          <5>1. s = t
            BY <1>1, <2>2 DEF Answered, LocksKept
          <5>2. pc'[s] = "idle"
            BY <5>1 DEF Answered, End, Go, Typing, RequestsWhole
          <5>3. QED
            BY <1>3, <5>2
        <4>4. QED
          BY <4>1, <4>2, <4>3
      <3>4. RowSame(p)
        BY <3>1, <3>3, RowSteps DEF RowStep, AnsweredFirst, FollowedUp, Dismissed
      <3>5. QED
        BY <2>2, <3>1, <3>2, <3>4 DEF RowSame, TabSame, Exists, Prompt
    <2>3. QED
      BY <1>2, <1>3, <2>1, <2>2
  <1>4. ASSUME NEW s \in Tabs, NEW t \in Tabs, pc'[s] = "locked", pc'[t] = "locked",
               Prompt(s)' = Prompt(t)'
        PROVE  s = t
    <2>1. Prompt(s) = Prompt(t)
      BY <1>2, <1>4
    <2>2. CASE pc[s] = "locked" /\ pc[t] = "locked"
      BY <1>1, <2>1, <2>2 DEF LocksKept
    <2>3. CASE pc[s] # "locked"
      BY <1>2, <1>4, <2>1, <2>3 DEF Locked, Unlocked, OthersSame, TabSame
    <2>4. CASE pc[t] # "locked"
      BY <1>2, <1>4, <2>1, <2>4 DEF Locked, Unlocked, OthersSame, TabSame
    <2>5. QED
      BY <2>2, <2>3, <2>4
  <1>5. ASSUME NEW s \in Tabs, pc'[s] = "locked"
        PROVE  /\ Exists(Prompt(s))' /\ owner'[Prompt(s)'] = request'[s].user
               /\ read'[s].status = status'[Prompt(s)']
    BY <1>2, <1>3, <1>5
  <1>6. QED
    BY <1>4, <1>5 DEF LocksKept

LEMMA NextTyping == Typing /\ [Next]_vars => Typing'
  BY NextRequests, NextRows, NextLocks DEF Typing

LEMMA Typed == Spec => []Typing
  <1>1. QED
    BY InitTyping, NextTyping, PTL DEF Spec

\* Every variable has its type, whichever requests overlap and whichever of them fail
\* (server/internal/userfeedback, store/feedback.go).
THEOREM TypesHold == Spec => []TypeOK
  <1>1. QED
    BY Typed, TypingTypeOK, PTL

-----------------------------------------------------------------------------
(* The times of a prompt *)

Clocked(p) ==
    /\ ~Exists(p) => finishedAt[p] = 0
    /\ Exists(p) => /\ shownAt[p] <= now
                    /\ finishedAt[p] # 0 => shownAt[p] <= finishedAt[p]

\* Who answers a prompt was asked to after it was shown, and what is listed for deletion
\* stays expired.
TimesKept ==
    /\ \A p \in Prompts : Clocked(p)
    /\ \A t \in Tabs : pc[t] \in {"lock", "locked"} =>
           /\ status[Prompt(t)] # "none"
           /\ Exists(Prompt(t)) => shownAt[Prompt(t)] <= request[t].at
    /\ \A t \in Tabs : \A p \in batch[t] :
           status[p] # "none" /\ (Exists(p) => shownAt[p] + Retention < now)

LEMMA ClockSteps == [Next]_vars => now' = now \/ now' = now + 1
  <1> SUFFICES ASSUME [Next]_vars
               PROVE  now' = now \/ now' = now + 1
    OBVIOUS
  <1>1. ASSUME NEW t \in Tabs, Ask(t)
        PROVE  now' = now
    BY <1>1 DEF Ask, PresentBegin, SubmitBegin, CompleteBegin, DismissBegin, Begin
  <1>2. ASSUME NEW t \in Tabs, Present(t) \/ CleanupIfDue(t) \/ DeleteExpired(t)
                               \/ LockOwnPrompt(t) \/ SubmitOverall(t) \/ CompleteFollowup(t)
                               \/ Dismiss(t) \/ Fail(t)
        PROVE  now' = now
    BY <1>2 DEF Present, PresentForm, PresentDecide, PresentLast, PresentInsert, Continue,
                CleanupIfDue, DeleteExpired, LockOwnPrompt, SubmitOverall, CompleteFollowup,
                Dismiss, Fail
  <1>3. QED
    BY <1>1, <1>2 DEF Next, Serve, Cleanup, Tick, vars

\* A prompt is new once, and what is shown of it is settled then.
LEMMA Lasting ==
    ASSUME Typing, [Next]_vars, NEW p \in Prompts, status[p] # "none"
    PROVE  /\ status'[p] # "none"
           /\ Exists(p)' => /\ Exists(p) /\ shownAt'[p] = shownAt[p]
                            /\ owner'[p] = owner[p] /\ form'[p] = form[p]
  <1>1. CASE RowSame(p)
    BY <1>1 DEF RowSame, Exists
  <1>2. ASSUME NEW t \in Tabs, Deleted(p, t)
        PROVE  status'[p] = "gone"
    BY <1>2 DEF Deleted
  <1>3. ASSUME NEW t \in Tabs, AnsweredFirst(p, t) \/ FollowedUp(p, t) \/ Dismissed(p, t)
        PROVE  /\ Exists(p) /\ shownAt'[p] = shownAt[p]
               /\ owner'[p] = owner[p] /\ form'[p] = form[p]
               /\ status'[p] # "none"
    <2>1. Answered(p, t)
      BY <1>3 DEF AnsweredFirst, FollowedUp, Dismissed
    <2>2. Exists(p)
      BY <2>1 DEF Answered, Typing, LocksKept
    <2>3. status'[p] \in {status[p], "submitted", "dismissed"}
      BY <1>3 DEF AnsweredFirst, FollowedUp, Dismissed
    <2>4. QED
      BY <2>1, <2>2, <2>3 DEF Answered, Exists, Stored
  <1>4. QED
    BY <1>1, <1>2, <1>3, RowSteps DEF RowStep, Inserted, Exists, Stored

LEMMA InitTimes == Init => TimesKept
  BY DEF Init, TimesKept, Clocked, Exists, Stored

LEMMA NextTimes == Typing /\ TimesKept /\ [Next]_vars => TimesKept'
  <1> SUFFICES ASSUME Typing, TimesKept, [Next]_vars
               PROVE  TimesKept'
    OBVIOUS
  <1>1. RequestsWhole /\ RequestsWhole'
    BY NextTyping DEF Typing
  <1>2. now \in Nat /\ now' \in Nat /\ now <= now' /\ Retention \in Nat
    BY <1>1, Clock, ClockSteps, FeedbackAssumption
  <1>3. ASSUME NEW t \in Tabs
        PROVE  /\ request[t] \in Requests /\ request[t].at \in Nat /\ request[t].at <= now
               /\ pc[t] # "idle" => request[t].at >= 1
               /\ pc[t] \in {"lock", "locked"} => Prompt(t) \in Prompts
               /\ pc'[t] \in {"lock", "locked"} => request'[t].prompt \in Prompts
               /\ batch[t] \subseteq Prompts
    BY <1>1 DEF RequestsWhole, Requests, Fits, Prompt
  <1>4. ASSUME NEW p \in Prompts
        PROVE  /\ shownAt[p] \in Nat /\ finishedAt[p] \in Nat /\ Clocked(p)
    BY DEF Typing, RowsWhole, TimesKept
  <1>5. ASSUME NEW p \in Prompts
        PROVE  Clocked(p)'
    <2>1. CASE RowSame(p)
      BY <1>2, <1>4, <2>1 DEF RowSame, Clocked, Exists
    <2>2. ASSUME NEW t \in Tabs, Inserted(p, t)
          PROVE  Clocked(p)'
      BY <1>2, <1>3, <1>4, <2>2 DEF Inserted, Clocked, Exists, Stored
    <2>3. ASSUME NEW t \in Tabs, Deleted(p, t)
          PROVE  Clocked(p)'
      BY <2>3 DEF Deleted, Clocked, Exists, Stored
    <2>4. ASSUME NEW t \in Tabs, AnsweredFirst(p, t) \/ FollowedUp(p, t) \/ Dismissed(p, t)
          PROVE  Clocked(p)'
      <3>1. Answered(p, t)
        BY <2>4 DEF AnsweredFirst, FollowedUp, Dismissed
      <3>2. Exists(p) /\ shownAt[p] <= request[t].at /\ shownAt'[p] = shownAt[p]
        BY <3>1 DEF Answered, Typing, LocksKept, TimesKept
      <3>3. finishedAt'[p] \in {finishedAt[p], request[t].at} /\ status'[p] # "none"
            /\ status'[p] \in {status[p], "submitted", "dismissed"}
        BY <2>4, <3>2 DEF AnsweredFirst, FollowedUp, Dismissed, Exists, Stored
      <3>4. QED
        BY <1>2, <1>3, <1>4, <3>2, <3>3 DEF Clocked, Exists, Stored
    <2>5. QED
      BY <2>1, <2>2, <2>3, <2>4, RowSteps DEF RowStep
  <1>6. ASSUME NEW t \in Tabs, pc'[t] \in {"lock", "locked"}
        PROVE  /\ status'[Prompt(t)'] # "none"
               /\ Exists(Prompt(t))' => shownAt'[Prompt(t)'] <= request'[t].at
    <2>1. PICK p \in Prompts : p = request'[t].prompt
      BY <1>3, <1>6
    <2>2. \/ TabSame(t)
          \/ Began(t)
          \/ Locked(t)
      BY <1>6, TabSteps DEF Moves, Ended, Listed, Presented, OthersSame
    <2>3. CASE Began(t)
      <3>1. status[p] # "none" /\ request'[t].at = now /\ UNCHANGED rows
        BY <1>6, <2>1, <2>3 DEF Began, LockOwnPrompt
      <3>2. QED
        BY <1>4, <2>1, <3>1 DEF Clocked, Exists, rows, Prompt
    <2>4. CASE TabSame(t) \/ Locked(t)
      <3>1. request'[t] = request[t] /\ pc[t] \in {"lock", "locked"} /\ p = Prompt(t)
        BY <1>6, <2>1, <2>4 DEF TabSame, Locked, Prompt
      <3>2. /\ status[p] # "none"
            /\ Exists(p) => shownAt[p] <= request[t].at
        BY <3>1 DEF TimesKept
      <3>3. QED
        BY <2>1, <3>1, <3>2, Lasting DEF Prompt, Exists
    <2>5. QED
      BY <2>2, <2>3, <2>4
  <1>7. ASSUME NEW t \in Tabs, NEW p \in batch'[t]
        PROVE  status'[p] # "none" /\ (Exists(p)' => shownAt'[p] + Retention < now')
    <2>1. \/ p \in batch[t]
          \/ Listed(t)
      BY <1>7, TabSteps DEF Moves, TabSame, Ended, Began, Presented, Locked, OthersSame
    <2>2. p \in Prompts
      BY <1>1, <1>7 DEF RequestsWhole
    <2>3. CASE p \in batch[t]
      <3>1. status[p] # "none" /\ (Exists(p) => shownAt[p] + Retention < now)
        BY <2>3 DEF TimesKept
      <3>2. QED
        BY <1>2, <1>4, <2>2, <3>1, Lasting
    <2>4. CASE Listed(t)
      <3>1. Exists(p) /\ LastTouched(p) + Retention < request[t].at /\ UNCHANGED <<now, rows>>
        BY <1>7, <2>4 DEF Listed, Expired
      <3>2. shownAt[p] <= LastTouched(p) /\ LastTouched(p) \in Nat
        BY <1>4, <2>2, <3>1 DEF Clocked, LastTouched
      <3>3. shownAt[p] + Retention < now
        BY <1>2, <1>3, <1>4, <2>2, <3>1, <3>2
      <3>4. QED
        BY <3>1, <3>3 DEF rows, Exists, Stored
    <2>5. QED
      BY <2>1, <2>3, <2>4
  <1>8. QED
    BY <1>5, <1>6, <1>7 DEF TimesKept

LEMMA Timed == Spec => []TimesKept
  <1>1. QED
    BY Typed, InitTimes, NextTimes, PTL DEF Spec

LEMMA NextDeletes ==
    Typing /\ TimesKept /\ [Next]_vars
    => \A p \in Prompts : Exists(p) /\ status'[p] = "gone" => shownAt[p] + Retention < now
  <1> SUFFICES ASSUME Typing, TimesKept, [Next]_vars, NEW p \in Prompts,
                      Exists(p), status'[p] = "gone"
               PROVE  shownAt[p] + Retention < now
    OBVIOUS
  <1>1. PICK t \in Tabs : Deleted(p, t)
    BY RowSteps DEF RowStep, RowSame, Inserted, AnsweredFirst, FollowedUp, Dismissed, Exists,
                    Stored
  <1>2. QED
    BY <1>1 DEF Deleted, TimesKept

\* What is deleted was shown longer ago than the retention, also when it was answered
\* after it was listed, or the deletion waited for locks (store/feedback.go,
\* DeleteExpired).
THEOREM DeletesHold == Spec => DeletedOnlyOld
  <1>1. Typing /\ TimesKept /\ [Next]_vars
        => [\A p \in Prompts : Exists(p) /\ status'[p] = "gone"
                               => shownAt[p] + Retention < now]_vars
    BY NextDeletes
  <1>2. QED
    BY <1>1, Typed, Timed, PTL DEF Spec, DeletedOnlyOld

-----------------------------------------------------------------------------
(* The cooldown *)

Decides(t) == pc[t] \in {"last", "insert"}

Key(t) == FormRows[read[t].form].key

\* One transaction at a time decides for a user and a form, ...
DecidesAlone ==
    \A s, t \in Tabs :
        Decides(s) /\ Decides(t) /\ request[s].user = request[t].user /\ Key(s) = Key(t)
        => s = t

\* ... and what it has decided stays right until it inserts.
DecisionStands ==
    \A t \in Tabs : pc[t] = "insert" =>
        ~CoolingDown(request[t].user, read[t].form, request[t].at)

Cooled == DecidesAlone /\ DecisionStands /\ CooldownKept

LEMMA InitCooled == Init => Cooled
  BY DEF Init, Cooled, DecidesAlone, Decides, DecisionStands, CooldownKept, Exists, Stored

\* Who decides after a step decided before, or has just found that nobody else does.
LEMMA Deciding ==
    ASSUME Typing, [Next]_vars, NEW t \in Tabs, Decides(t)'
    PROVE  /\ request'[t] = request[t] /\ read'[t] = read[t] /\ Key(t)' = Key(t)
           /\ \/ Decides(t)
              \/ OthersSame(t) /\ Undecided(request[t].user, Key(t))
           /\ pc'[t] = "insert" =>
                 \/ pc[t] = "insert"
                 \/ UNCHANGED rows /\ ~CoolingDown(request[t].user, read[t].form, request[t].at)
  <1>1. \/ TabSame(t)
        \/ Presented(t) /\ OthersSame(t) /\ pc'[t] \in {"last", "insert"}
    BY TabSteps DEF Decides, Moves, Ended, Began, Listed, Locked, OthersSame
  <1>2. request'[t] = request[t] /\ read'[t] = read[t]
    BY <1>1 DEF TabSame, Presented
  <1>3. CASE TabSame(t)
    BY <1>2, <1>3 DEF TabSame, Decides, Key
  <1>4. CASE Presented(t) /\ OthersSame(t) /\ pc'[t] = "last"
    BY <1>2, <1>4 DEF Presented, Key
  <1>5. CASE Presented(t) /\ OthersSame(t) /\ pc'[t] = "insert"
    BY <1>2, <1>5 DEF Presented, Key, Decides
  <1>6. QED
    BY <1>1, <1>3, <1>4, <1>5

LEMMA NextDecidesAlone == Typing /\ DecidesAlone /\ [Next]_vars => DecidesAlone'
  <1> SUFFICES ASSUME Typing, DecidesAlone, [Next]_vars, NEW s \in Tabs, NEW t \in Tabs,
                      Decides(s)', Decides(t)', request'[s].user = request'[t].user,
                      Key(s)' = Key(t)'
               PROVE  s = t
    BY DEF DecidesAlone
  <1>1. /\ request[s].user = request[t].user /\ Key(s) = Key(t)
        /\ Decides(s) \/ (OthersSame(s) /\ Undecided(request[s].user, Key(s)))
        /\ Decides(t) \/ (OthersSame(t) /\ Undecided(request[t].user, Key(t)))
    <2>1. /\ request'[s] = request[s] /\ Key(s)' = Key(s)
          /\ Decides(s) \/ (OthersSame(s) /\ Undecided(request[s].user, Key(s)))
      BY Deciding
    <2>2. /\ request'[t] = request[t] /\ Key(t)' = Key(t)
          /\ Decides(t) \/ (OthersSame(t) /\ Undecided(request[t].user, Key(t)))
      BY Deciding
    <2>3. QED
      BY <2>1, <2>2
  <1>2. CASE Decides(s) /\ Decides(t)
    BY <1>1, <1>2 DEF DecidesAlone
  <1>3. CASE ~Decides(s)
    BY <1>1, <1>3 DEF OthersSame, TabSame, Undecided, Decides, Key
  <1>4. CASE ~Decides(t)
    BY <1>1, <1>4 DEF OthersSame, TabSame, Undecided, Decides, Key
  <1>5. QED
    BY <1>2, <1>3, <1>4

\* A prompt that is there after a step was there, the same, or has just been inserted.
LEMMA There ==
    ASSUME Typing, [Next]_vars, NEW p \in Prompts, Exists(p)'
    PROVE  \/ /\ Exists(p) /\ shownAt'[p] = shownAt[p]
              /\ owner'[p] = owner[p] /\ form'[p] = form[p]
           \/ \E t \in Tabs : Inserted(p, t)
  <1>1. CASE status[p] # "none"
    BY <1>1, Lasting
  <1>2. CASE status[p] = "none"
    <2>1. ~RowSame(p)
      BY <1>2 DEF RowSame, Exists, Stored
    <2>2. ASSUME NEW t \in Tabs
          PROVE  ~Deleted(p, t) /\ ~Answered(p, t)
      BY <1>2 DEF Deleted, Answered, Typing, LocksKept, Exists, Stored
    <2>3. QED
      BY <2>1, <2>2, RowSteps DEF RowStep, AnsweredFirst, FollowedUp, Dismissed
  <1>3. QED
    BY <1>1, <1>2

LEMMA NextDecisionStands ==
    Typing /\ DecidesAlone /\ DecisionStands /\ [Next]_vars => DecisionStands'
  <1> SUFFICES ASSUME Typing, DecidesAlone, DecisionStands, [Next]_vars, NEW t \in Tabs,
                      pc'[t] = "insert"
               PROVE  ~CoolingDown(request[t].user, read[t].form, request[t].at)'
    BY DEF DecisionStands
  <1>1. Decides(t)'
    BY DEF Decides
  <1>2. /\ request'[t] = request[t] /\ read'[t] = read[t]
        /\ \/ pc[t] = "insert"
           \/ UNCHANGED rows /\ ~CoolingDown(request[t].user, read[t].form, request[t].at)
    BY <1>1, Deciding
  <1> DEFINE u == request[t].user
             f == read[t].form
             i == request[t].at
  <1>3. ~CoolingDown(u, f, i)
    BY <1>2 DEF DecisionStands
  <1>4. ASSUME NEW p \in Prompts, Exists(p)', owner'[p] = u,
               FormRows[form'[p]].key = FormRows[f].key
        PROVE  ~(i < NextEligibleAt(shownAt'[p], FormRows[f].cooldown))
    <2>1. CASE /\ Exists(p) /\ shownAt'[p] = shownAt[p]
               /\ owner'[p] = owner[p] /\ form'[p] = form[p]
      BY <1>3, <1>4, <2>1 DEF CoolingDown, PromptsOf, FormOf
    <2>2. ASSUME NEW s \in Tabs, Inserted(p, s)
          PROVE  FALSE
      <3>1. pc[s] = "insert" /\ request[s].user = u /\ Key(s) = FormRows[f].key
            /\ pc'[s] = "due" /\ status[p] = "none" /\ status'[p] = "shown"
        BY <1>4, <2>2 DEF Inserted, PresentInsert, Go, Typing, RequestsWhole, Key
      <3>2. pc[t] = "insert"
        BY <1>2, <3>1 DEF rows
      <3>3. s = t
        BY <3>1, <3>2 DEF DecidesAlone, Decides, Key
      <3>4. QED
        BY <3>1, <3>3
    <2>3. QED
      BY <1>4, <2>1, <2>2, There
  <1>5. QED
    BY <1>2, <1>4 DEF CoolingDown, PromptsOf, FormOf

LEMMA NextCooldown ==
    Typing /\ DecisionStands /\ CooldownKept /\ [Next]_vars => CooldownKept'
  <1> SUFFICES ASSUME Typing, DecisionStands, CooldownKept, [Next]_vars
               PROVE  CooldownKept'
    OBVIOUS
  <1> DEFINE Rests(p, q) ==
                 shownAt'[q] >= NextEligibleAt(shownAt'[p], FormRows[form'[q]].cooldown)
             Old(p) == /\ Exists(p) /\ shownAt'[p] = shownAt[p]
                       /\ owner'[p] = owner[p] /\ form'[p] = form[p]
  <1>1. ASSUME NEW p \in Prompts, NEW q \in Prompts, Old(p), Exists(q)', ~Old(q),
               owner'[p] = owner'[q],
               FormRows[form'[p]].key = FormRows[form'[q]].key
        PROVE  Rests(p, q)
    <2>1. PICK t \in Tabs : Inserted(q, t)
      BY <1>1, There
    <2>2. /\ ~CoolingDown(request[t].user, read[t].form, request[t].at)
          /\ read[t].form \in Forms /\ request[t].at \in Nat
      BY <2>1 DEF DecisionStands, Inserted, PresentInsert, Typing, RequestsWhole, Fits,
                  Requests
    <2>3. p \in PromptsOf(request[t].user, FormRows[read[t].form].key)
      BY <1>1, <2>1 DEF PromptsOf, Inserted, FormOf
    <2>4. ~(request[t].at < NextEligibleAt(shownAt[p], FormRows[read[t].form].cooldown))
      BY <2>2, <2>3 DEF CoolingDown
    <2>5. shownAt[p] \in Nat /\ FormRows[read[t].form].cooldown \in Nat
      BY <2>2, FeedbackAssumption DEF Typing, RowsWhole
    <2>6. QED
      BY <1>1, <2>1, <2>2, <2>4, <2>5 DEF Inserted, NextEligibleAt
  <1>2. ASSUME NEW p \in Prompts, NEW q \in Prompts, p # q,
               Exists(p)', Exists(q)', owner'[p] = owner'[q],
               FormRows[form'[p]].key = FormRows[form'[q]].key
        PROVE  Rests(p, q) \/ Rests(q, p)
    <2>1. CASE Old(p) /\ Old(q)
      BY <1>2, <2>1 DEF CooldownKept, FormOf
    <2>2. CASE Old(p) /\ ~Old(q)
      BY <1>1, <1>2, <2>2
    <2>3. CASE ~Old(p) /\ Old(q)
      BY <1>1, <1>2, <2>3
    <2>4. CASE ~Old(p) /\ ~Old(q)
      <3>1. PICK s \in Tabs, t \in Tabs : Inserted(p, s) /\ Inserted(q, t)
        BY <1>2, <2>4, There
      <3>2. status' = [status EXCEPT ![p] = "shown"]
        BY <3>1 DEF Inserted, PresentInsert, InsertPrompt
      <3>3. status'[q] = status[q]
        BY <1>2, <3>2 DEF Typing, RowsWhole
      <3>4. QED
        BY <3>1, <3>3 DEF Inserted
    <2>5. QED
      BY <2>1, <2>2, <2>3, <2>4
  <1>3. QED
    BY <1>2 DEF CooldownKept, FormOf

LEMMA NextCooled == Typing /\ Cooled /\ [Next]_vars => Cooled'
  BY NextDecidesAlone, NextDecisionStands, NextCooldown DEF Cooled

\* However many tabs ask at once, a user is shown a form again only after its cooldown
\* (store/feedback.go, Present).
THEOREM CooldownHolds == Spec => []CooldownKept
  <1>1. Cooled => CooldownKept
    BY DEF Cooled
  <1>2. QED
    BY <1>1, Typed, InitCooled, NextCooled, PTL DEF Spec

-----------------------------------------------------------------------------
(* The answers *)

\* The rows of a prompt and of its submission tell one story.
OneStory(p) ==
    /\ ~Exists(p) => submission[p] = "none" /\ stage[p] = "overall"
    /\ status[p] = "shown" => \/ submission[p] = "none" /\ stage[p] = "overall"
                              \/ submission[p] = "partial" /\ stage[p] = "followup"
    /\ status[p] = "submitted" => submission[p] = "completed"
    /\ status[p] = "dismissed" => submission[p] # "completed"

\* What AnswersFit says of one prompt
Fit(p) ==
    LET followups == FollowupsFor(FormOf(p), overall[p])
        rest      == answers[p] \ {RootId(FormOf(p))}
    IN  IF submission[p] = "none" THEN answers[p] = {}
        ELSE /\ RootId(FormOf(p)) \in answers[p]
             /\ rest \subseteq {q.id : q \in followups}
             /\ submission[p] = "partial" => followups # {} /\ rest = {}
             /\ submission[p] = "completed" =>
                    \A q \in followups : q.required => q.id \in rest

Story == \A p \in Prompts : OneStory(p) /\ Fit(p)

\* The root is no question that follows it up.
LEMMA RootAlone ==
    ASSUME NEW f \in Forms, ValidDefinition(FormRows[f]), NEW score,
           NEW q \in FollowupsFor(FormRows[f], score)
    PROVE  q.id # RootId(FormRows[f])
  <1> DEFINE root == CHOOSE r \in Roots(FormRows[f]) : TRUE
  <1>1. Roots(FormRows[f]) # {}
    BY FS_EmptySet DEF ValidDefinition
  <1>2. root \in Roots(FormRows[f])
    BY <1>1
  <1>3. root \in FormRows[f].questions /\ root.max = None
    BY <1>2 DEF Roots, ValidDefinition
  <1>4. q \in FormRows[f].questions /\ q.max # None
    BY DEF FollowupsFor
  <1>5. QED
    BY <1>3, <1>4, FeedbackAssumption DEF RootId

LEMMA InitStory == Init => Story
  BY DEF Init, Story, OneStory, Fit, Exists, Stored

LEMMA NextStory == Typing /\ Story /\ [Next]_vars => Story'
  <1> SUFFICES ASSUME Typing, Story, [Next]_vars, NEW p \in Prompts
               PROVE  OneStory(p)' /\ Fit(p)'
    BY DEF Story
  <1>1. OneStory(p) /\ Fit(p) /\ status[p] \in Stored \cup {"none", "gone"}
    BY DEF Story, Typing, RowsWhole
  <1>2. CASE RowSame(p)
    <2>1. OneStory(p)'
      BY <1>1, <1>2 DEF RowSame, OneStory, Exists
    <2>2. FormOf(p)' = FormOf(p)
      BY <1>2 DEF RowSame, FormOf
    <2>3. Fit(p)'
      BY <1>1, <1>2, <2>2 DEF RowSame, Fit, FormOf
    <2>4. QED
      BY <2>1, <2>3
  <1>3. ASSUME NEW t \in Tabs, Inserted(p, t)
        PROVE  OneStory(p)' /\ Fit(p)'
    <2>1. submission'[p] = "none" /\ stage'[p] = "overall" /\ answers'[p] = {}
      BY <1>1, <1>3 DEF Inserted, OneStory, Fit, Exists, Stored
    <2>2. QED
      BY <1>3, <2>1 DEF Inserted, OneStory, Fit, Exists, Stored
  <1>4. ASSUME NEW t \in Tabs, Deleted(p, t)
        PROVE  OneStory(p)' /\ Fit(p)'
    BY <1>4 DEF Deleted, OneStory, Fit, Exists, Stored
  <1>5. ASSUME NEW t \in Tabs, Answered(p, t)
        PROVE  /\ read[t].status = status[p] /\ Exists(p) /\ form[p] \in Forms
               /\ form'[p] = form[p]
    BY <1>5 DEF Answered, Typing, LocksKept, RowsWhole
  <1>6. ASSUME NEW t \in Tabs, AnsweredFirst(p, t)
        PROVE  OneStory(p)' /\ Fit(p)'
    <2>1. /\ Answered(p, t) /\ Prompt(t) = p /\ MayRate(t)
      BY <1>6 DEF AnsweredFirst, Answered
    <2>2. /\ submission[p] = "none" /\ status[p] = "shown" /\ answers[p] = {}
          /\ request[t].question = RootId(FormRows[form[p]])
      BY <1>1, <1>5, <2>1 DEF MayRate, Rated, ValidOverall, FormOf, Fit
    <2>3. OneStory(p)'
      BY <1>1, <1>6, <2>2 DEF AnsweredFirst, OneStory, Exists, Stored
    <2>4. answers'[p] = {RootId(FormRows[form'[p]])}
      BY <1>5, <1>6, <2>1, <2>2 DEF AnsweredFirst
    <2>5. \/ /\ submission'[p] = "partial"
             /\ FollowupsFor(FormRows[form'[p]], overall'[p]) # {}
          \/ /\ submission'[p] = "completed"
             /\ FollowupsFor(FormRows[form'[p]], overall'[p]) = {}
      BY <1>5, <1>6, <2>1 DEF AnsweredFirst, FormOf
    <2>6. Fit(p)'
      BY <2>4, <2>5 DEF Fit, FormOf
    <2>7. QED
      BY <2>3, <2>6
  <1>7. ASSUME NEW t \in Tabs, FollowedUp(p, t)
        PROVE  OneStory(p)' /\ Fit(p)'
    <2> DEFINE given     == Given(request[t].list)
               followups == FollowupsFor(FormRows[form[p]], overall[p])
               root      == RootId(FormRows[form[p]])
    <2>1. Answered(p, t) /\ Prompt(t) = p /\ MayComplete(t) /\ form[p] \in Forms
      BY <1>5, <1>7 DEF FollowedUp, Answered
    <2>2. /\ submission[p] = "partial" /\ ValidDefinition(FormRows[form[p]])
          /\ given \subseteq {q.id : q \in followups}
          /\ \A q \in followups : q.required => q.id \in given
      BY <2>1 DEF MayComplete, ValidFollowup, FormOf
    <2>3. root \in answers[p] /\ answers[p] \ {root} = {}
      BY <1>1, <2>2 DEF Fit, FormOf
    <2>4. \A q \in followups : q.id # root
      BY <2>1, <2>2, RootAlone
    <2>5. /\ answers'[p] = answers[p] \cup given /\ submission'[p] = "completed"
          /\ overall'[p] = overall[p] /\ form'[p] = form[p]
      BY <1>5, <1>7, <2>1 DEF FollowedUp
    <2> HIDE DEF given, followups, root
    <2>6. /\ root \in answers'[p] /\ answers'[p] \ {root} \subseteq {q.id : q \in followups}
          /\ \A q \in followups : q.required => q.id \in answers'[p] \ {root}
      BY <2>2, <2>3, <2>4, <2>5
    <2>7. Fit(p)'
      BY <2>5, <2>6 DEF Fit, FormOf, root, followups
    <2>8. OneStory(p)'
      BY <1>7 DEF FollowedUp, OneStory, Exists, Stored
    <2>9. QED
      BY <2>7, <2>8
  <1>8. ASSUME NEW t \in Tabs, Dismissed(p, t)
        PROVE  OneStory(p)' /\ Fit(p)'
    <2>1. form'[p] = form[p]
      BY <1>5, <1>8 DEF Dismissed
    <2>2. OneStory(p)'
      BY <1>1, <1>8 DEF Dismissed, OneStory, Exists, Stored
    <2>3. Fit(p)'
      BY <1>1, <1>8, <2>1 DEF Dismissed, Fit, FormOf
    <2>4. QED
      BY <2>2, <2>3
  <1>9. QED
    BY <1>2, <1>3, <1>4, <1>6, <1>7, <1>8, RowSteps DEF RowStep

LEMMA Stories == Spec => []Story
  <1>1. QED
    BY Typed, InitStory, NextStory, PTL DEF Spec

\* A submission that is completed holds an answer to every question that its score asks
\* for and must be answered; one that is not holds the first answer alone
\* (store/feedback.go, SubmitOverall and CompleteFollowup).
THEOREM AnswersHold == Spec => []AnswersFit
  <1>1. Story => AnswersFit
    BY DEF Story, Fit, AnswersFit
  <1>2. QED
    BY <1>1, Stories, PTL

-----------------------------------------------------------------------------
(* FeedbackLedger *)

Lives == [p \in Prompts |-> Life(p)]

LivesKnown ==
    \A p \in Prompts :
        /\ status[p] \in {"none", "gone"} => Life(p) = status[p]
        /\ status[p] = "shown" /\ submission[p] = "none" => Life(p) = "shown"
        /\ status[p] = "shown" /\ submission[p] = "partial" => Life(p) = "partial"
        /\ status[p] = "submitted" => Life(p) = "completed"
        /\ status[p] = "dismissed" => Life(p) = "dismissed"

LEMMA StoryLives == Story => LivesKnown
  BY DEF Story, OneStory, LivesKnown, Life

LEMMA LivesChange ==
    ASSUME NEW p \in Prompts, NEW life, Life(p)' = life,
           \A q \in Prompts \ {p} : Life(q)' = Life(q)
    PROVE  Lives' = [Lives EXCEPT ![p] = life]
  BY DEF Lives

LEMMA AnswersChange ==
    ASSUME Typing, Typing', NEW p \in Prompts,
           \A q \in Prompts \ {p} : answers'[q] = answers[q]
    PROVE  answers' = [answers EXCEPT ![p] = answers'[p]]
  BY DEF Typing, RowsWhole

\* What a row tells does not change with those of other prompts.
LEMMA SameLife ==
    ASSUME NEW p \in Prompts, RowSame(p)
    PROVE  Life(p)' = Life(p)
  BY DEF RowSame, Life

\* A step changes no row, or one, or deletes those that were listed.
LEMMA OneRow ==
    ASSUME Typing, [Next]_vars
    PROVE  \/ \A p \in Prompts : RowSame(p)
           \/ \E t \in Tabs : DeleteExpired(t)
           \/ \E p \in Prompts, t \in Tabs :
                  /\ \/ Inserted(p, t) \/ AnsweredFirst(p, t) \/ FollowedUp(p, t)
                     \/ Dismissed(p, t)
                  /\ \A q \in Prompts \ {p} : RowSame(q)
  <1> DEFINE Changes(p, t) == \/ Inserted(p, t) \/ AnsweredFirst(p, t) \/ FollowedUp(p, t)
                              \/ Dismissed(p, t)
  <1>1. ASSUME NEW p \in Prompts, ~RowSame(p), ~\E t \in Tabs : DeleteExpired(t)
        PROVE  \E t \in Tabs : Changes(p, t)
    BY <1>1, RowSteps DEF RowStep, Deleted
  <1>2. ASSUME NEW p \in Prompts, NEW t \in Tabs, Changes(p, t)
        PROVE  Prompt(t) = p /\ ~TabSame(t)
    <2>1. Prompt(t) = p /\ (Answered(p, t) \/ PresentInsert(t))
      BY <1>2 DEF Inserted, AnsweredFirst, FollowedUp, Dismissed, Answered
    <2>2. pc[t] \in {"insert", "locked"} /\ pc'[t] \in {"due", "idle"}
      BY <2>1 DEF Answered, PresentInsert, End, Go, Typing, RequestsWhole
    <2>3. QED
      BY <2>1, <2>2 DEF TabSame
  <1>3. ASSUME NEW p \in Prompts, NEW q \in Prompts, NEW s \in Tabs, NEW t \in Tabs,
               Changes(p, s), Changes(q, t)
        PROVE  p = q
    <2>1. s = t
      BY <1>2, <1>3, TabSteps DEF OthersSame
    <2>2. QED
      BY <1>2, <1>3, <2>1
  <1>4. QED
    BY <1>1, <1>3

LEMMA OneRowLedger ==
    ASSUME Typing, Typing', Story, Story', [Next]_vars, NEW p \in Prompts, NEW t \in Tabs,
           Inserted(p, t) \/ AnsweredFirst(p, t) \/ FollowedUp(p, t) \/ Dismissed(p, t),
           \A q \in Prompts \ {p} : RowSame(q)
    PROVE  Ledger!Next
  <1>1. LivesKnown /\ LivesKnown'
    <2>1. Story' => LivesKnown'
      BY StoryLives, PTL
    <2>2. QED
      BY <2>1, StoryLives
  <1>2. \A q \in Prompts \ {p} : Life(q)' = Life(q) /\ answers'[q] = answers[q]
    BY SameLife DEF RowSame
  <1>3. /\ answers' = [answers EXCEPT ![p] = answers'[p]]
        /\ answers \in [Prompts -> SUBSET (Questions \cup Asked)]
    BY <1>2, AnswersChange DEF Typing, RowsWhole
  <1>4. Lives[p] = Life(p) /\ Lives' = [Lives EXCEPT ![p] = Life(p)']
    <2>1. Lives[p] = Life(p)
      BY DEF Lives
    <2>2. QED
      BY <1>2, <2>1, LivesChange
  <1>5. ASSUME Answered(p, t)
        PROVE  read[t].status = status[p] /\ Prompt(t) = p
    BY <1>5 DEF Answered, Typing, LocksKept
  <1>6. CASE Inserted(p, t)
    <2>1. submission[p] = "none" /\ status[p] = "none" /\ status'[p] = "shown"
          /\ submission'[p] = "none" /\ answers'[p] = answers[p]
      BY <1>6 DEF Inserted, Story, OneStory, Exists, Stored
    <2>2. Life(p) = "none" /\ Life(p)' = "shown"
      BY <1>1, <2>1 DEF LivesKnown
    <2>3. answers' = answers
      BY <1>3, <2>1
    <2>4. Ledger!Show(p)
      BY <1>4, <2>2, <2>3 DEF Ledger!Show, Ledger!Becomes, Lives
    <2>5. QED
      BY <2>4 DEF Ledger!Next
  <1>7. CASE AnsweredFirst(p, t)
    <2>1. Answered(p, t) /\ MayRate(t)
      BY <1>7 DEF AnsweredFirst
    <2>2. status[p] = "shown" /\ submission[p] = "none"
      BY <1>5, <2>1 DEF MayRate, Rated
    <2>3. answers[p] = {} /\ answers'[p] = {request[t].question}
      BY <1>7, <2>2 DEF AnsweredFirst, Story, Fit
    <2>4. \/ status'[p] = "shown" /\ submission'[p] = "partial"
          \/ status'[p] = "submitted"
      BY <1>7, <2>2 DEF AnsweredFirst
    <2>5. Life(p) = "shown" /\ Life(p)' \in {"partial", "completed"}
      BY <1>1, <2>2, <2>4 DEF LivesKnown
    <2>6. \E q \in answers'[p] : answers' = [answers EXCEPT ![p] = {q}]
      BY <1>3, <2>3
    <2>7. Ledger!Rate(p)
      BY <1>4, <2>5, <2>6 DEF Ledger!Rate, Ledger!Becomes, Lives
    <2>8. QED
      BY <2>7 DEF Ledger!Next
  <1>8. CASE FollowedUp(p, t)
    <2>1. Answered(p, t) /\ MayComplete(t)
      BY <1>8 DEF FollowedUp
    <2>2. status[p] = "shown" /\ submission[p] = "partial" /\ status'[p] = "submitted"
          /\ answers[p] \subseteq answers'[p]
      BY <1>5, <1>8, <2>1 DEF MayComplete, FollowedUp
    <2>3. Life(p) = "partial" /\ Life(p)' = "completed"
      BY <1>1, <2>2 DEF LivesKnown
    <2>4. Ledger!FollowUp(p)
      BY <1>3, <1>4, <2>2, <2>3 DEF Ledger!FollowUp, Ledger!Becomes, Lives
    <2>5. QED
      BY <2>4 DEF Ledger!Next
  <1>9. CASE Dismissed(p, t)
    <2>1. status[p] = "shown" /\ status'[p] = "dismissed" /\ answers'[p] = answers[p]
          /\ submission[p] \in {"none", "partial"}
      BY <1>9 DEF Dismissed, Story, OneStory
    <2>2. Life(p) \in {"shown", "partial"} /\ Life(p)' = "dismissed"
      BY <1>1, <2>1 DEF LivesKnown
    <2>3. answers' = answers
      BY <1>3, <2>1
    <2>4. Ledger!Dismiss(p)
      BY <1>4, <2>2, <2>3 DEF Ledger!Dismiss, Ledger!Becomes, Lives
    <2>5. QED
      BY <2>4 DEF Ledger!Next
  <1>10. QED
    BY <1>6, <1>7, <1>8, <1>9

LEMMA ExpireLedger ==
    ASSUME Typing, TimesKept, Story, Story', NEW t \in Tabs, DeleteExpired(t)
    PROVE  Ledger!Next
  <1>1. LivesKnown /\ LivesKnown'
    <2>1. Story' => LivesKnown'
      BY StoryLives, PTL
    <2>2. QED
      BY <2>1, StoryLives
  <1>2. PICK P \in SUBSET Prompts : P = batch[t]
    BY DEF Typing, RequestsWhole
  <1>3. ASSUME NEW p \in P
        PROVE  Life(p) # "none" /\ Life(p)' = "gone"
    <2>1. p \in Prompts /\ status[p] # "none" /\ status'[p] = "gone"
      BY <1>2, <1>3 DEF TimesKept, DeleteExpired
    <2>2. status[p] \in Stored \cup {"gone"} /\ submission[p] \in {"none", "partial", "completed"}
          /\ (status[p] = "shown" => submission[p] \in {"none", "partial"})
      BY <2>1 DEF Typing, RowsWhole, Story, OneStory
    <2>3. QED
      BY <1>1, <2>1, <2>2 DEF LivesKnown, Stored
  <1>4. ASSUME NEW p \in Prompts, p \notin P
        PROVE  Life(p)' = Life(p)
    <2>1. RowSame(p)
      BY <1>2, <1>4 DEF DeleteExpired, RowSame
    <2>2. QED
      BY <2>1, SameLife
  <1>5. Lives' = [p \in Prompts |-> IF p \in P THEN "gone" ELSE Lives[p]]
    BY <1>3, <1>4 DEF Lives
  <1>6. \A p \in P : Lives[p] # "none"
    BY <1>3 DEF Lives
  <1>7. answers' = [p \in Prompts |-> IF p \in P THEN {} ELSE answers[p]]
    BY <1>2 DEF DeleteExpired
  <1>8. Ledger!Expire(P)
    BY <1>5, <1>6, <1>7 DEF Ledger!Expire, Lives
  <1>9. QED
    BY <1>2, <1>8 DEF Ledger!Next

LEMMA InitLedger == Init => Ledger!Init
  BY DEF Init, Ledger!Init, Life

LEMMA NextLedger ==
    Typing /\ Typing' /\ TimesKept /\ Story /\ Story' /\ [Next]_vars
    => [Ledger!Next]_(Ledger!vars)
  <1> SUFFICES ASSUME Typing, Typing', TimesKept, Story, Story', [Next]_vars
               PROVE  [Ledger!Next]_(Ledger!vars)
    OBVIOUS
  <1>1. CASE \A p \in Prompts : RowSame(p)
    <2>1. Lives' = Lives
      BY <1>1, SameLife DEF Lives
    <2>2. answers' = answers
      BY <1>1 DEF RowSame, Typing, RowsWhole
    <2>3. QED
      BY <2>1, <2>2 DEF Ledger!vars, Lives
  <1>2. QED
    BY <1>1, OneRow, OneRowLedger, ExpireLedger

\* The status of a prompt and of its submission tell one story, and nothing but the
\* steps of FeedbackLedger changes it: an outcome is final, whoever asks for what in
\* another tab (store/feedback.go).
THEOREM LedgerImplemented == Spec => ImplementsLedger
  <1>1. Typing /\ Typing' /\ TimesKept /\ Story /\ Story' /\ [Next]_vars
        => [Ledger!Next]_(Ledger!vars)
    BY NextLedger
  <1>2. QED
    BY <1>1, Typed, Timed, Stories, InitLedger, PTL
    DEF Spec, ImplementsLedger, Ledger!Spec
=============================================================================
