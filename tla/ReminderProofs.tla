--------------------------- MODULE ReminderProofs ---------------------------
(***************************************************************************)
(* What Reminder guarantees for any number of items, jobs, mails and       *)
(* retries, and whatever the adviser dismisses meanwhile.                  *)
(***************************************************************************)
EXTENDS Reminder, TLAPS, SequenceTheorems, WellFoundedInduction

JobType == [pc : {"free", "queued", "look", "make", "mail"}, todo : SUBSET DueItems,
            made : SUBSET (1..MaxReminders), skipped : BOOLEAN, summary : BOOLEAN,
            last : 0..MaxReminders, left : 0..MaxResends]

MailType == [pc : {"free", "queued", "sent", "update"}, id : 0..MaxSent,
             about : SUBSET (1..MaxReminders), left : 0..MaxResends]

NotifyType == [about : SUBSET (1..MaxReminders), status : {"sending", "delivered"}]

\* A job has an item when it makes a reminder, and a reminder when it mails it.
JobsOK ==
  /\ job \in [Jobs -> JobType]
  /\ \A j \in Jobs : /\ job[j].pc = "make" => job[j].todo # {}
                     /\ job[j].pc = "mail" => job[j].last # 0

TypeInv ==
  /\ TypeOK
  /\ JobsOK
  /\ dismissal # NoDismissal => dismissal.of \in DOMAIN reminders

Active(j) == job[j].pc \notin {"free", "queued"}

\* As long as the subscription's jobs take turns, what one of them found missing
\* stays missing until it makes it.
OneInv ==
  /\ OneReminder
  /\ overlapped \/ \A i, j \in Jobs : Active(i) /\ Active(j) => i = j
  /\ overlapped \/ \A j \in Jobs : job[j].pc = "make" => ~HasExisting(First(job[j].todo))
  /\ dismissal # NoDismissal => dismissal.copy.item = reminders[dismissal.of].item

\* What a job is going to queue a mail about, and what a mail is going to be about.
Unsent(j) ==
  IF job[j].summary THEN job[j].made
  ELSE IF job[j].pc = "mail" THEN {job[j].last} ELSE {}

Queued(m) == IF mail[m].pc = "queued" THEN mail[m].about ELSE {}

\* A reminder is with a job, with a queued mail, or with one that was sent.
Apart ==
  /\ \A n \in DOMAIN notify : \A k \in DOMAIN notify :
       n # k => notify[n].about \cap notify[k].about = {}
  /\ \A m \in Mails : \A k \in Mails : m # k => Queued(m) \cap Queued(k) = {}
  /\ \A j \in Jobs : \A k \in Jobs : j # k => Unsent(j) \cap Unsent(k) = {}
  /\ \A n \in DOMAIN notify : \A m \in Mails : notify[n].about \cap Queued(m) = {}
  /\ \A n \in DOMAIN notify : \A j \in Jobs : notify[n].about \cap Unsent(j) = {}
  /\ \A m \in Mails : \A j \in Jobs : Queued(m) \cap Unsent(j) = {}

\* All of them are with somebody only after they were made.
Made ==
  /\ \A n \in DOMAIN notify : notify[n].about \subseteq DOMAIN reminders
  /\ \A m \in Mails : mail[m].about \subseteq DOMAIN reminders
  /\ \A j \in Jobs : Unsent(j) \subseteq DOMAIN reminders

\* Whoever mails a summary mails nothing else, and a job starts from nothing.
JobsTell ==
  \A j \in Jobs : /\ job[j].pc = "mail" => ~job[j].summary
                  /\ ~Active(j) => ~job[j].summary /\ job[j].made = {}

SentInv ==
  /\ JobsTell
  /\ Made
  /\ resent \/ Apart

\* What is true of a reminder, in the table or in a request's copy: the id it has
\* is that of a mail about it, and what it says of its delivery is so.
IsTrue(i, row, mails) ==
  /\ row.note # 0 => row.note \in DOMAIN mails /\ i \in mails[row.note].about
  /\ row.delivery = "delivered" =>
       \E n \in DOMAIN mails : i \in mails[n].about /\ mails[n].status = "delivered"

TrueInv ==
  /\ \A i \in DOMAIN reminders : IsTrue(i, reminders[i], notify)
  /\ dismissal # NoDismissal => IsTrue(dismissal.of, dismissal.copy, notify)
  /\ \A m \in Mails : mail[m].pc \in {"sent", "update"} =>
       mail[m].id \in DOMAIN notify /\ notify[mail[m].id].about = mail[m].about

-----------------------------------------------------------------------------
(* Operators *)

LEMMA Least ==
  ASSUME NEW T, T \subseteq Nat, T # {}
  PROVE  \E x \in T : \A y \in T : x <= y
<1> DEFINE R == {p \in Nat \X Nat : p[1] < p[2]}
<1>1. IsWellFoundedOn(R, Nat)
  <2>1. R = OpToRel(<, Nat)
    BY DEF OpToRel
  <2>2. QED
    BY <2>1, NatLessThanWellFounded
<1> HIDE DEF R
<1>2. PICK x \in T : \A y \in T : ~ (<<y, x>> \in R)
  BY <1>1, WFMin
<1>3. \A y \in T : ~ (y < x)
  BY <1>2 DEF R
<1>4. QED
  BY <1>2, <1>3

\* The item a job goes on with is one of those it has left.
LEMMA FirstIsOne ==
  ASSUME NEW T, T \subseteq DueItems, T # {}
  PROVE  First(T) \in T
<1>1. \E x \in T : \A y \in T : x <= y
  BY DueItemsAssumption, Least
<1>2. QED
  BY <1>1 DEF First

\* Rewriting the rows of a table one by one.
LEMMA Rewritten ==
  ASSUME NEW S, NEW s \in Seq(S), NEW f \in [DOMAIN s -> S]
  PROVE  f \in Seq(S) /\ Len(f) = Len(s) /\ DOMAIN f = DOMAIN s
<1>1. Len(s) \in Nat /\ DOMAIN s = 1..Len(s)
  BY LenProperties
<1>2. f \in Seq(S)
  BY <1>1, SeqDef
<1>3. Len(f) \in Nat /\ DOMAIN f = 1..Len(f)
  BY <1>2, LenProperties
<1>4. QED
  BY <1>1, <1>2, <1>3

LEMMA Appended ==
  ASSUME NEW S, NEW s \in Seq(S), NEW e \in S
  PROVE  /\ Append(s, e) \in Seq(S) /\ Len(Append(s, e)) = Len(s) + 1
         /\ DOMAIN Append(s, e) = DOMAIN s \cup {Len(s) + 1}
         /\ Len(s) + 1 \notin DOMAIN s
         /\ \A i \in DOMAIN s : Append(s, e)[i] = s[i]
         /\ Append(s, e)[Len(s) + 1] = e
<1>1. Len(s) \in Nat /\ DOMAIN s = 1..Len(s)
  BY LenProperties
<1>2. /\ Append(s, e) \in Seq(S) /\ Len(Append(s, e)) = Len(s) + 1
      /\ \A i \in 1..Len(s) : Append(s, e)[i] = s[i]
      /\ Append(s, e)[Len(s) + 1] = e
  BY AppendProperties
<1>3. DOMAIN Append(s, e) = 1..(Len(s) + 1)
  BY <1>2, LenProperties
<1>4. QED
  BY <1>1, <1>2, <1>3

-----------------------------------------------------------------------------
(* Types *)

LEMMA Numbers ==
  /\ MaxReminders \in Nat /\ MaxSent \in Nat /\ MaxResends \in Nat /\ MaxRuns \in Nat
  /\ 0 \in 0..MaxResends /\ MaxResends \in 0..MaxResends
  /\ 0 \in 0..MaxSent /\ 0 \in 0..MaxReminders /\ 0 \in 0..MaxRuns
BY BoundsAssumption

LEMMA Nothings == NoJob \in JobType /\ NoMail \in MailType
BY Numbers DEF NoJob, NoMail, JobType, MailType

LEMMA Types ==
  ASSUME TypeInv
  PROVE  /\ job \in [Jobs -> JobType] /\ mail \in [Mails -> MailType]
         /\ reminders \in Seq(Rows) /\ notify \in Seq(NotifyType)
         /\ Len(reminders) \in 0..MaxReminders /\ Len(notify) \in 0..MaxSent
         /\ DOMAIN reminders = 1..Len(reminders) /\ DOMAIN notify = 1..Len(notify)
         /\ \A i \in DOMAIN reminders : reminders[i] \in Rows
         /\ \A n \in DOMAIN notify : notify[n] \in NotifyType
         /\ dismissal \in {NoDismissal} \cup [of : 1..MaxReminders, copy : Rows]
<1>1. /\ job \in [Jobs -> JobType] /\ mail \in [Mails -> MailType]
      /\ reminders \in Seq(Rows) /\ notify \in Seq(NotifyType)
      /\ dismissal \in {NoDismissal} \cup [of : 1..MaxReminders, copy : Rows]
      /\ Len(reminders) <= MaxReminders /\ Len(notify) <= MaxSent
  BY DEF TypeInv, TypeOK, JobType, MailType, NotifyType
<1>2. /\ Len(reminders) \in Nat /\ DOMAIN reminders = 1..Len(reminders)
      /\ Len(notify) \in Nat /\ DOMAIN notify = 1..Len(notify)
  BY <1>1, LenProperties
<1>3. /\ \A i \in DOMAIN reminders : reminders[i] \in Rows
      /\ \A n \in DOMAIN notify : notify[n] \in NotifyType
  BY <1>1, <1>2, ElementOfSeq
<1>4. QED
  BY <1>1, <1>2, <1>3, Numbers

LEMMA TypeInit == Init => TypeInv
<1> SUFFICES ASSUME Init PROVE TypeInv
  OBVIOUS
<1>1. /\ job = [j \in Jobs |-> NoJob] /\ mail = [m \in Mails |-> NoMail]
      /\ reminders = <<>> /\ notify = <<>> /\ dismissal = NoDismissal
  BY DEF Init
<1>2. job \in [Jobs -> JobType] /\ mail \in [Mails -> MailType]
  BY <1>1, Nothings
<1>3. reminders \in Seq(Rows) /\ notify \in Seq(NotifyType)
      /\ Len(reminders) = 0 /\ Len(notify) = 0
  BY <1>1, EmptySeq
<1>4. TypeOK
  <2>1. /\ monthly \in BOOLEAN /\ due \subseteq DueItems /\ runs \in 0..MaxRuns
        /\ {overlapped, failed, resent} \subseteq BOOLEAN
    BY Numbers DEF Init
  <2>2. /\ Len(reminders) <= MaxReminders /\ Len(notify) <= MaxSent
    BY <1>3, Numbers
  <2>3. QED
    BY <1>1, <1>2, <1>3, <2>1, <2>2 DEF TypeOK, JobType, MailType, NotifyType
<1>5. \A j \in Jobs : job[j].pc = "free"
  BY <1>1 DEF NoJob
<1>6. QED
  BY <1>1, <1>2, <1>4, <1>5 DEF TypeInv, JobsOK

\* What the next state has to be for the types to be kept.
LEMMA TypesFollow ==
  ASSUME monthly' \in BOOLEAN, due' \subseteq DueItems, runs' \in 0..MaxRuns,
         reminders' \in Seq(Rows), Len(reminders') <= MaxReminders,
         notify' \in Seq(NotifyType), Len(notify') <= MaxSent,
         job' \in [Jobs -> JobType], mail' \in [Mails -> MailType],
         dismissal' \in {NoDismissal} \cup [of : 1..MaxReminders, copy : Rows],
         {overlapped', failed', resent'} \subseteq BOOLEAN
  PROVE  TypeOK'
BY DEF TypeOK, JobType, MailType, NotifyType

LEMMA JobSteps ==
  ASSUME TypeInv, NEW j \in Jobs, SubscriptionStep(j) \/ FailSubscription(j)
  PROVE  JobsOK'
<1> DEFINE st == job[j]
<1>0. /\ job \in [Jobs -> JobType] /\ JobsOK /\ st \in JobType
      /\ Len(reminders) \in Nat
  BY Types DEF JobsOK, TypeInv
<1>1. ASSUME NEW new \in JobType, job' = [job EXCEPT ![j] = new],
             new.pc = "make" => new.todo # {}, new.pc = "mail" => new.last # 0
      PROVE  JobsOK'
  BY <1>0, <1>1 DEF JobsOK
<1>2. CASE StartSubscription(j)
  <2> DEFINE sum == monthly /\ Cardinality(due) > Threshold
             new == [st EXCEPT !.pc = "look", !.todo = due, !.summary = sum]
  <2>1. job' = [job EXCEPT ![j] = IF NothingToDo THEN NoJob ELSE new]
    BY <1>2 DEF StartSubscription
  <2>2. new \in JobType /\ new.pc = "look"
    <3>1. sum \in BOOLEAN /\ due \in SUBSET DueItems
      BY DEF TypeInv, TypeOK
    <3> HIDE DEF sum
    <3>2. QED
      BY <1>0, <3>1 DEF JobType
  <2> HIDE DEF new
  <2>3. QED
    BY <1>1, <2>1, <2>2, Nothings DEF NoJob
<1>3. CASE LookUp(j)
  <2> DEFINE p == First(st.todo)
             skip == [st EXCEPT !.todo = st.todo \ {p}, !.skipped = TRUE]
             go == [st EXCEPT !.pc = "make"]
  <2>1. st.pc = "look" /\ st.todo # {}
        /\ job' = [job EXCEPT ![j] = IF AlreadyMade(p) THEN skip ELSE go]
    BY <1>3 DEF LookUp
  <2>2. skip \in JobType /\ skip.pc = "look"
    BY <1>0, <2>1 DEF JobType
  <2>3. go \in JobType /\ go.pc = "make" /\ go.todo # {}
    BY <1>0, <2>1 DEF JobType
  <2> HIDE DEF skip, go, st
  <2>4. QED
    BY <1>1, <2>1, <2>2, <2>3
<1>4. CASE MakeReminder(j)
  <2> DEFINE p == First(st.todo)
             i == Len(reminders) + 1
             new == [st EXCEPT !.todo = st.todo \ {p}, !.made = st.made \cup {i}, !.last = i,
                               !.pc = IF st.summary THEN "look" ELSE "mail"]
  <2>1. i <= MaxReminders /\ job' = [job EXCEPT ![j] = new]
    BY <1>4 DEF MakeReminder
  <2>2. i \in 1..MaxReminders
    BY <1>0, <2>1, Numbers
  <2>3. new \in JobType /\ new.pc \in {"look", "mail"} /\ new.last # 0
    <3>1. st.todo \ {p} \in SUBSET DueItems /\ st.made \cup {i} \in SUBSET (1..MaxReminders)
      BY <1>0, <2>2 DEF JobType
    <3>2. i \in 0..MaxReminders
      BY <2>2, Numbers
    <3> HIDE DEF i, p, st
    <3>3. new \in JobType
      BY <1>0, <3>1, <3>2 DEF JobType
    <3>4. new.pc \in {"look", "mail"} /\ new.last = i /\ i # 0
      BY <1>0, <2>2 DEF JobType, i
    <3>5. QED
      BY <3>3, <3>4
  <2> HIDE DEF new
  <2>4. QED
    BY <1>1, <2>1, <2>3
<1>5. CASE SendReminder(j)
  <2> DEFINE new == [st EXCEPT !.pc = "look"]
  <2>1. job' = [job EXCEPT ![j] = new]
    BY <1>5 DEF SendReminder
  <2>2. new \in JobType /\ new.pc = "look"
    BY <1>0 DEF JobType
  <2> HIDE DEF new
  <2>3. QED
    BY <1>1, <2>1, <2>2
<1>6. CASE FinishSubscription(j)
  BY <1>1, <1>6, Nothings DEF FinishSubscription, NoJob
<1>7. CASE FailSubscription(j)
  <2> DEFINE new == [NoJob EXCEPT !.pc = "queued", !.left = st.left - 1]
  <2>1. job' = [job EXCEPT ![j] = IF st.left = 0 THEN NoJob ELSE new]
    BY <1>7 DEF FailSubscription, Retried
  <2>2. st.left # 0 => st.left - 1 \in 0..MaxResends
    BY <1>0, Numbers DEF JobType
  <2>3. st.left # 0 => new \in JobType /\ new.pc = "queued"
    BY <2>2, Nothings DEF NoJob, JobType
  <2>4. NoJob.pc = "free"
    BY DEF NoJob
  <2> HIDE DEF new, st
  <2>5. QED
    BY <1>1, <2>1, <2>3, <2>4, Nothings
<1>8. QED
  BY <1>2, <1>3, <1>4, <1>5, <1>6, <1>7 DEF SubscriptionStep

LEMMA MailSteps ==
  ASSUME TypeInv, NEW m \in Mails, MailStep(m) \/ FailMail(m)
  PROVE  mail' \in [Mails -> MailType]
<1> DEFINE st == mail[m]
<1>0. mail \in [Mails -> MailType] /\ st \in MailType /\ Len(notify) \in Nat
  BY Types
<1>1. ASSUME NEW new \in MailType, mail' = [mail EXCEPT ![m] = new]
      PROVE  mail' \in [Mails -> MailType]
  BY <1>0, <1>1
<1>2. CASE SendEmail(m)
  <2> DEFINE new == [st EXCEPT !.pc = "sent", !.id = Len(notify')]
  <2>1. mail' = [mail EXCEPT ![m] = new] /\ Len(notify) < MaxSent
    BY <1>2 DEF SendEmail
  <2>2. notify' = Append(notify, [about |-> st.about, status |-> "sending"])
    BY <1>2 DEF SendEmail
  <2>3. [about |-> st.about, status |-> "sending"] \in NotifyType
    BY <1>0 DEF MailType, NotifyType
  <2>4. Len(notify') = Len(notify) + 1
    BY <2>2, <2>3, Types, Appended
  <2>5. Len(notify') \in 0..MaxSent
    BY <1>0, <2>1, <2>4, Numbers
  <2>6. new \in MailType
    BY <1>0, <2>5 DEF MailType
  <2>7. QED
    BY <1>1, <2>1, <2>6
<1>3. CASE ScheduleUpdate(m)
  <2> DEFINE new == [st EXCEPT !.pc = "update", !.left = MaxResends]
  <2>1. mail' = [mail EXCEPT ![m] = new]
    BY <1>3 DEF ScheduleUpdate
  <2>2. new \in MailType
    BY <1>0, Numbers DEF MailType
  <2>3. QED
    BY <1>1, <2>1, <2>2
<1>4. CASE UpdateEmailStatus(m)
  BY <1>1, <1>4, Nothings DEF UpdateEmailStatus
<1>5. CASE FailMail(m)
  <2> DEFINE new == [st EXCEPT !.pc = IF st.pc = "update" THEN "update" ELSE "queued",
                               !.left = st.left - 1]
  <2>1. mail' = [mail EXCEPT ![m] = IF st.left = 0 THEN NoMail ELSE new]
    BY <1>5 DEF FailMail
  <2>2. st.left # 0 => st.left - 1 \in 0..MaxResends
    BY <1>0, Numbers DEF MailType
  <2>3. st.left # 0 => new \in MailType
    BY <1>0, <2>2 DEF MailType
  <2> HIDE DEF new, st
  <2>4. QED
    BY <1>1, <2>1, <2>3, Nothings
<1>6. QED
  BY <1>2, <1>3, <1>4, <1>5 DEF MailStep

\* A subscription job queues its mails about reminders there may be.
LEMMA EnqueueSteps ==
  ASSUME TypeInv, NEW about \in SUBSET (1..MaxReminders), Enqueue(about)
  PROVE  mail' \in [Mails -> MailType]
<1>1. PICK m \in Mails :
        mail' = [mail EXCEPT ![m] = [pc |-> "queued", about |-> about, id |-> 0,
                                     left |-> MaxResends]]
  BY DEF Enqueue
<1>2. [pc |-> "queued", about |-> about, id |-> 0, left |-> MaxResends] \in MailType
  BY Numbers DEF MailType
<1>3. QED
  BY <1>1, <1>2, Types

\* The four ways in which the table changes.
LEMMA MakeRows ==
  ASSUME TypeInv, NEW j \in Jobs, MakeReminder(j)
  PROVE  LET i == Len(reminders) + 1
             p == First(job[j].todo) IN
         /\ reminders' \in Seq(Rows) /\ Len(reminders') <= MaxReminders
         /\ i \notin DOMAIN reminders /\ DOMAIN reminders' = DOMAIN reminders \cup {i}
         /\ \A k \in DOMAIN reminders : reminders'[k] = reminders[k]
         /\ reminders'[i] = NewReminder(p)
         /\ p \in DueItems
<1> DEFINE i == Len(reminders) + 1
           p == First(job[j].todo)
<1>1. /\ job[j].pc = "make" /\ i <= MaxReminders
      /\ reminders' = Append(reminders, NewReminder(p))
  BY DEF MakeReminder
<1>2. job[j].todo \subseteq DueItems /\ job[j].todo # {}
  BY <1>1, Types DEF TypeInv, JobsOK, JobType
<1>3. p \in DueItems
  BY <1>2, FirstIsOne
<1>4. NewReminder(p) \in Rows
  BY <1>3, Numbers DEF NewReminder, Rows
<1>5. reminders \in Seq(Rows)
  BY Types
<1> HIDE DEF p
<1>6. /\ reminders' \in Seq(Rows) /\ Len(reminders') = i
      /\ DOMAIN reminders' = DOMAIN reminders \cup {i} /\ i \notin DOMAIN reminders
      /\ \A k \in DOMAIN reminders : reminders'[k] = reminders[k]
      /\ reminders'[i] = NewReminder(p)
  BY <1>1, <1>4, <1>5, Appended
<1>7. QED
  BY <1>1, <1>3, <1>6 DEF p

LEMMA UpdateRows ==
  ASSUME TypeInv, NEW m \in Mails, UpdateEmailStatus(m)
  PROVE  /\ reminders' \in Seq(Rows) /\ Len(reminders') = Len(reminders)
         /\ DOMAIN reminders' = DOMAIN reminders
         /\ \A i \in DOMAIN reminders : reminders'[i] =
              IF i \in mail[m].about THEN [reminders[i] EXCEPT !.note = mail[m].id]
                                     ELSE reminders[i]
<1>1. reminders' = [i \in DOMAIN reminders |->
        IF i \in mail[m].about THEN [reminders[i] EXCEPT !.note = mail[m].id]
                               ELSE reminders[i]]
  BY DEF UpdateEmailStatus
<1>2. mail[m].id \in 0..MaxSent /\ \A i \in DOMAIN reminders : reminders[i] \in Rows
  BY Types DEF MailType
<1>3. \A i \in DOMAIN reminders : [reminders[i] EXCEPT !.note = mail[m].id] \in Rows
  BY <1>2 DEF Rows
<1>4. reminders' \in [DOMAIN reminders -> Rows]
  BY <1>1, <1>2, <1>3
<1>5. reminders \in Seq(Rows)
  BY Types
<1>6. QED
  BY <1>1, <1>4, <1>5, Rewritten

LEMMA PollRows ==
  ASSUME TypeInv, NEW n \in DOMAIN notify, PollDelivery(n)
  PROVE  /\ reminders' \in Seq(Rows) /\ Len(reminders') = Len(reminders)
         /\ DOMAIN reminders' = DOMAIN reminders
         /\ \A i \in DOMAIN reminders : reminders'[i] =
              IF reminders[i].note = n
              THEN [reminders[i] EXCEPT !.delivery = notify[n].status]
              ELSE reminders[i]
<1>1. reminders' = [i \in DOMAIN reminders |->
        IF reminders[i].note = n
        THEN [reminders[i] EXCEPT !.delivery = notify[n].status] ELSE reminders[i]]
  BY DEF PollDelivery, AboutMail
<1>2. /\ notify[n].status \in {"sending", "delivered"}
      /\ \A i \in DOMAIN reminders : reminders[i] \in Rows
  BY Types DEF NotifyType
<1>3. \A i \in DOMAIN reminders :
        [reminders[i] EXCEPT !.delivery = notify[n].status] \in Rows
  BY <1>2 DEF Rows
<1>4. reminders' \in [DOMAIN reminders -> Rows]
  BY <1>1, <1>2, <1>3
<1>5. reminders \in Seq(Rows)
  BY Types
<1>6. QED
  BY <1>1, <1>4, <1>5, Rewritten

LEMMA DismissRows ==
  ASSUME TypeInv, DismissReminder
  PROVE  /\ dismissal # NoDismissal /\ dismissal.of \in DOMAIN reminders
         /\ reminders' \in Seq(Rows) /\ Len(reminders') = Len(reminders)
         /\ DOMAIN reminders' = DOMAIN reminders
         /\ \A i \in DOMAIN reminders : reminders'[i] =
              IF i = dismissal.of THEN [dismissal.copy EXCEPT !.live = FALSE]
                                  ELSE reminders[i]
<1> DEFINE row == [dismissal.copy EXCEPT !.live = FALSE]
<1>1. dismissal # NoDismissal /\ reminders' = [reminders EXCEPT ![dismissal.of] = row]
  BY DEF DismissReminder
<1>2. dismissal.of \in DOMAIN reminders
  BY <1>1 DEF TypeInv
<1>3. dismissal.copy \in Rows
  BY <1>1, Types
<1>4. row \in Rows
  BY <1>3 DEF Rows
<1> HIDE DEF row
<1>5. reminders \in Seq(Rows) /\ DOMAIN reminders = 1..Len(reminders)
  BY Types
<1>6. /\ reminders' \in Seq(Rows) /\ Len(reminders') = Len(reminders)
      /\ \A k \in 1..Len(reminders) :
           reminders'[k] = IF k = dismissal.of THEN row ELSE reminders[k]
  BY <1>1, <1>2, <1>4, <1>5, ExceptSeq
<1>7. DOMAIN reminders' = DOMAIN reminders
  BY <1>5, <1>6, LenProperties
<1>8. QED
  BY <1>1, <1>2, <1>5, <1>6, <1>7 DEF row

\* And the two of the mails that GOV.UK has.
LEMMA SendMails ==
  ASSUME TypeInv, NEW m \in Mails, SendEmail(m)
  PROVE  LET n == Len(notify) + 1 IN
         /\ notify' \in Seq(NotifyType) /\ Len(notify') <= MaxSent
         /\ n \notin DOMAIN notify /\ DOMAIN notify' = DOMAIN notify \cup {n}
         /\ \A k \in DOMAIN notify : notify'[k] = notify[k]
         /\ notify'[n] = [about |-> mail[m].about, status |-> "sending"]
         /\ n = Len(notify')
<1> DEFINE n == Len(notify) + 1
           new == [about |-> mail[m].about, status |-> "sending"]
<1>1. notify' = Append(notify, new) /\ Len(notify) < MaxSent
  BY DEF SendEmail
<1>2. new \in NotifyType
  BY Types DEF MailType, NotifyType
<1>3. notify \in Seq(NotifyType) /\ Len(notify) \in Nat
  BY Types
<1> HIDE DEF new
<1>4. /\ notify' \in Seq(NotifyType) /\ Len(notify') = n
      /\ DOMAIN notify' = DOMAIN notify \cup {n} /\ n \notin DOMAIN notify
      /\ \A k \in DOMAIN notify : notify'[k] = notify[k]
      /\ notify'[n] = new
  BY <1>1, <1>2, <1>3, Appended
<1>5. n <= MaxSent
  BY <1>1, <1>3, Numbers
<1>6. QED
  BY <1>4, <1>5 DEF new

LEMMA DeliverMails ==
  ASSUME TypeInv, NEW n \in DOMAIN notify, Deliver(n)
  PROVE  /\ notify' \in Seq(NotifyType) /\ Len(notify') = Len(notify)
         /\ DOMAIN notify' = DOMAIN notify
         /\ \A k \in DOMAIN notify :
              /\ notify'[k].about = notify[k].about
              /\ notify'[k].status = IF k = n THEN "delivered" ELSE notify[k].status
<1> DEFINE new == [notify[n] EXCEPT !.status = "delivered"]
<1>1. notify' = [notify EXCEPT ![n] = new]
  BY DEF Deliver
<1>2. notify[n] \in NotifyType
  BY Types
<1>3. new \in NotifyType /\ new.about = notify[n].about /\ new.status = "delivered"
  BY <1>2 DEF NotifyType
<1> HIDE DEF new
<1>4. notify \in Seq(NotifyType) /\ DOMAIN notify = 1..Len(notify)
  BY Types
<1>5. /\ notify' \in Seq(NotifyType) /\ Len(notify') = Len(notify)
      /\ \A k \in 1..Len(notify) : notify'[k] = IF k = n THEN new ELSE notify[k]
  BY <1>1, <1>3, <1>4, ExceptSeq
<1>6. DOMAIN notify' = DOMAIN notify
  BY <1>4, <1>5, LenProperties
<1>7. QED
  BY <1>3, <1>4, <1>5, <1>6

LEMMA TypeStep == TypeInv /\ [Next]_vars => TypeInv'
<1> SUFFICES ASSUME TypeInv, [Next]_vars PROVE TypeInv'
  OBVIOUS
<1>0. /\ monthly \in BOOLEAN /\ due \subseteq DueItems /\ runs \in 0..MaxRuns
      /\ {overlapped, failed, resent} \subseteq BOOLEAN
      /\ reminders \in Seq(Rows) /\ Len(reminders) <= MaxReminders
      /\ notify \in Seq(NotifyType) /\ Len(notify) <= MaxSent
      /\ mail \in [Mails -> MailType] /\ JobsOK
      /\ dismissal \in {NoDismissal} \cup [of : 1..MaxReminders, copy : Rows]
  BY Types DEF TypeInv, TypeOK, JobsOK
<1>d. dismissal # NoDismissal => dismissal.of \in DOMAIN reminders
  BY DEF TypeInv
\* The jobs and the mails.
<1>1. ASSUME UNCHANGED <<monthly, reminders, notify, dismissal>>,
             due' \subseteq DueItems, runs' \in 0..MaxRuns,
             JobsOK', mail' \in [Mails -> MailType],
             {overlapped', failed', resent'} \subseteq BOOLEAN
      PROVE  TypeInv'
  <2>1. TypeOK'
    BY <1>0, <1>1, TypesFollow DEF JobsOK
  <2>2. QED
    BY <1>1, <1>d, <2>1 DEF TypeInv, JobsOK
\* The tables.
<1>2. ASSUME UNCHANGED <<monthly, due, runs, overlapped, failed, resent>>,
             JobsOK', mail' \in [Mails -> MailType],
             reminders' \in Seq(Rows), Len(reminders') <= MaxReminders,
             DOMAIN reminders \subseteq DOMAIN reminders',
             notify' \in Seq(NotifyType), Len(notify') <= MaxSent,
             dismissal' \in {dismissal, NoDismissal}
      PROVE  TypeInv'
  <2>1. TypeOK'
    BY <1>0, <1>2, TypesFollow DEF JobsOK
  <2>2. dismissal' # NoDismissal => dismissal'.of \in DOMAIN reminders'
    BY <1>2, <1>d
  <2>3. QED
    BY <1>2, <2>1, <2>2 DEF TypeInv, JobsOK
<1>3. ASSUME NEW p \in DueItems, BecomeDue(p) PROVE TypeInv'
  BY <1>0, <1>1, <1>3 DEF BecomeDue, JobsOK
<1>4. CASE GenerateReminders
  <2>1. PICK j \in Jobs :
          job' = [job EXCEPT ![j] = [NoJob EXCEPT !.pc = "queued", !.left = MaxResends]]
    BY <1>4 DEF GenerateReminders
  <2>2. /\ [NoJob EXCEPT !.pc = "queued", !.left = MaxResends] \in JobType
        /\ [NoJob EXCEPT !.pc = "queued", !.left = MaxResends].pc = "queued"
    BY Nothings, Numbers DEF NoJob, JobType
  <2>3. JobsOK'
    BY <1>0, <2>1, <2>2 DEF JobsOK
  <2>4. runs' \in 0..MaxRuns
    BY <1>0, <1>4, Numbers DEF GenerateReminders
  <2>5. UNCHANGED <<monthly, due, reminders, notify, mail, dismissal, overlapped,
                    failed, resent>>
    BY <1>4 DEF GenerateReminders
  <2>6. QED
    BY <1>0, <1>1, <2>3, <2>4, <2>5
<1>5. ASSUME NEW j \in Jobs, SubscriptionStep(j) \/ FailSubscription(j)
      PROVE  TypeInv'
  <2>1. JobsOK'
    BY <1>5, JobSteps
  <2>2. CASE StartSubscription(j)
    <3>1. /\ UNCHANGED <<monthly, due, runs, reminders, notify, mail, dismissal,
                         failed, resent>>
          /\ overlapped' \in BOOLEAN
      BY <2>2, <1>0 DEF StartSubscription
    <3>2. QED
      BY <1>0, <1>1, <2>1, <3>1
  <2>3. CASE LookUp(j)
    <3>1. UNCHANGED <<monthly, due, runs, reminders, notify, mail, dismissal,
                      overlapped, failed, resent>>
      BY <2>3 DEF LookUp
    <3>2. QED
      BY <1>0, <1>1, <2>1, <3>1
  <2>4. CASE MakeReminder(j)
    <3>1. UNCHANGED <<monthly, due, runs, notify, mail, dismissal, overlapped,
                      failed, resent>>
      BY <2>4 DEF MakeReminder
    <3>2. /\ reminders' \in Seq(Rows) /\ Len(reminders') <= MaxReminders
          /\ DOMAIN reminders \subseteq DOMAIN reminders'
      BY <2>4, MakeRows
    <3>3. QED
      BY <1>0, <1>2, <2>1, <3>1, <3>2
  <2>5. CASE SendReminder(j)
    <3>1. /\ UNCHANGED <<monthly, due, runs, reminders, notify, dismissal, overlapped,
                         failed, resent>>
          /\ job[j].pc = "mail" /\ Enqueue({job[j].last})
      BY <2>5 DEF SendReminder, JustMade
    <3>2. {job[j].last} \in SUBSET (1..MaxReminders)
      BY <1>0, <3>1, Numbers DEF JobsOK, JobType
    <3>3. mail' \in [Mails -> MailType]
      BY <3>1, <3>2, EnqueueSteps
    <3>4. QED
      BY <1>0, <1>1, <2>1, <3>1, <3>3
  <2>6. CASE FinishSubscription(j)
    <3>1. /\ UNCHANGED <<monthly, due, runs, reminders, notify, dismissal, overlapped,
                         failed, resent>>
          /\ SendSummary(j)
      BY <2>6 DEF FinishSubscription
    <3>2. job[j].made \in SUBSET (1..MaxReminders)
      BY Types DEF JobType
    <3>3. mail' \in [Mails -> MailType]
      BY <1>0, <3>1, <3>2, EnqueueSteps DEF SendSummary
    <3>4. QED
      BY <1>0, <1>1, <2>1, <3>1, <3>3
  <2>7. CASE FailSubscription(j)
    <3>1. /\ UNCHANGED <<monthly, due, runs, reminders, notify, mail, dismissal,
                         overlapped, resent>>
          /\ failed' = TRUE
      BY <2>7 DEF FailSubscription
    <3>2. QED
      BY <1>0, <1>1, <2>1, <3>1
  <2>8. QED
    BY <1>5, <2>2, <2>3, <2>4, <2>5, <2>6, <2>7 DEF SubscriptionStep
<1>6. ASSUME NEW m \in Mails, MailStep(m) \/ FailMail(m) PROVE TypeInv'
  <2>1. mail' \in [Mails -> MailType]
    BY <1>6, MailSteps
  <2>2. CASE SendEmail(m)
    <3>1. UNCHANGED <<monthly, due, runs, reminders, job, dismissal, overlapped,
                      failed, resent>>
      BY <2>2 DEF SendEmail
    <3>2. notify' \in Seq(NotifyType) /\ Len(notify') <= MaxSent
      BY <2>2, SendMails
    <3>3. QED
      BY <1>0, <1>2, <2>1, <3>1, <3>2 DEF JobsOK
  <2>3. CASE ScheduleUpdate(m)
    <3>1. UNCHANGED <<monthly, due, runs, reminders, notify, job, dismissal,
                      overlapped, failed, resent>>
      BY <2>3 DEF ScheduleUpdate
    <3>2. QED
      BY <1>0, <1>1, <2>1, <3>1 DEF JobsOK
  <2>4. CASE UpdateEmailStatus(m)
    <3>1. UNCHANGED <<monthly, due, runs, notify, job, dismissal, overlapped, failed,
                      resent>>
      BY <2>4 DEF UpdateEmailStatus
    <3>2. /\ reminders' \in Seq(Rows) /\ Len(reminders') <= MaxReminders
          /\ DOMAIN reminders \subseteq DOMAIN reminders'
      BY <1>0, <2>4, UpdateRows
    <3>3. QED
      BY <1>0, <1>2, <2>1, <3>1, <3>2 DEF JobsOK
  <2>5. CASE FailMail(m)
    <3>1. /\ UNCHANGED <<monthly, due, runs, reminders, notify, job, dismissal,
                         overlapped, failed>>
          /\ resent' = TRUE
      BY <2>5 DEF FailMail
    <3>2. QED
      BY <1>0, <1>1, <2>1, <3>1 DEF JobsOK
  <2>6. QED
    BY <1>6, <2>2, <2>3, <2>4, <2>5 DEF MailStep
<1>7. ASSUME NEW n \in DOMAIN notify, Deliver(n) PROVE TypeInv'
  <2>1. UNCHANGED <<monthly, due, runs, reminders, job, mail, dismissal, overlapped,
                    failed, resent>>
    BY <1>7 DEF Deliver
  <2>2. notify' \in Seq(NotifyType) /\ Len(notify') <= MaxSent
    BY <1>0, <1>7, DeliverMails
  <2>3. QED
    BY <1>0, <1>2, <2>1, <2>2 DEF JobsOK
<1>8. ASSUME NEW n \in DOMAIN notify, PollDelivery(n) PROVE TypeInv'
  <2>1. UNCHANGED <<monthly, due, runs, notify, job, mail, dismissal, overlapped,
                    failed, resent>>
    BY <1>8 DEF PollDelivery
  <2>2. /\ reminders' \in Seq(Rows) /\ Len(reminders') <= MaxReminders
        /\ DOMAIN reminders \subseteq DOMAIN reminders'
    BY <1>0, <1>8, PollRows
  <2>3. QED
    BY <1>0, <1>2, <2>1, <2>2 DEF JobsOK
<1>9. ASSUME NEW i \in DOMAIN reminders, ReadReminder(i) PROVE TypeInv'
  <2>1. /\ UNCHANGED <<monthly, due, runs, reminders, notify, job, mail, overlapped,
                       failed, resent>>
        /\ dismissal' = [of |-> i, copy |-> reminders[i]]
    BY <1>9 DEF ReadReminder
  <2>2. i \in 1..MaxReminders /\ reminders[i] \in Rows
    BY Types, Numbers
  <2>3. TypeOK'
    BY <1>0, <2>1, <2>2, TypesFollow DEF JobsOK
  <2>4. QED
    BY <1>0, <2>1, <2>3 DEF TypeInv, JobsOK
<1>10. CASE DismissReminder
  <2>1. /\ UNCHANGED <<monthly, due, runs, notify, job, mail, overlapped, failed, resent>>
        /\ dismissal' = NoDismissal
    BY <1>10 DEF DismissReminder
  <2>2. /\ reminders' \in Seq(Rows) /\ Len(reminders') <= MaxReminders
        /\ DOMAIN reminders \subseteq DOMAIN reminders'
    BY <1>0, <1>10, DismissRows
  <2>3. QED
    BY <1>0, <1>2, <2>1, <2>2 DEF JobsOK
<1>11. CASE UNCHANGED vars
  BY <1>0, <1>1, <1>11 DEF vars, JobsOK
<1>12. QED
  BY <1>3, <1>4, <1>5, <1>6, <1>7, <1>8, <1>9, <1>10, <1>11 DEF Next

-----------------------------------------------------------------------------
(* One reminder of an item *)

\* Only making reminders adds rows; what there is keeps its item, and dismissed
\* reminders stay dismissed.
LEMMA RowsFollow ==
  ASSUME TypeInv, dismissal # NoDismissal => dismissal.copy.item = reminders[dismissal.of].item,
         [Next]_vars
  PROVE  /\ DOMAIN reminders \subseteq DOMAIN reminders'
         /\ (~ \E j \in Jobs : MakeReminder(j)) => DOMAIN reminders' = DOMAIN reminders
         /\ \A i \in DOMAIN reminders :
              /\ reminders'[i].item = reminders[i].item
              /\ reminders'[i].live => reminders[i].live
<1>1. ASSUME NEW j \in Jobs, MakeReminder(j)
      PROVE  /\ DOMAIN reminders \subseteq DOMAIN reminders'
             /\ \A i \in DOMAIN reminders : reminders'[i] = reminders[i]
  BY <1>1, MakeRows
<1>2. \A i \in DOMAIN reminders : reminders[i] \in Rows
  BY Types
<1>3. ASSUME NEW m \in Mails, UpdateEmailStatus(m)
      PROVE  /\ DOMAIN reminders' = DOMAIN reminders
             /\ \A i \in DOMAIN reminders :
                  /\ reminders'[i].item = reminders[i].item
                  /\ reminders'[i].live = reminders[i].live
  BY <1>2, <1>3, UpdateRows DEF Rows
<1>4. ASSUME NEW n \in DOMAIN notify, PollDelivery(n)
      PROVE  /\ DOMAIN reminders' = DOMAIN reminders
             /\ \A i \in DOMAIN reminders :
                  /\ reminders'[i].item = reminders[i].item
                  /\ reminders'[i].live = reminders[i].live
  BY <1>2, <1>4, PollRows DEF Rows
<1>5. CASE DismissReminder
  <2>1. /\ dismissal # NoDismissal /\ DOMAIN reminders' = DOMAIN reminders
        /\ \A i \in DOMAIN reminders : reminders'[i] =
             IF i = dismissal.of THEN [dismissal.copy EXCEPT !.live = FALSE]
                                 ELSE reminders[i]
    BY <1>5, DismissRows
  <2>2. dismissal.copy \in Rows
    BY <2>1, Types
  <2>3. /\ [dismissal.copy EXCEPT !.live = FALSE].item = dismissal.copy.item
        /\ [dismissal.copy EXCEPT !.live = FALSE].live = FALSE
    BY <2>2 DEF Rows
  <2>4. QED
    BY <2>1, <2>3
<1>6. \/ reminders' = reminders
      \/ \E j \in Jobs : MakeReminder(j)
      \/ \E m \in Mails : UpdateEmailStatus(m)
      \/ \E n \in DOMAIN notify : PollDelivery(n)
      \/ DismissReminder
  BY DEF Next, vars, BecomeDue, GenerateReminders, SubscriptionStep,
       StartSubscription, LookUp, SendReminder, FinishSubscription,
       FailSubscription, MailStep, SendEmail, ScheduleUpdate, FailMail, Deliver,
       ReadReminder
<1>7. QED
  BY <1>1, <1>3, <1>4, <1>5, <1>6

\* What a job of the subscription becomes.
LEMMA JobFollows ==
  ASSUME TypeInv, NEW j \in Jobs, SubscriptionStep(j) \/ FailSubscription(j)
  PROVE  \E new \in JobType :
           /\ job' = [job EXCEPT ![j] = new]
           /\ new.pc \notin {"free", "queued"} => Active(j) \/ StartSubscription(j)
           /\ new.pc = "make" => /\ LookUp(j) /\ ~AlreadyMade(First(job[j].todo))
                                 /\ new.todo = job[j].todo
<1> DEFINE st == job[j]
           new == job'[j]
<1>0. job \in [Jobs -> JobType] /\ st \in JobType /\ new \in JobType
  BY Types, JobSteps DEF JobsOK
<1>a. ASSUME NEW x, job' = [job EXCEPT ![j] = x]
      PROVE  new = x /\ job' = [job EXCEPT ![j] = new]
  BY <1>0, <1>a
<1>1. CASE StartSubscription(j)
  <2> DEFINE looking == [st EXCEPT !.pc = "look", !.todo = due,
                          !.summary = monthly /\ Cardinality(due) > Threshold]
  <2>1. \/ job' = [job EXCEPT ![j] = NoJob]
        \/ job' = [job EXCEPT ![j] = looking]
    BY <1>1 DEF StartSubscription
  <2>2. looking.pc = "look" /\ NoJob.pc = "free"
    BY <1>0 DEF NoJob, JobType
  <2> HIDE DEF looking, st
  <2>3. new.pc # "make" /\ job' = [job EXCEPT ![j] = new]
    BY <1>a, <2>1, <2>2
  <2>4. QED
    BY <1>0, <1>1, <2>3
<1>2. CASE LookUp(j)
  <2>1. /\ st.pc = "look"
        /\ job' = [job EXCEPT ![j] =
             IF AlreadyMade(First(st.todo))
             THEN [st EXCEPT !.todo = st.todo \ {First(st.todo)}, !.skipped = TRUE]
             ELSE [st EXCEPT !.pc = "make"]]
    BY <1>2 DEF LookUp
  <2>2. /\ job' = [job EXCEPT ![j] = new]
        /\ new.pc = "make" => /\ ~AlreadyMade(First(st.todo))
                              /\ new.todo = st.todo
    BY <1>0, <2>1 DEF JobType
  <2>3. QED
    BY <1>0, <1>2, <2>1, <2>2 DEF Active
<1>3. CASE MakeReminder(j)
  <2>1. /\ st.pc = "make"
        /\ job' = [job EXCEPT ![j] =
             [st EXCEPT !.todo = st.todo \ {First(st.todo)},
                        !.made = st.made \cup {Len(reminders) + 1},
                        !.last = Len(reminders) + 1,
                        !.pc = IF st.summary THEN "look" ELSE "mail"]]
    BY <1>3 DEF MakeReminder
  <2>2. job' = [job EXCEPT ![j] = new] /\ new.pc # "make"
    BY <1>0, <2>1 DEF JobType
  <2>3. QED
    BY <1>0, <2>1, <2>2 DEF Active
<1>4. CASE SendReminder(j)
  <2>1. st.pc = "mail" /\ job' = [job EXCEPT ![j].pc = "look"]
    BY <1>4 DEF SendReminder
  <2>2. job' = [job EXCEPT ![j] = new] /\ new.pc = "look"
    BY <1>0, <2>1 DEF JobType
  <2>3. QED
    BY <1>0, <2>1, <2>2 DEF Active
<1>5. CASE FinishSubscription(j) \/ FailSubscription(j)
  <2> DEFINE again == [NoJob EXCEPT !.pc = "queued", !.left = st.left - 1]
  <2>1. \/ job' = [job EXCEPT ![j] = NoJob]
        \/ job' = [job EXCEPT ![j] = again]
    BY <1>5 DEF FinishSubscription, FailSubscription, Retried
  <2>2. again.pc = "queued" /\ NoJob.pc = "free"
    BY DEF NoJob
  <2> HIDE DEF again
  <2>3. job' = [job EXCEPT ![j] = new] /\ new.pc \in {"free", "queued"}
    BY <1>a, <2>1, <2>2
  <2>4. QED
    BY <1>0, <2>3
<1>6. QED
  BY <1>1, <1>2, <1>3, <1>4, <1>5 DEF SubscriptionStep

LEMMA OneInit == Init => OneInv
<1> SUFFICES ASSUME Init PROVE OneInv
  OBVIOUS
<1>1. /\ reminders = <<>> /\ dismissal = NoDismissal
      /\ \A j \in Jobs : job[j].pc = "free"
  BY DEF Init, NoJob
<1>2. DOMAIN reminders = {}
  BY <1>1
<1>3. QED
  BY <1>1, <1>2 DEF OneInv, OneReminder, Active

\* A job that makes a reminder found none, and no other job could make one since.
LEMMA MakeKeepsOne ==
  ASSUME TypeInv, OneInv, NEW j \in Jobs, MakeReminder(j)
  PROVE  OneReminder' /\ \A k \in DOMAIN reminders : reminders'[k] = reminders[k]
<1> DEFINE p == First(job[j].todo)
           new == Len(reminders) + 1
<1>1. /\ DOMAIN reminders' = DOMAIN reminders \cup {new}
      /\ \A k \in DOMAIN reminders : reminders'[k] = reminders[k]
      /\ reminders'[new] = NewReminder(p)
  BY MakeRows
<1>2. job[j].pc = "make" /\ overlapped' = overlapped
  BY DEF MakeReminder
<1>3. DOMAIN reminders = 1..Len(reminders) /\ Len(reminders) \in Nat
  BY Types
<1>4. reminders'[new].item = p
  BY <1>1 DEF NewReminder
<1>5. overlapped \/ \A i \in DOMAIN reminders : reminders[i].item = p => ~reminders[i].live
  BY <1>2 DEF OneInv, HasExisting
<1> HIDE DEF p
<1>6. SUFFICES ASSUME NEW i \in DOMAIN reminders', NEW k \in DOMAIN reminders', i < k,
                      reminders'[i].item = reminders'[k].item
               PROVE  overlapped \/ ~reminders'[i].live
  BY <1>1, <1>2 DEF OneReminder
<1>7. i \in DOMAIN reminders
  BY <1>1, <1>3, <1>6
<1>8. CASE k = new
  BY <1>1, <1>4, <1>5, <1>6, <1>7, <1>8
<1>9. CASE k \in DOMAIN reminders
  BY <1>1, <1>6, <1>7, <1>9 DEF OneInv, OneReminder
<1>10. QED
  BY <1>1, <1>8, <1>9

LEMMA OneStep == TypeInv /\ OneInv /\ [Next]_vars => OneInv'
<1> SUFFICES ASSUME TypeInv, OneInv, [Next]_vars PROVE OneInv'
  OBVIOUS
<1>0. job \in [Jobs -> JobType] /\ \A j \in Jobs : job[j] \in JobType
  BY Types
<1>r. /\ DOMAIN reminders \subseteq DOMAIN reminders'
      /\ (~ \E j \in Jobs : MakeReminder(j)) => DOMAIN reminders' = DOMAIN reminders
      /\ \A i \in DOMAIN reminders :
           /\ reminders'[i].item = reminders[i].item
           /\ reminders'[i].live => reminders[i].live
  BY RowsFollow DEF OneInv
<1>o. overlapped => overlapped'
  BY DEF Next, vars, BecomeDue, GenerateReminders, SubscriptionStep,
       StartSubscription, LookUp, MakeReminder, SendReminder, FinishSubscription,
       FailSubscription, MailStep, SendEmail, ScheduleUpdate, UpdateEmailStatus,
       FailMail, Deliver, PollDelivery, ReadReminder, DismissReminder
<1>1. OneReminder'
  <2>1. CASE \E j \in Jobs : MakeReminder(j)
    BY <2>1, MakeKeepsOne
  <2>2. CASE ~ \E j \in Jobs : MakeReminder(j)
    BY <1>r, <1>o, <2>2 DEF OneInv, OneReminder
  <2>3. QED
    BY <2>1, <2>2
\* What the jobs are doing.
<1>2. ASSUME NEW j \in Jobs, SubscriptionStep(j) \/ FailSubscription(j)
      PROVE  /\ overlapped' \/ \A i, k \in Jobs : Active(i)' /\ Active(k)' => i = k
             /\ overlapped' \/ \A k \in Jobs :
                  job'[k].pc = "make" => ~HasExisting(First(job[k].todo))'
                                         /\ job'[k].todo = job[k].todo
  <2>1. PICK new \in JobType :
           /\ job' = [job EXCEPT ![j] = new]
           /\ new.pc \notin {"free", "queued"} => Active(j) \/ StartSubscription(j)
           /\ new.pc = "make" => /\ LookUp(j) /\ ~AlreadyMade(First(job[j].todo))
                                 /\ new.todo = job[j].todo
    BY <1>2, JobFollows
  <2>2. \A k \in Jobs : job'[k] = IF k = j THEN new ELSE job[k]
    BY <1>0, <2>1
  <2>3. \A k \in Jobs : k # j => (Active(k)' <=> Active(k))
    BY <2>2 DEF Active
  <2>4. Active(j)' => Active(j) \/ StartSubscription(j)
    BY <2>1, <2>2 DEF Active
  <2>5. StartSubscription(j) => overlapped' \/ \A k \in Jobs : k # j => ~Active(k)
    BY DEF StartSubscription, Active
  <2>6. overlapped' \/ \A i, k \in Jobs : Active(i)' /\ Active(k)' => i = k
    BY <1>o, <2>3, <2>4, <2>5 DEF OneInv
  <2>7. ASSUME ~overlapped', NEW k \in Jobs, job'[k].pc = "make"
        PROVE  ~HasExisting(First(job[k].todo))' /\ job'[k].todo = job[k].todo
    <3>1. ~HasExisting(First(job[k].todo))
      BY <1>o, <2>1, <2>2, <2>7 DEF OneInv, AlreadyMade
    <3>2. job'[k].todo = job[k].todo
      BY <2>1, <2>2, <2>7
    <3>3. CASE \E i \in Jobs : MakeReminder(i)
      <4>1. PICK i \in Jobs : MakeReminder(i)
        BY <3>3
      <4>2. job[i].pc = "make" /\ job'[i].pc # "make" /\ overlapped' = overlapped
            /\ \A q \in Jobs : q # i => job'[q] = job[q]
        <5>1. /\ job[i].pc = "make" /\ overlapped' = overlapped
              /\ job' = [job EXCEPT ![i] =
                   [job[i] EXCEPT !.todo = job[i].todo \ {First(job[i].todo)},
                                  !.made = job[i].made \cup {Len(reminders) + 1},
                                  !.last = Len(reminders) + 1,
                                  !.pc = IF job[i].summary THEN "look" ELSE "mail"]]
          BY <4>1 DEF MakeReminder
        <5>2. QED
          BY <1>0, <5>1 DEF JobType
      <4>3. k # i /\ job[k].pc = "make"
        BY <2>7, <4>2
      <4>4. Active(k) /\ Active(i)
        BY <4>2, <4>3 DEF Active
      <4>5. QED
        BY <2>7, <4>2, <4>3, <4>4 DEF OneInv
    <3>4. CASE ~ \E i \in Jobs : MakeReminder(i)
      BY <1>r, <3>1, <3>2, <3>4 DEF HasExisting
    <3>5. QED
      BY <3>3, <3>4
  <2>8. QED
    BY <2>6, <2>7
<1>3. CASE \E j \in Jobs : SubscriptionStep(j) \/ FailSubscription(j)
  <2>1. /\ overlapped' \/ \A i, k \in Jobs : Active(i)' /\ Active(k)' => i = k
        /\ overlapped' \/ \A k \in Jobs :
             job'[k].pc = "make" => (~HasExisting(First(job[k].todo)))'
    BY <1>2, <1>3
  <2>2. dismissal' = dismissal
    BY <1>3 DEF SubscriptionStep, StartSubscription, LookUp, MakeReminder, SendReminder,
         FinishSubscription, FailSubscription
  <2>3. dismissal' # NoDismissal => dismissal'.copy.item = reminders'[dismissal'.of].item
    BY <1>r, <2>2 DEF OneInv, TypeInv
  <2>4. QED
    BY <1>1, <2>1, <2>3 DEF OneInv
<1>4. CASE ~ \E j \in Jobs : SubscriptionStep(j) \/ FailSubscription(j)
  <2>1. DOMAIN reminders' = DOMAIN reminders
    BY <1>r, <1>4 DEF SubscriptionStep
  <2>2. /\ overlapped' = overlapped
        /\ job' = job \/ \E j \in Jobs : job' = [job EXCEPT ![j] =
              [NoJob EXCEPT !.pc = "queued", !.left = MaxResends]]
    BY <1>4 DEF Next, vars, BecomeDue, GenerateReminders, MailStep, SendEmail,
         ScheduleUpdate, UpdateEmailStatus, FailMail, Deliver, PollDelivery,
         ReadReminder, DismissReminder
  <2>3. \A k \in Jobs : \/ job'[k] = job[k]
                        \/ job'[k].pc = "queued"
    BY <1>0, <2>2 DEF NoJob
  <2>4. overlapped' \/ \A i, k \in Jobs : Active(i)' /\ Active(k)' => i = k
    BY <2>2, <2>3 DEF OneInv, Active
  <2>5. \A p : HasExisting(p)' => HasExisting(p)
    BY <1>r, <2>1 DEF HasExisting
  <2>6. overlapped' \/ \A k \in Jobs :
           job'[k].pc = "make" => (~HasExisting(First(job[k].todo)))'
    BY <2>2, <2>3, <2>5 DEF OneInv
  <2>7. dismissal' # NoDismissal => dismissal'.copy.item = reminders'[dismissal'.of].item
    <3>1. \/ dismissal' = dismissal \/ dismissal' = NoDismissal
          \/ \E i \in DOMAIN reminders :
               dismissal' = [of |-> i, copy |-> reminders[i]] /\ reminders' = reminders
      BY <1>4 DEF Next, vars, BecomeDue, GenerateReminders, MailStep, SendEmail,
           ScheduleUpdate, UpdateEmailStatus, FailMail, Deliver, PollDelivery,
           ReadReminder, DismissReminder
    <3>2. QED
      BY <1>r, <3>1 DEF OneInv, TypeInv
  <2>8. QED
    BY <1>1, <2>4, <2>6, <2>7 DEF OneInv
<1>5. QED
  BY <1>3, <1>4

-----------------------------------------------------------------------------
(* Each reminder is mailed once *)

\* Steps that hand nothing over: whoever is responsible for a reminder was so
\* before.
LEMMA NobodyNew ==
  ASSUME SentInv, JobsTell', DOMAIN reminders \subseteq DOMAIN reminders',
         DOMAIN notify' = DOMAIN notify,
         \A n \in DOMAIN notify : notify'[n].about = notify[n].about,
         \A m \in Mails : /\ mail'[m].about \subseteq mail[m].about
                          /\ Queued(m)' \subseteq Queued(m),
         \A j \in Jobs : Unsent(j)' \subseteq Unsent(j),
         resent => resent'
  PROVE  SentInv'
<1>1. Made'
  BY DEF SentInv, Made
<1>2. ASSUME Apart PROVE Apart'
  <2>1. \A n \in DOMAIN notify' : \A k \in DOMAIN notify' :
          n # k => notify'[n].about \cap notify'[k].about = {}
    BY <1>2 DEF Apart
  <2>2. \A m \in Mails : \A k \in Mails : m # k => Queued(m)' \cap Queued(k)' = {}
    BY <1>2 DEF Apart
  <2>3. \A j \in Jobs : \A k \in Jobs : j # k => Unsent(j)' \cap Unsent(k)' = {}
    BY <1>2 DEF Apart
  <2>4. \A n \in DOMAIN notify' : \A m \in Mails : notify'[n].about \cap Queued(m)' = {}
    BY <1>2 DEF Apart
  <2>5. \A n \in DOMAIN notify' : \A j \in Jobs : notify'[n].about \cap Unsent(j)' = {}
    BY <1>2 DEF Apart
  <2>6. \A m \in Mails : \A j \in Jobs : Queued(m)' \cap Unsent(j)' = {}
    BY <1>2 DEF Apart
  <2>7. QED
    BY <2>1, <2>2, <2>3, <2>4, <2>5, <2>6 DEF Apart
<1>3. QED
  BY <1>1, <1>2 DEF SentInv

\* A job makes a reminder that is new, and is responsible for it.
LEMMA MakeKeepsSent ==
  ASSUME TypeInv, SentInv, JobsTell', NEW j \in Jobs,
         UNCHANGED <<notify, mail, resent>>, NEW new, new \notin DOMAIN reminders,
         DOMAIN reminders' = DOMAIN reminders \cup {new},
         Unsent(j)' \subseteq Unsent(j) \cup {new},
         \A k \in Jobs : k # j => Unsent(k)' = Unsent(k)
  PROVE  SentInv'
<1>1. \A m \in Mails : Queued(m)' = Queued(m)
  BY DEF Queued
<1>2. Made'
  BY <1>1 DEF SentInv, Made
<1>3. /\ \A n \in DOMAIN notify : new \notin notify[n].about
      /\ \A m \in Mails : new \notin Queued(m)
      /\ \A k \in Jobs : new \notin Unsent(k)
  BY DEF SentInv, Made, Queued
<1>4. ASSUME Apart PROVE Apart'
  <2>1. \A i \in Jobs : \A k \in Jobs : i # k => Unsent(i)' \cap Unsent(k)' = {}
    BY <1>3, <1>4 DEF Apart
  <2>2. \A n \in DOMAIN notify : \A k \in Jobs : notify[n].about \cap Unsent(k)' = {}
    BY <1>3, <1>4 DEF Apart
  <2>3. \A m \in Mails : \A k \in Jobs : Queued(m) \cap Unsent(k)' = {}
    BY <1>3, <1>4 DEF Apart
  <2>4. QED
    BY <1>1, <1>4, <2>1, <2>2, <2>3 DEF Apart
<1>5. QED
  BY <1>2, <1>4 DEF SentInv

\* A job hands what it is responsible for over to a mail.
LEMMA EnqueueKeepsSent ==
  ASSUME TypeInv, SentInv, JobsTell', NEW j \in Jobs,
         UNCHANGED <<reminders, notify, resent>>, Enqueue(Unsent(j)),
         Unsent(j)' = {}, \A k \in Jobs : k # j => Unsent(k)' = Unsent(k)
  PROVE  SentInv'
<1>1. PICK m \in Mails :
        /\ mail[m].pc = "free"
        /\ mail' = [mail EXCEPT ![m] = [pc |-> "queued", about |-> Unsent(j),
                                        id |-> 0, left |-> MaxResends]]
  BY DEF Enqueue
<1>2. mail \in [Mails -> MailType]
  BY Types
<1>3. /\ Queued(m) = {} /\ Queued(m)' = Unsent(j)
      /\ \A k \in Mails : k # m => Queued(k)' = Queued(k)
      /\ \A k \in Mails : mail'[k].about = IF k = m THEN Unsent(j) ELSE mail[k].about
  BY <1>1, <1>2 DEF Queued
<1>4. Made'
  BY <1>3 DEF SentInv, Made
<1>5. ASSUME Apart PROVE Apart'
  <2>1. \A i \in Mails : \A k \in Mails : i # k => Queued(i)' \cap Queued(k)' = {}
    BY <1>3, <1>5 DEF Apart
  <2>2. \A i \in Jobs : \A k \in Jobs : i # k => Unsent(i)' \cap Unsent(k)' = {}
    BY <1>5 DEF Apart
  <2>3. \A n \in DOMAIN notify : \A k \in Mails : notify[n].about \cap Queued(k)' = {}
    BY <1>3, <1>5 DEF Apart
  <2>4. \A n \in DOMAIN notify : \A k \in Jobs : notify[n].about \cap Unsent(k)' = {}
    BY <1>5 DEF Apart
  <2>5. \A i \in Mails : \A k \in Jobs : Queued(i)' \cap Unsent(k)' = {}
    <3>1. \A k \in Jobs : Queued(m)' \cap Unsent(k)' = {}
      BY <1>3, <1>5 DEF Apart
    <3>2. \A i \in Mails : i # m => \A k \in Jobs : Queued(i)' \cap Unsent(k)' = {}
      BY <1>3, <1>5 DEF Apart
    <3>3. QED
      BY <3>1, <3>2
  <2>6. QED
    BY <1>5, <2>1, <2>2, <2>3, <2>4, <2>5 DEF Apart
<1>6. QED
  BY <1>4, <1>5 DEF SentInv

\* And a mail to GOV.UK.
LEMMA SendKeepsSent ==
  ASSUME TypeInv, SentInv, NEW m \in Mails, SendEmail(m)
  PROVE  SentInv'
<1> DEFINE n == Len(notify) + 1
<1>1. /\ n \notin DOMAIN notify /\ DOMAIN notify' = DOMAIN notify \cup {n}
      /\ \A k \in DOMAIN notify : notify'[k] = notify[k]
      /\ notify'[n] = [about |-> mail[m].about, status |-> "sending"]
  BY SendMails
<1> HIDE DEF n
<1>a. notify'[n].about = mail[m].about
  BY <1>1
<1>2. /\ mail[m].pc = "queued" /\ UNCHANGED <<reminders, job, resent>>
      /\ mail' = [mail EXCEPT ![m] = [mail[m] EXCEPT !.pc = "sent", !.id = Len(notify')]]
  BY DEF SendEmail
<1>3. mail \in [Mails -> MailType] /\ mail[m] \in MailType
  BY Types
<1>4. /\ mail'[m].pc = "sent" /\ mail'[m].about = mail[m].about
      /\ \A k \in Mails : k # m => mail'[k] = mail[k]
  BY <1>2, <1>3 DEF MailType
<1>5. /\ notify'[n].about = Queued(m) /\ Queued(m)' = {}
      /\ \A k \in Mails : k # m => Queued(k)' = Queued(k)
      /\ \A j \in Jobs : Unsent(j)' = Unsent(j)
  BY <1>a, <1>1, <1>2, <1>4 DEF Queued, Unsent
<1>6. JobsTell'
  BY <1>2 DEF SentInv, JobsTell, Active
<1>7. Made'
  BY <1>a, <1>1, <1>2, <1>4, <1>5 DEF SentInv, Made
<1>8. ASSUME Apart PROVE Apart'
  <2>1. \A i \in DOMAIN notify' : \A k \in DOMAIN notify' :
          i # k => notify'[i].about \cap notify'[k].about = {}
    BY <1>1, <1>5, <1>8 DEF Apart
  <2>2. \A i \in Mails : \A k \in Mails : i # k => Queued(i)' \cap Queued(k)' = {}
    BY <1>5, <1>8 DEF Apart
  <2>3. \A i \in DOMAIN notify' : \A k \in Mails : notify'[i].about \cap Queued(k)' = {}
    BY <1>1, <1>5, <1>8 DEF Apart
  <2>4. \A i \in DOMAIN notify' : \A j \in Jobs : notify'[i].about \cap Unsent(j)' = {}
    BY <1>1, <1>5, <1>8 DEF Apart
  <2>5. \A i \in Mails : \A j \in Jobs : Queued(i)' \cap Unsent(j)' = {}
    BY <1>5, <1>8 DEF Apart
  <2>6. QED
    BY <1>5, <1>8, <2>1, <2>2, <2>3, <2>4, <2>5 DEF Apart
<1>9. QED
  BY <1>2, <1>6, <1>7, <1>8 DEF SentInv

LEMMA JobTells ==
  ASSUME TypeInv, SentInv, NEW j \in Jobs, NEW new, job' = [job EXCEPT ![j] = new],
         new.pc = "mail" => ~new.summary,
         new.pc \in {"free", "queued"} => ~new.summary /\ new.made = {}
  PROVE  /\ JobsTell'
         /\ \A k \in Jobs : k # j => Unsent(k)' = Unsent(k)
         /\ Unsent(j)' = IF new.summary THEN new.made
                         ELSE IF new.pc = "mail" THEN {new.last} ELSE {}
<1>1. \A k \in Jobs : job'[k] = IF k = j THEN new ELSE job[k]
  BY Types
<1>2. JobsTell'
  BY <1>1 DEF SentInv, JobsTell, Active
<1>3. QED
  BY <1>1, <1>2 DEF Unsent

LEMMA SubscriptionKeepsSent ==
  ASSUME TypeInv, SentInv, NEW j \in Jobs, SubscriptionStep(j) \/ FailSubscription(j)
  PROVE  SentInv'
<1> DEFINE st == job[j]
<1>0. job \in [Jobs -> JobType] /\ st \in JobType
  BY Types
<1>t. /\ st.pc = "mail" => ~st.summary
      /\ st.pc \in {"free", "queued"} => ~st.summary /\ st.made = {}
  BY DEF SentInv, JobsTell, Active
<1>n. NoJob.pc = "free" /\ NoJob.summary = FALSE /\ NoJob.made = {}
  BY DEF NoJob
\* The job's own state changes, and makes it responsible for nothing new.
<1>1. ASSUME NEW new, job' = [job EXCEPT ![j] = new],
             UNCHANGED <<reminders, notify, mail, resent>>,
             new.pc # "mail",
             new.pc \in {"free", "queued"} => ~new.summary /\ new.made = {},
             \/ new.made = {} \/ ~new.summary
             \/ st.summary /\ new.made = st.made
      PROVE  SentInv'
  <2>1. /\ JobsTell'
        /\ \A k \in Jobs : k # j => Unsent(k)' = Unsent(k)
        /\ Unsent(j)' = IF new.summary THEN new.made
                        ELSE IF new.pc = "mail" THEN {new.last} ELSE {}
    BY <1>1, JobTells
  <2>2. Unsent(j)' \subseteq Unsent(j)
    BY <1>1, <2>1 DEF Unsent
  <2>3. \A m \in Mails : Queued(m)' = Queued(m) /\ mail'[m].about = mail[m].about
    BY <1>1 DEF Queued
  <2>4. QED
    BY <1>1, <2>1, <2>2, <2>3, NobodyNew
<1>2. CASE StartSubscription(j)
  <2> DEFINE looking == [st EXCEPT !.pc = "look", !.todo = due,
                           !.summary = monthly /\ Cardinality(due) > Threshold]
  <2>0. UNCHANGED <<reminders, notify, mail, resent>>
    BY <1>2 DEF StartSubscription
  <2>1. /\ job' = [job EXCEPT ![j] = IF NothingToDo THEN NoJob ELSE looking]
        /\ st.pc = "queued"
    BY <1>2 DEF StartSubscription
  <2>2. looking.pc = "look" /\ looking.made = {}
    BY <1>0, <1>t, <2>1 DEF JobType
  <2> HIDE DEF looking, st
  <2>3. PICK new : /\ job' = [job EXCEPT ![j] = new]
                   /\ new.pc # "mail" /\ new.made = {}
                   /\ new.pc \in {"free", "queued"} => ~new.summary
    BY <1>n, <2>1, <2>2
  <2>4. QED
    BY <1>1, <2>0, <2>3
<1>3. CASE LookUp(j)
  <2> DEFINE p == First(st.todo)
             skip == [st EXCEPT !.todo = st.todo \ {p}, !.skipped = TRUE]
             go == [st EXCEPT !.pc = "make"]
  <2>1. /\ st.pc = "look" /\ UNCHANGED <<reminders, notify, mail, resent>>
        /\ job' = [job EXCEPT ![j] = IF AlreadyMade(p) THEN skip ELSE go]
    BY <1>3 DEF LookUp
  <2>2. skip.pc = "look" /\ skip.summary = st.summary /\ skip.made = st.made
    BY <1>0, <2>1 DEF JobType
  <2>3. go.pc = "make" /\ go.summary = st.summary /\ go.made = st.made
    BY <1>0 DEF JobType
  <2> HIDE DEF skip, go, st
  <2>4. QED
    BY <1>1, <2>1, <2>2, <2>3
<1>4. CASE MakeReminder(j)
  <2> DEFINE p == First(st.todo)
             i == Len(reminders) + 1
             new == [st EXCEPT !.todo = st.todo \ {p}, !.made = st.made \cup {i},
                               !.last = i, !.pc = IF st.summary THEN "look" ELSE "mail"]
  <2>1. /\ st.pc = "make" /\ UNCHANGED <<notify, mail, resent>>
        /\ job' = [job EXCEPT ![j] = new]
    BY <1>4 DEF MakeReminder
  <2>2. i \notin DOMAIN reminders /\ DOMAIN reminders' = DOMAIN reminders \cup {i}
    BY <1>4, MakeRows
  <2>3. /\ new.summary = st.summary /\ new.made = st.made \cup {i} /\ new.last = i
        /\ new.pc = IF st.summary THEN "look" ELSE "mail"
    BY <1>0 DEF JobType
  <2> HIDE DEF new, i
  <2>4. /\ JobsTell'
        /\ \A k \in Jobs : k # j => Unsent(k)' = Unsent(k)
        /\ Unsent(j)' = IF new.summary THEN new.made
                        ELSE IF new.pc = "mail" THEN {new.last} ELSE {}
    BY <2>1, <2>3, JobTells
  <2>5. Unsent(j)' \subseteq Unsent(j) \cup {i}
    BY <2>3, <2>4 DEF Unsent
  <2>6. QED
    BY <2>1, <2>2, <2>4, <2>5, MakeKeepsSent
<1>5. CASE SendReminder(j)
  <2> DEFINE new == [st EXCEPT !.pc = "look"]
  <2>1. /\ st.pc = "mail" /\ UNCHANGED <<reminders, notify, resent>>
        /\ job' = [job EXCEPT ![j].pc = "look"] /\ Enqueue({st.last})
    BY <1>5 DEF SendReminder, JustMade
  <2>2. job' = [job EXCEPT ![j] = new]
    BY <1>0, <2>1
  <2>3. new.pc = "look" /\ ~new.summary
    BY <1>0, <1>t, <2>1 DEF JobType
  <2> HIDE DEF new
  <2>4. /\ JobsTell'
        /\ \A k \in Jobs : k # j => Unsent(k)' = Unsent(k)
        /\ Unsent(j)' = {}
    BY <2>2, <2>3, JobTells
  <2>5. Unsent(j) = {st.last}
    BY <1>t, <2>1 DEF Unsent
  <2>6. Enqueue(Unsent(j))
    BY <2>1, <2>5
  <2>7. QED
    BY <2>1, <2>4, <2>6, EnqueueKeepsSent
<1>6. CASE FinishSubscription(j)
  <2>1. /\ st.pc = "look" /\ UNCHANGED <<reminders, notify, resent>>
        /\ job' = [job EXCEPT ![j] = NoJob] /\ SendSummary(j)
    BY <1>6 DEF FinishSubscription
  <2>2. CASE st.summary
    <3>1. Enqueue(st.made) /\ Unsent(j) = st.made
      BY <2>1, <2>2 DEF SendSummary, Unsent
    <3>2. Enqueue(Unsent(j))
      BY <3>1
    <3>3. /\ JobsTell'
          /\ \A k \in Jobs : k # j => Unsent(k)' = Unsent(k)
          /\ Unsent(j)' = {}
      BY <1>n, <2>1, JobTells
    <3>4. QED
      BY <2>1, <3>2, <3>3, EnqueueKeepsSent
  <2>3. CASE ~st.summary
    BY <1>1, <1>n, <2>1, <2>3 DEF SendSummary
  <2>4. QED
    BY <2>2, <2>3
<1>7. CASE FailSubscription(j)
  <2> DEFINE again == [NoJob EXCEPT !.pc = "queued", !.left = st.left - 1]
  <2>1. /\ UNCHANGED <<reminders, notify, mail, resent>>
        /\ job' = [job EXCEPT ![j] = IF st.left = 0 THEN NoJob ELSE again]
    BY <1>7 DEF FailSubscription, Retried
  <2>2. again.pc = "queued" /\ again.summary = FALSE /\ again.made = {}
    BY DEF NoJob
  <2> HIDE DEF again
  <2>3. QED
    BY <1>1, <1>n, <2>1, <2>2
<1>8. QED
  BY <1>2, <1>3, <1>4, <1>5, <1>6, <1>7 DEF SubscriptionStep

LEMMA SentInit == Init => SentInv
<1> SUFFICES ASSUME Init PROVE SentInv
  OBVIOUS
<1>1. /\ notify = <<>>
      /\ \A m \in Mails : mail[m].pc = "free" /\ mail[m].about = {}
      /\ \A j \in Jobs : job[j].pc = "free" /\ job[j].made = {} /\ job[j].summary = FALSE
  BY DEF Init, NoJob, NoMail
<1>2. DOMAIN notify = {}
  BY <1>1
<1>3. (\A m \in Mails : Queued(m) = {}) /\ (\A j \in Jobs : Unsent(j) = {})
  BY <1>1 DEF Queued, Unsent
<1>4. JobsTell
  BY <1>1 DEF JobsTell, Active
<1>5. QED
  BY <1>1, <1>2, <1>3, <1>4 DEF SentInv, Made, Apart

LEMMA SentStep == TypeInv /\ SentInv /\ [Next]_vars => SentInv'
<1> SUFFICES ASSUME TypeInv, SentInv, [Next]_vars PROVE SentInv'
  OBVIOUS
<1>0. /\ job \in [Jobs -> JobType] /\ mail \in [Mails -> MailType]
      /\ \A m \in Mails : mail[m] \in MailType
  BY Types
\* Nothing happens to jobs and mails that are queued.
<1>1. ASSUME UNCHANGED <<job, resent>>, DOMAIN reminders \subseteq DOMAIN reminders',
             DOMAIN notify' = DOMAIN notify,
             \A n \in DOMAIN notify : notify'[n].about = notify[n].about,
             \A m \in Mails : /\ mail'[m].about \subseteq mail[m].about
                              /\ Queued(m)' \subseteq Queued(m)
      PROVE  SentInv'
  <2>1. JobsTell' /\ \A j \in Jobs : Unsent(j)' = Unsent(j)
    BY <1>1 DEF SentInv, JobsTell, Active, Unsent
  <2>2. QED
    BY <1>1, <2>1, NobodyNew
<1>2. CASE GenerateReminders
  <2> DEFINE new == [NoJob EXCEPT !.pc = "queued", !.left = MaxResends]
  <2>1. PICK j \in Jobs : job[j].pc = "free" /\ job' = [job EXCEPT ![j] = new]
    BY <1>2 DEF GenerateReminders
  <2>2. new.pc = "queued" /\ new.summary = FALSE /\ new.made = {}
    BY DEF NoJob
  <2>3. UNCHANGED <<reminders, notify, mail, resent>>
    BY <1>2 DEF GenerateReminders
  <2> HIDE DEF new
  <2>4. /\ JobsTell'
        /\ \A k \in Jobs : k # j => Unsent(k)' = Unsent(k)
        /\ Unsent(j)' = {}
    BY <2>1, <2>2, JobTells
  <2>5. \A m \in Mails : Queued(m)' = Queued(m) /\ mail'[m].about = mail[m].about
    BY <2>3 DEF Queued
  <2>6. \A k \in Jobs : Unsent(k)' \subseteq Unsent(k)
    BY <2>4
  <2>7. QED
    BY <2>3, <2>4, <2>5, <2>6, NobodyNew
<1>3. ASSUME NEW m \in Mails, ScheduleUpdate(m) \/ UpdateEmailStatus(m)
      PROVE  SentInv'
  <2>1. CASE ScheduleUpdate(m)
    <3>1. /\ UNCHANGED <<job, resent, reminders, notify>>
          /\ mail' = [mail EXCEPT ![m] = [mail[m] EXCEPT !.pc = "update",
                                                          !.left = MaxResends]]
      BY <2>1 DEF ScheduleUpdate
    <3>2. /\ mail'[m].pc = "update" /\ mail'[m].about = mail[m].about
          /\ \A k \in Mails : k # m => mail'[k] = mail[k]
      BY <1>0, <3>1 DEF MailType
    <3>3. \A k \in Mails : /\ mail'[k].about \subseteq mail[k].about
                           /\ Queued(k)' \subseteq Queued(k)
      BY <3>2 DEF Queued
    <3>4. QED
      BY <1>1, <3>1, <3>3
  <2>2. CASE UpdateEmailStatus(m)
    <3>1. /\ UNCHANGED <<job, resent, notify>> /\ mail' = [mail EXCEPT ![m] = NoMail]
      BY <2>2 DEF UpdateEmailStatus
    <3>2. DOMAIN reminders' = DOMAIN reminders
      BY <2>2, UpdateRows
    <3>3. NoMail.pc = "free" /\ NoMail.about = {}
      BY DEF NoMail
    <3>4. \A k \in Mails : /\ mail'[k].about \subseteq mail[k].about
                           /\ Queued(k)' \subseteq Queued(k)
      BY <1>0, <3>1, <3>3 DEF Queued
    <3>5. QED
      BY <1>1, <3>1, <3>2, <3>4
  <2>3. QED
    BY <1>3, <2>1, <2>2
\* A mail job that failed may send its mail again; what it is about was made.
<1>4. ASSUME NEW m \in Mails, FailMail(m) PROVE SentInv'
  <2> DEFINE st == mail[m]
             again == [st EXCEPT !.pc = IF st.pc = "update" THEN "update" ELSE "queued",
                                 !.left = st.left - 1]
  <2>1. /\ UNCHANGED <<job, reminders, notify>> /\ resent' = TRUE
        /\ st.pc # "free"
        /\ mail' = [mail EXCEPT ![m] = IF st.left = 0 THEN NoMail ELSE again]
    BY <1>4 DEF FailMail
  <2>2. again.about = st.about
    BY <1>0 DEF MailType
  <2>3. NoMail.about = {}
    BY DEF NoMail
  <2> HIDE DEF again
  <2>4. \A k \in Mails : mail'[k].about \subseteq mail[k].about
    BY <1>0, <2>1, <2>2, <2>3
  <2>5. \A k \in Jobs : Unsent(k)' = Unsent(k)
    BY <2>1 DEF Unsent
  <2>6. JobsTell'
    BY <2>1 DEF SentInv, JobsTell, Active
  <2>7. Made'
    BY <2>1, <2>4, <2>5 DEF SentInv, Made
  <2>8. QED
    BY <2>1, <2>6, <2>7 DEF SentInv
<1>5. ASSUME NEW n \in DOMAIN notify, Deliver(n) PROVE SentInv'
  <2>1. UNCHANGED <<job, resent, reminders, mail>>
    BY <1>5 DEF Deliver
  <2>2. /\ DOMAIN notify' = DOMAIN notify
        /\ \A k \in DOMAIN notify : notify'[k].about = notify[k].about
    BY <1>5, DeliverMails
  <2>3. \A k \in Mails : Queued(k)' = Queued(k) /\ mail'[k].about = mail[k].about
    BY <2>1 DEF Queued
  <2>4. QED
    BY <1>1, <2>1, <2>2, <2>3
<1>6. CASE \/ \E p \in DueItems : BecomeDue(p)
           \/ \E n \in DOMAIN notify : PollDelivery(n)
           \/ \E i \in DOMAIN reminders : ReadReminder(i)
           \/ DismissReminder \/ UNCHANGED vars
  <2>1. UNCHANGED <<job, resent, notify, mail>>
    BY <1>6 DEF BecomeDue, PollDelivery, ReadReminder, DismissReminder, vars
  <2>2. DOMAIN reminders' = DOMAIN reminders
    <3>1. reminders' = reminders \/ (\E n \in DOMAIN notify : PollDelivery(n))
          \/ DismissReminder
      BY <1>6 DEF BecomeDue, ReadReminder, vars
    <3>2. QED
      BY <3>1, PollRows, DismissRows
  <2>3. \A k \in Mails : Queued(k)' = Queued(k) /\ mail'[k].about = mail[k].about
    BY <2>1 DEF Queued
  <2>4. QED
    BY <1>1, <2>1, <2>2, <2>3
<1>7. QED
  BY <1>2, <1>3, <1>4, <1>5, <1>6, SubscriptionKeepsSent, SendKeepsSent DEF Next, MailStep

-----------------------------------------------------------------------------
(* What is said of deliveries is true *)

\* GOV.UK forgets no mail, and delivers it once.
MailsFollow ==
  /\ DOMAIN notify \subseteq DOMAIN notify'
  /\ \A n \in DOMAIN notify :
       /\ notify'[n].about = notify[n].about
       /\ notify[n].status = "delivered" => notify'[n].status = "delivered"

LEMMA StaysTrue ==
  ASSUME MailsFollow, NEW i, NEW row, IsTrue(i, row, notify)
  PROVE  IsTrue(i, row, notify')
BY DEF MailsFollow, IsTrue

LEMMA TrueInit == Init => TrueInv
<1> SUFFICES ASSUME Init PROVE TrueInv
  OBVIOUS
<1>1. /\ DOMAIN reminders = {} /\ dismissal = NoDismissal
      /\ \A m \in Mails : mail[m].pc = "free"
  BY DEF Init, NoMail
<1>2. QED
  BY <1>1 DEF TrueInv

LEMMA TrueStep == TypeInv /\ TrueInv /\ [Next]_vars => TrueInv'
<1> SUFFICES ASSUME TypeInv, TrueInv, [Next]_vars PROVE TrueInv'
  OBVIOUS
<1>0. /\ mail \in [Mails -> MailType] /\ \A m \in Mails : mail[m] \in MailType
      /\ \A i \in DOMAIN reminders : reminders[i] \in Rows
      /\ dismissal # NoDismissal => dismissal.copy \in Rows
      /\ DOMAIN notify = 1..Len(notify)
  BY Types
<1>f. MailsFollow
  <2>1. CASE notify' = notify
    BY <2>1 DEF MailsFollow
  <2>2. ASSUME NEW m \in Mails, SendEmail(m) PROVE MailsFollow
    BY <2>2, SendMails DEF MailsFollow
  <2>3. ASSUME NEW n \in DOMAIN notify, Deliver(n) PROVE MailsFollow
    BY <2>3, DeliverMails DEF MailsFollow
  <2>4. \/ notify' = notify \/ \E m \in Mails : SendEmail(m)
        \/ \E n \in DOMAIN notify : Deliver(n)
    BY DEF Next, vars, BecomeDue, GenerateReminders, SubscriptionStep,
         StartSubscription, LookUp, MakeReminder, SendReminder, FinishSubscription,
         FailSubscription, MailStep, ScheduleUpdate, UpdateEmailStatus, FailMail,
         PollDelivery, ReadReminder, DismissReminder
  <2>5. QED
    BY <2>1, <2>2, <2>3, <2>4
\* The table.
<1>1. \A i \in DOMAIN reminders' : IsTrue(i, reminders'[i], notify')
  <2>r. \A i \in DOMAIN reminders : IsTrue(i, reminders[i], notify)
    BY DEF TrueInv
  <2>1. CASE reminders' = reminders
    BY <1>f, <2>r, <2>1, StaysTrue
  <2>2. ASSUME NEW j \in Jobs, MakeReminder(j)
        PROVE  \A i \in DOMAIN reminders' : IsTrue(i, reminders'[i], notify')
    <3> DEFINE new == Len(reminders) + 1
    <3>1. /\ DOMAIN reminders' = DOMAIN reminders \cup {new}
          /\ \A k \in DOMAIN reminders : reminders'[k] = reminders[k]
          /\ reminders'[new] = NewReminder(First(job[j].todo))
      BY <2>2, MakeRows
    <3>2. IsTrue(new, reminders'[new], notify')
      BY <3>1 DEF NewReminder, IsTrue
    <3>3. \A k \in DOMAIN reminders : IsTrue(k, reminders'[k], notify')
      BY <1>f, <2>r, <3>1, StaysTrue
    <3> HIDE DEF new
    <3>4. QED
      BY <3>1, <3>2, <3>3
  <2>3. ASSUME NEW m \in Mails, UpdateEmailStatus(m), NEW i \in DOMAIN reminders
        PROVE  IsTrue(i, reminders'[i], notify)
    <3> DEFINE row == [reminders[i] EXCEPT !.note = mail[m].id]
    <3>1. /\ mail[m].id \in DOMAIN notify
          /\ notify[mail[m].id].about = mail[m].about
      BY <2>3 DEF UpdateEmailStatus, TrueInv
    <3>2. reminders'[i] = IF i \in mail[m].about THEN row ELSE reminders[i]
      BY <2>3, UpdateRows
    <3>3. row.note = mail[m].id /\ row.delivery = reminders[i].delivery
      BY <1>0 DEF Rows
    <3> HIDE DEF row
    <3>4. QED
      BY <2>r, <3>1, <3>2, <3>3 DEF IsTrue
  <2>4. ASSUME NEW n \in DOMAIN notify, PollDelivery(n), NEW i \in DOMAIN reminders
        PROVE  IsTrue(i, reminders'[i], notify)
    <3> DEFINE row == [reminders[i] EXCEPT !.delivery = notify[n].status]
    <3>1. reminders'[i] = IF reminders[i].note = n THEN row ELSE reminders[i]
      BY <2>4, PollRows
    <3>2. row.note = reminders[i].note /\ row.delivery = notify[n].status
      BY <1>0 DEF Rows
    <3>3. n # 0
      BY <1>0
    <3> HIDE DEF row
    <3>4. QED
      BY <2>r, <3>1, <3>2, <3>3 DEF IsTrue
  <2>5. ASSUME DismissReminder, NEW i \in DOMAIN reminders
        PROVE  IsTrue(i, reminders'[i], notify)
    <3> DEFINE row == [dismissal.copy EXCEPT !.live = FALSE]
    <3>1. /\ dismissal # NoDismissal
          /\ reminders'[i] = IF i = dismissal.of THEN row ELSE reminders[i]
      BY <2>5, DismissRows
    <3>2. row.note = dismissal.copy.note /\ row.delivery = dismissal.copy.delivery
      BY <1>0, <3>1 DEF Rows
    <3> HIDE DEF row
    <3>3. QED
      BY <2>r, <3>1, <3>2 DEF TrueInv, IsTrue
  <2>6. \/ reminders' = reminders
        \/ \E j \in Jobs : MakeReminder(j)
        \/ /\ \/ \E m \in Mails : UpdateEmailStatus(m)
              \/ \E n \in DOMAIN notify : PollDelivery(n)
              \/ DismissReminder
           /\ notify' = notify /\ DOMAIN reminders' = DOMAIN reminders
    <3>1. \/ reminders' = reminders
          \/ \E j \in Jobs : MakeReminder(j)
          \/ /\ \/ \E m \in Mails : UpdateEmailStatus(m)
                \/ \E n \in DOMAIN notify : PollDelivery(n)
                \/ DismissReminder
             /\ notify' = notify
      BY DEF Next, vars, BecomeDue, GenerateReminders, SubscriptionStep,
           StartSubscription, LookUp, SendReminder, FinishSubscription,
           FailSubscription, MailStep, SendEmail, ScheduleUpdate, UpdateEmailStatus,
           FailMail, Deliver, PollDelivery, ReadReminder, DismissReminder
    <3>2. QED
      BY <3>1, UpdateRows, PollRows, DismissRows
  <2>7. QED
    BY <1>f, <2>1, <2>2, <2>3, <2>4, <2>5, <2>6, StaysTrue
\* The copy of a request.
<1>2. dismissal' # NoDismissal => IsTrue(dismissal'.of, dismissal'.copy, notify')
  <2>1. CASE dismissal' = dismissal
    BY <1>f, <2>1, StaysTrue DEF TrueInv
  <2>2. CASE dismissal' = NoDismissal
    BY <2>2
  <2>3. ASSUME NEW i \in DOMAIN reminders, ReadReminder(i)
        PROVE  IsTrue(dismissal'.of, dismissal'.copy, notify')
    <3>1. dismissal' = [of |-> i, copy |-> reminders[i]]
      BY <2>3 DEF ReadReminder
    <3>2. dismissal'.of = i /\ dismissal'.copy = reminders[i]
      BY <3>1
    <3>3. IsTrue(i, reminders[i], notify')
      BY <1>f, StaysTrue DEF TrueInv
    <3>4. QED
      BY <3>2, <3>3
  <2>4. \/ dismissal' = dismissal \/ dismissal' = NoDismissal
        \/ \E i \in DOMAIN reminders : ReadReminder(i)
    BY DEF Next, vars, BecomeDue, GenerateReminders, SubscriptionStep,
         StartSubscription, LookUp, MakeReminder, SendReminder, FinishSubscription,
         FailSubscription, MailStep, SendEmail, ScheduleUpdate, UpdateEmailStatus,
         FailMail, Deliver, PollDelivery, DismissReminder
  <2>5. QED
    BY <2>1, <2>2, <2>3, <2>4

\* What mail jobs know of their mails.
<1>3. \A m \in Mails : mail'[m].pc \in {"sent", "update"} =>
        mail'[m].id \in DOMAIN notify' /\ notify'[mail'[m].id].about = mail'[m].about
  <2>1. ASSUME NEW m \in Mails, SendEmail(m), NEW k \in Mails,
               mail'[k].pc \in {"sent", "update"}
        PROVE  mail'[k].id \in DOMAIN notify' /\ notify'[mail'[k].id].about = mail'[k].about
    <3>1. mail' = [mail EXCEPT ![m] = [mail[m] EXCEPT !.pc = "sent", !.id = Len(notify')]]
      BY <2>1 DEF SendEmail
    <3>2. /\ mail'[m].id = Len(notify') /\ mail'[m].about = mail[m].about
          /\ k # m => mail'[k] = mail[k]
      BY <1>0, <3>1 DEF MailType
    <3>3. /\ Len(notify') \in DOMAIN notify'
          /\ notify'[Len(notify')].about = mail[m].about
      <4>1. LET n == Len(notify) + 1 IN
            /\ DOMAIN notify' = DOMAIN notify \cup {n}
            /\ notify'[n] = [about |-> mail[m].about, status |-> "sending"]
            /\ n = Len(notify')
        BY <2>1, SendMails
      <4>2. QED
        BY <4>1
    <3>4. CASE k = m
      BY <3>2, <3>3, <3>4
    <3>5. CASE k # m
      BY <1>f, <2>1, <3>2, <3>5 DEF TrueInv, MailsFollow
    <3>6. QED
      BY <3>4, <3>5
\* No other step makes one of them know another mail.
  <2>2. ASSUME ~ \E m \in Mails : SendEmail(m), NEW k \in Mails,
               mail'[k].pc \in {"sent", "update"}
        PROVE  /\ mail[k].pc \in {"sent", "update"}
               /\ mail'[k].id = mail[k].id /\ mail'[k].about = mail[k].about
    <3>1. CASE mail' = mail
      BY <2>2, <3>1
    <3>2. ASSUME NEW m \in Mails, NEW new, mail' = [mail EXCEPT ![m] = new],
                 \/ new.pc \in {"free", "queued"}
                 \/ /\ mail[m].pc \in {"sent", "update"}
                    /\ new.id = mail[m].id /\ new.about = mail[m].about
          PROVE  /\ mail[k].pc \in {"sent", "update"}
                 /\ mail'[k].id = mail[k].id /\ mail'[k].about = mail[k].about
      BY <1>0, <2>2, <3>2
    <3>3. ASSUME NEW about, Enqueue(about)
          PROVE  \E m \in Mails : \E new :
                   mail' = [mail EXCEPT ![m] = new] /\ new.pc = "queued"
      <4> DEFINE new == [pc |-> "queued", about |-> about, id |-> 0,
                         left |-> MaxResends]
      <4>1. PICK m \in Mails : mail' = [mail EXCEPT ![m] = new]
        BY <3>3 DEF Enqueue
      <4>2. new.pc = "queued"
        OBVIOUS
      <4> HIDE DEF new
      <4>3. QED
        BY <4>1, <4>2
    <3>4. ASSUME NEW m \in Mails, ScheduleUpdate(m)
          PROVE  \E new : /\ mail' = [mail EXCEPT ![m] = new]
                          /\ mail[m].pc \in {"sent", "update"}
                          /\ new.id = mail[m].id /\ new.about = mail[m].about
      <4> DEFINE new == [mail[m] EXCEPT !.pc = "update", !.left = MaxResends]
      <4>1. mail[m].pc = "sent" /\ mail' = [mail EXCEPT ![m] = new]
        BY <3>4 DEF ScheduleUpdate
      <4>2. new.id = mail[m].id /\ new.about = mail[m].about
        BY <1>0 DEF MailType
      <4> HIDE DEF new
      <4>3. QED
        BY <4>1, <4>2
    <3>5. ASSUME NEW m \in Mails, FailMail(m) \/ UpdateEmailStatus(m)
          PROVE  \E new : /\ mail' = [mail EXCEPT ![m] = new]
                          /\ \/ new.pc \in {"free", "queued"}
                             \/ /\ mail[m].pc \in {"sent", "update"}
                                /\ new.id = mail[m].id /\ new.about = mail[m].about
      <4> DEFINE new == [mail[m] EXCEPT
                           !.pc = IF mail[m].pc = "update" THEN "update" ELSE "queued",
                           !.left = mail[m].left - 1]
      <4>1. \/ mail' = [mail EXCEPT ![m] = NoMail]
            \/ mail' = [mail EXCEPT ![m] = new]
        BY <3>5 DEF FailMail, UpdateEmailStatus
      <4>2. /\ NoMail.pc = "free"
            /\ new.id = mail[m].id /\ new.about = mail[m].about
            /\ new.pc = "queued" \/ mail[m].pc = "update"
        BY <1>0 DEF MailType, NoMail
      <4> HIDE DEF new
      <4>3. QED
        BY <4>1, <4>2
    <3>6. \/ mail' = mail \/ (\E about : Enqueue(about))
          \/ \E m \in Mails : ScheduleUpdate(m) \/ FailMail(m) \/ UpdateEmailStatus(m)
      BY <2>2 DEF Next, vars, BecomeDue, GenerateReminders, SubscriptionStep,
           StartSubscription, LookUp, MakeReminder, SendReminder, FinishSubscription,
           SendSummary, FailSubscription, MailStep, Deliver, PollDelivery,
           ReadReminder, DismissReminder
    <3>7. QED
      BY <3>1, <3>2, <3>3, <3>4, <3>5, <3>6
  <2>3. QED
    BY <1>f, <2>1, <2>2 DEF TrueInv, MailsFollow
<1>4. QED
  BY <1>1, <1>2, <1>3 DEF TrueInv

-----------------------------------------------------------------------------
IInv == TypeInv /\ OneInv /\ SentInv /\ TrueInv

LEMMA InitInv == Init => IInv
BY TypeInit, OneInit, SentInit, TrueInit DEF IInv

LEMMA StepInv == IInv /\ [Next]_vars => IInv'
BY TypeStep, OneStep, SentStep, TrueStep DEF IInv

LEMMA InvAlways == Spec => []IInv
BY InitInv, StepInv, PTL DEF Spec

\* Jobs, mails, reminders and dismissals keep their types.
THEOREM ReminderTypes == Spec => []TypeOK
<1>1. IInv => TypeOK
  BY DEF IInv, TypeInv
<1>2. QED
  BY <1>1, InvAlways, PTL

\* However often jobs fail and run again, an item has one reminder, unless two jobs
\* met or the first one was dismissed (reminder/tasks.py, create_..._reminder).
THEOREM ItemsHaveOneReminder == Spec => []OneReminder
<1>1. IInv => OneReminder
  BY DEF IInv, OneInv
<1>2. QED
  BY <1>1, InvAlways, PTL

\* No reminder is in two mails, unless a mail job ran again
\* (reminder/tasks.py, send_email_notification_via_rq).
THEOREM RemindersAreMailedOnce == Spec => []MailedOnce
<1>1. IInv => MailedOnce
  BY DEF IInv, SentInv, Apart, MailedOnce
<1>2. QED
  BY <1>1, InvAlways, PTL

\* What a reminder says of its delivery is so, whatever copy a dismissal saves
\* (reminder/tasks.py, update_notify_email_delivery_status_for_...).
THEOREM DeliveriesAreTrue == Spec => []DeliveryIsTrue
<1>1. IInv => DeliveryIsTrue
  BY DEF IInv, TrueInv, IsTrue, DeliveryIsTrue
<1>2. QED
  BY <1>1, InvAlways, PTL

=============================================================================
