------------------------------ MODULE Reminder ------------------------------
(***************************************************************************)
(* One adviser's reminders of a day (of a month, for estimated land dates): *)
(* the RQ job that makes them for the subscription, the jobs that mail them *)
(* with GOV.UK Notify, and the job that polls whether the mail arrived.    *)
(*                                                                         *)
(* Jobs commit each statement by itself, and are run again from the start  *)
(* when they fail.                                                         *)
(***************************************************************************)
EXTENDS Bounds, ReminderConstants, Sequences, FiniteSets

CONSTANTS Jobs,          \* slots for subscription jobs
          Mails,         \* slots for mail jobs
          Threshold      \* NOTIFICATION_SUMMARY_THRESHOLD

VARIABLES monthly,       \* whether these are reminders of land dates
          due,           \* the items that need a reminder
          runs,
          reminders,     \* the rows, by age
          notify,        \* the mails GOV.UK has taken
          job, mail,     \* what jobs are doing
          dismissal,     \* the request that dismisses a reminder
          overlapped,    \* whether two subscription jobs ever ran at once
          failed,        \* whether one failed
          resent         \* whether a mail job failed

vars == <<monthly, due, runs, reminders, notify, job, mail, dismissal,
          overlapped, failed, resent>>

NoJob == [pc |-> "free", todo |-> {}, made |-> {}, skipped |-> FALSE,
          summary |-> FALSE, last |-> 0, left |-> 0]
NoMail == [pc |-> "free", about |-> {}, id |-> 0, left |-> 0]
NoDismissal == [of |-> 0]

Init ==
  /\ monthly \in BOOLEAN /\ due \in SUBSET DueItems /\ runs = 0
  /\ reminders = <<>> /\ notify = <<>>
  /\ job = [j \in Jobs |-> NoJob] /\ mail = [m \in Mails |-> NoMail]
  /\ dismissal = NoDismissal
  /\ overlapped = FALSE /\ failed = FALSE /\ resent = FALSE

-----------------------------------------------------------------------------
(* Making reminders *)

BecomeDue(p) ==
  /\ p \notin due
  /\ due' = due \cup {p}
  /\ UNCHANGED <<monthly, runs, reminders, notify, job, mail, dismissal,
                 overlapped, failed, resent>>

\* generate_..._reminders queues a job for each subscription; it too may run again.
GenerateReminders ==
  /\ runs < MaxRuns /\ runs' = runs + 1
  /\ \E j \in Jobs :
       /\ job[j].pc = "free"
       /\ job' = [job EXCEPT ![j] = [NoJob EXCEPT !.pc = "queued",
                                                  !.left = MaxResends]]
  /\ UNCHANGED <<monthly, due, reminders, notify, mail, dismissal, overlapped,
                 failed, resent>>

\* Dismissed reminders do not count: the default manager hides them.
HasExisting(p) ==
  \E i \in DOMAIN reminders : reminders[i].item = p /\ reminders[i].live

First(S) == CHOOSE p \in S : \A q \in S : p <= q

\* Those of land dates go by whether there is one for the first project.
NothingToDo ==
  due = {} \/ (monthly /\ HasExisting(First(due)))

StartSubscription(j) ==
  /\ job[j].pc = "queued"
  /\ job' = [job EXCEPT ![j] =
       IF NothingToDo THEN NoJob
       ELSE [job[j] EXCEPT !.pc = "look", !.todo = due,
                           !.summary = monthly /\ Cardinality(due) > Threshold]]
  /\ overlapped' = (overlapped \/ \E i \in Jobs \ {j} :
                      job[i].pc \notin {"free", "queued"})
  /\ UNCHANGED <<monthly, due, runs, reminders, notify, mail, dismissal, failed,
                 resent>>

\* Mutant: the day is not looked at.
NeverExists(p) == FALSE

AlreadyMade(p) == HasExisting(p)

LookUp(j) ==
  LET p == First(job[j].todo) IN
  /\ job[j].pc = "look" /\ job[j].todo # {}
  /\ job' = [job EXCEPT ![j] =
       IF AlreadyMade(p)
       THEN [job[j] EXCEPT !.todo = job[j].todo \ {p}, !.skipped = TRUE]
       ELSE [job[j] EXCEPT !.pc = "make"]]
  /\ UNCHANGED <<monthly, due, runs, reminders, notify, mail, dismissal,
                 overlapped, failed, resent>>

NewReminder(p) == [item |-> p, live |-> TRUE, note |-> 0, delivery |-> "unknown"]

MakeReminder(j) ==
  LET p == First(job[j].todo)
      i == Len(reminders) + 1 IN
  /\ job[j].pc = "make" /\ i <= MaxReminders
  /\ reminders' = Append(reminders, NewReminder(p))
  /\ job' = [job EXCEPT ![j] =
       [job[j] EXCEPT !.todo = job[j].todo \ {p}, !.made = job[j].made \cup {i},
                      !.last = i, !.pc = IF job[j].summary THEN "look" ELSE "mail"]]
  /\ UNCHANGED <<monthly, due, runs, notify, mail, dismissal, overlapped, failed,
                 resent>>

\* notify_adviser_by_rq_email
Enqueue(about) ==
  \E m \in Mails :
    /\ mail[m].pc = "free"
    /\ mail' = [mail EXCEPT ![m] = [pc |-> "queued", about |-> about, id |-> 0,
                                    left |-> MaxResends]]

\* Mutant: all that were made so far.
MadeSoFar(j) == job[j].made

JustMade(j) == {job[j].last}

SendReminder(j) ==
  /\ job[j].pc = "mail"
  /\ Enqueue(JustMade(j))
  /\ job' = [job EXCEPT ![j].pc = "look"]
  /\ UNCHANGED <<monthly, due, runs, reminders, notify, dismissal, overlapped,
                 failed, resent>>

\* Mutant: no summary is mailed.
NoSummary(j) == UNCHANGED mail

\* The summary is mailed for all the reminders that were made.
SendSummary(j) ==
  IF job[j].summary THEN ~job[j].skipped /\ Enqueue(job[j].made)
                    ELSE UNCHANGED mail

FinishSubscription(j) ==
  /\ job[j].pc = "look" /\ job[j].todo = {}
  /\ SendSummary(j)
  /\ job' = [job EXCEPT ![j] = NoJob]
  /\ UNCHANGED <<monthly, due, runs, reminders, notify, dismissal, overlapped,
                 failed, resent>>

Retried(j) ==
  IF job[j].left = 0 THEN NoJob
  ELSE [NoJob EXCEPT !.pc = "queued", !.left = job[j].left - 1]

\* An exception, a timeout, the death of the worker, or, in the end, a summary
\* of a list that has None for each reminder there already was.
FailSubscription(j) ==
  /\ job[j].pc \notin {"free", "queued"}
  /\ job' = [job EXCEPT ![j] = Retried(j)]
  /\ failed' = TRUE
  /\ UNCHANGED <<monthly, due, runs, reminders, notify, mail, dismissal,
                 overlapped, resent>>

-----------------------------------------------------------------------------
(* Mailing them *)

SendEmail(m) ==
  /\ mail[m].pc = "queued" /\ Len(notify) < MaxSent
  /\ notify' = Append(notify, [about |-> mail[m].about, status |-> "sending"])
  /\ mail' = [mail EXCEPT ![m] = [mail[m] EXCEPT !.pc = "sent", !.id = Len(notify')]]
  /\ UNCHANGED <<monthly, due, runs, reminders, job, dismissal, overlapped, failed,
                 resent>>

\* The job ends by queuing another one, which is to record the mail's id.
ScheduleUpdate(m) ==
  /\ mail[m].pc = "sent"
  /\ mail' = [mail EXCEPT ![m] = [mail[m] EXCEPT !.pc = "update", !.left = MaxResends]]
  /\ UNCHANGED <<monthly, due, runs, reminders, notify, job, dismissal, overlapped,
                 failed, resent>>

UpdateEmailStatus(m) ==
  /\ mail[m].pc = "update"
  /\ reminders' = [i \in DOMAIN reminders |->
       IF i \in mail[m].about THEN [reminders[i] EXCEPT !.note = mail[m].id]
                              ELSE reminders[i]]
  /\ mail' = [mail EXCEPT ![m] = NoMail]
  /\ UNCHANGED <<monthly, due, runs, notify, job, dismissal, overlapped, failed,
                 resent>>

FailMail(m) ==
  /\ mail[m].pc # "free"
  /\ mail' = [mail EXCEPT ![m] =
       IF mail[m].left = 0 THEN NoMail
       ELSE [mail[m] EXCEPT !.pc = IF mail[m].pc = "update" THEN "update"
                                   ELSE "queued",
                            !.left = mail[m].left - 1]]
  /\ resent' = TRUE
  /\ UNCHANGED <<monthly, due, runs, reminders, notify, job, dismissal, overlapped,
                 failed>>

\* GOV.UK Notify delivers.
Deliver(n) ==
  /\ notify[n].status = "sending"
  /\ notify' = [notify EXCEPT ![n].status = "delivered"]
  /\ UNCHANGED <<monthly, due, runs, reminders, job, mail, dismissal, overlapped,
                 failed, resent>>

\* Mutant: all reminders that are not delivered yet.
AboutAny(i, n) == reminders[i].delivery # "delivered"

AboutMail(i, n) == reminders[i].note = n

\* update_notify_email_delivery_status_for_...: one mail's status, under a lock.
PollDelivery(n) ==
  /\ \E i \in DOMAIN reminders :
       AboutMail(i, n) /\ reminders[i].delivery # "delivered"
  /\ reminders' = [i \in DOMAIN reminders |->
       IF AboutMail(i, n)
       THEN [reminders[i] EXCEPT !.delivery = notify[n].status]
       ELSE reminders[i]]
  /\ UNCHANGED <<monthly, due, runs, notify, job, mail, dismissal, overlapped,
                 failed, resent>>

-----------------------------------------------------------------------------
(* Dismissing them: every column is saved from the copy of the request *)

ReadReminder(i) ==
  /\ dismissal = NoDismissal /\ reminders[i].live
  /\ dismissal' = [of |-> i, copy |-> reminders[i]]
  /\ UNCHANGED <<monthly, due, runs, reminders, notify, job, mail, overlapped,
                 failed, resent>>

DismissReminder ==
  /\ dismissal # NoDismissal
  /\ reminders' = [reminders EXCEPT ![dismissal.of] =
                     [dismissal.copy EXCEPT !.live = FALSE]]
  /\ dismissal' = NoDismissal
  /\ UNCHANGED <<monthly, due, runs, notify, job, mail, overlapped, failed, resent>>

-----------------------------------------------------------------------------
SubscriptionStep(j) ==
  \/ StartSubscription(j) \/ LookUp(j) \/ MakeReminder(j) \/ SendReminder(j)
  \/ FinishSubscription(j)

MailStep(m) == SendEmail(m) \/ ScheduleUpdate(m) \/ UpdateEmailStatus(m)

Next ==
  \/ \E p \in DueItems : BecomeDue(p)
  \/ GenerateReminders
  \/ \E j \in Jobs : SubscriptionStep(j) \/ FailSubscription(j)
  \/ \E m \in Mails : MailStep(m) \/ FailMail(m)
  \/ \E n \in DOMAIN notify : Deliver(n) \/ PollDelivery(n)
  \/ \E i \in DOMAIN reminders : ReadReminder(i)
  \/ DismissReminder

Spec == Init /\ [][Next]_vars

\* Workers take queued jobs and go on with them.
Fairness ==
  /\ \A j \in Jobs : WF_vars(SubscriptionStep(j) \/ FailSubscription(j))
  /\ \A m \in Mails : WF_vars(MailStep(m))

FairSpec == Spec /\ Fairness

-----------------------------------------------------------------------------
(* Properties *)

Rows == [item : DueItems, live : BOOLEAN, note : 0..MaxSent,
         delivery : {"unknown", "sending", "delivered"}]

TypeOK ==
  /\ monthly \in BOOLEAN /\ due \subseteq DueItems /\ runs \in 0..MaxRuns
  /\ reminders \in Seq(Rows) /\ Len(reminders) <= MaxReminders
  /\ Len(notify) <= MaxSent
  /\ notify \in Seq([about : SUBSET (1..MaxReminders),
                     status : {"sending", "delivered"}])
  /\ job \in [Jobs ->
       [pc : {"free", "queued", "look", "make", "mail"}, todo : SUBSET DueItems,
        made : SUBSET (1..MaxReminders), skipped : BOOLEAN, summary : BOOLEAN,
        last : 0..MaxReminders, left : 0..MaxResends]]
  /\ mail \in [Mails ->
       [pc : {"free", "queued", "sent", "update"}, id : 0..MaxSent,
        about : SUBSET (1..MaxReminders), left : 0..MaxResends]]
  /\ dismissal \in {NoDismissal} \cup [of : 1..MaxReminders, copy : Rows]
  /\ {overlapped, failed, resent} \subseteq BOOLEAN

\* However often jobs fail and run again, there is one reminder of an item,
\* unless two jobs of the subscription met or the adviser has dismissed the first
\* (reminder/tasks.py, create_..._reminder).
OneReminder ==
  \A i, k \in DOMAIN reminders :
    i < k /\ reminders[i].item = reminders[k].item
      => overlapped \/ ~reminders[i].live

\* No reminder is mailed twice, unless the mail job itself failed
\* (reminder/tasks.py, send_email_notification_via_rq).
MailedOnce ==
  \A m, n \in DOMAIN notify :
    m # n => resent \/ notify[m].about \cap notify[n].about = {}

\* A reminder is only said to have been delivered if GOV.UK delivered a mail of
\* that reminder, however late ids and answers are written and whatever copy a
\* dismissal saves (reminder/tasks.py, update_notify_email_delivery_status_for_...).
DeliveryIsTrue ==
  \A i \in DOMAIN reminders :
    reminders[i].delivery = "delivered" =>
      \E n \in DOMAIN notify : i \in notify[n].about /\ notify[n].status = "delivered"

Mailed(p) ==
  \E n \in DOMAIN notify : \E i \in notify[n].about : reminders[i].item = p

Awaits(p) == p \in due /\ \E j \in Jobs : job[j].pc = "queued"

IsSettled(p) == Mailed(p) \/ failed \/ resent \/ overlapped

\* Whatever is due when a job is queued is mailed in the end, unless a job failed
\* or met another one: a job that is run again does not make up for the reminders
\* or mails that were not made (reminder/tasks.py, generate_..._for_subscription).
DueIsMailed == \A p \in DueItems : Awaits(p) ~> IsSettled(p)

=============================================================================
