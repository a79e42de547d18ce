------------------------------- MODULE Bounds -------------------------------
(***************************************************************************)
(* How often RQ runs a failed job again, and what keeps the state spaces of *)
(* the services beside OMIS finite. None of the bounds is in the code.     *)
(***************************************************************************)
EXTENDS Naturals

CONSTANTS MaxRetries,    \* max_retries of the jobs
          MaxResends,    \* the same for those of Reminder
          MaxCalls,      \* upload callbacks (Document)
          MaxIndex,      \* mappings that are deployed (SearchIndex)
          MaxVersion,    \* changes of a row, its creation included (SearchIndex)
          MaxObjects,    \* objects in S3 (Ingest)
          MaxTime,       \* the clock of the data service (Ingest)
          MaxRuns,       \* subscription jobs that are queued (Reminder)
          MaxReminders,  \* reminders made (Reminder)
          MaxSent        \* mails GOV.UK Notify takes (Reminder)

ASSUME BoundsAssumption ==
  /\ {MaxRetries, MaxResends, MaxCalls, MaxObjects} \subseteq Nat
  /\ {MaxRuns, MaxReminders, MaxSent} \subseteq Nat
  /\ {MaxIndex, MaxVersion, MaxTime} \subseteq Nat \ {0}

=============================================================================
