---------------------------- MODULE IngestProofs ----------------------------
(***************************************************************************)
(* What Ingest guarantees for any number of identifications, jobs, retries *)
(* and objects.                                                            *)
(***************************************************************************)
EXTENDS Ingest, TLAPS, WellFoundedInduction

IdentType == [pc : {"idle", "queued", "running", "ingested", "schedule"},
              key : 0..MaxObjects]

JobType == [pc : {"free", "queued", "taken", "process", "record", "chain"},
            key : 0..MaxObjects, left : 0..MaxRetries, last : Times]

ObjectType == [holds : Times, created : Times]

Latest == Len(objects)

\* What was uploaded is older than its object, and objects are in order.
TimesOK ==
  /\ now <= MaxTime + Len(objects) /\ 1 <= now
  /\ source <= now /\ export <= now
  /\ export # 0 => Len(objects) < MaxObjects
  /\ \A k \in DOMAIN objects : /\ objects[k].holds < objects[k].created
                               /\ objects[k].created <= now
  /\ \A k, l \in DOMAIN objects : k < l => objects[k].created < objects[l].created

KeysOK ==
  /\ \A i \in Identifiers : ident[i].pc # "idle" => ident[i].key \in DOMAIN objects
  /\ \A j \in Jobs : job[j].pc # "free" => job[j].key \in DOMAIN objects

TypeInv == TypeOK /\ TimesOK /\ KeysOK

-----------------------------------------------------------------------------
(* Types *)

LEMMA Types ==
  ASSUME TypeOK
  PROVE  /\ ident \in [Identifiers -> IdentType] /\ job \in [Jobs -> JobType]
         /\ objects \in Seq(ObjectType) /\ ingested \subseteq DOMAIN objects
         /\ Len(objects) \in Nat /\ DOMAIN objects = 1..Len(objects)
         /\ \A k \in DOMAIN objects :
              /\ objects[k].holds \in Nat /\ objects[k].created \in Nat
              /\ objects[k].holds \in Times /\ objects[k].created \in Times
         /\ now \in Nat /\ source \in Nat /\ export \in Nat /\ stored \in Nat
<1>1. ident \in [Identifiers -> IdentType] /\ job \in [Jobs -> JobType]
  BY DEF TypeOK, IdentType, JobType
<1>2. /\ objects \in Seq(ObjectType) /\ ingested \subseteq DOMAIN objects
      /\ Len(objects) \in Nat /\ DOMAIN objects = 1..Len(objects)
  BY DEF TypeOK, ObjectType
<1>3. Times \subseteq Nat
  BY DEF Times
<1>4. ASSUME NEW k \in DOMAIN objects
      PROVE  objects[k].holds \in Times /\ objects[k].created \in Times
  <2>1. objects[k] \in ObjectType
    BY <1>2
  <2>2. QED
    BY <2>1 DEF ObjectType
<1>5. now \in Nat /\ source \in Nat /\ export \in Nat /\ stored \in Nat
  BY <1>3 DEF TypeOK
<1>6. QED
  BY <1>1, <1>2, <1>3, <1>4, <1>5

-----------------------------------------------------------------------------
(* The greatest of some times *)

LEMMA Least ==
  ASSUME NEW T, T \subseteq Nat, T # {}
  PROVE  \E x \in T : \A y \in T : x <= y
<1> DEFINE R == {p \in Nat \X Nat : p[1] < p[2]}
<1>1. IsWellFoundedOn(R, Nat)
  <2>1. R = OpToRel(<, Nat)
    BY DEF OpToRel
  <2>2. QED
    BY <2>1, NatLessThanWellFounded
<1> HIDE DEF R
<1>2. PICK x \in T : \A y \in T : ~ (<<y, x>> \in R)
  BY <1>1, WFMin
<1>3. \A y \in T : ~ (y < x)
  BY <1>2 DEF R
<1>4. QED
  BY <1>2, <1>3

LEMMA Greatest ==
  ASSUME NEW b \in Nat, NEW T, T \subseteq 0..b, T # {}
  PROVE  \E x \in T : \A y \in T : y <= x
<1> DEFINE D == {b - t : t \in T}
<1>1. D \subseteq Nat /\ D # {}
  <2>1. \A t \in T : b - t \in Nat
    OBVIOUS
  <2>2. QED
    BY <2>1
<1>2. PICK d \in D : \A e \in D : d <= e
  BY <1>1, Least
<1>3. PICK x \in T : d = b - x
  BY <1>2
<1>4. \A y \in T : b - x <= b - y
  BY <1>2, <1>3
<1>5. QED
  BY <1>3, <1>4

\* The datetime of the last ingestion is when an ingested object was created,
\* and none was created later.
LEMMA LastIngestionIs ==
  ASSUME TypeInv
  PROVE  /\ LastIngestion \in Times
         /\ LastIngestion = 0 \/ \E k \in ingested : LastIngestion = objects[k].created
         /\ \A k \in ingested : objects[k].created <= LastIngestion
<1> DEFINE times == {0} \cup {objects[k].created : k \in ingested}
<1>0. \A k \in ingested : objects[k].created \in Times
  BY Types DEF TypeInv
<1>1. times \subseteq Times /\ times # {} /\ MaxTime + MaxObjects \in Nat
  BY <1>0, BoundsAssumption DEF Times
<1>2. \E t \in times : \A u \in times : u <= t
  BY <1>1, Greatest DEF Times
<1>3. LastIngestion = CHOOSE t \in times : \A u \in times : u <= t
  BY DEF LastIngestion
<1> HIDE DEF times
<1>4. LastIngestion \in times /\ \A u \in times : u <= LastIngestion
  BY <1>2, <1>3
<1>5. QED
  BY <1>1, <1>4 DEF times

LEMMA TypeInit == Init => TypeInv
<1> SUFFICES ASSUME Init PROVE TypeInv
  OBVIOUS
<1>1. 0 \in Times /\ 1 \in Times /\ MaxObjects \in Nat /\ 0 \in 0..MaxRetries
  BY BoundsAssumption DEF Times
<1>2. /\ ident \in [Identifiers -> IdentType] /\ job \in [Jobs -> JobType]
  BY <1>1 DEF Init, NoIdent, NoJob, IdentType, JobType
<1>3. objects = <<>> /\ Len(objects) = 0 /\ DOMAIN objects = {}
  BY DEF Init
<1>4. TypeOK
  <2>1. now \in Times /\ source \in Times /\ export \in Times /\ stored \in Times
    BY <1>1 DEF Init
  <2>2. /\ objects \in Seq([holds : Times, created : Times]) /\ Len(objects) <= MaxObjects
        /\ ingested \subseteq DOMAIN objects
    BY <1>1, <1>3 DEF Init
  <2>3. overlapped \in BOOLEAN /\ slipped \in BOOLEAN
    BY DEF Init
  <2>4. QED
    BY <1>2, <2>1, <2>2, <2>3 DEF TypeOK, IdentType, JobType
<1>5. TimesOK
  BY <1>3, BoundsAssumption DEF Init, TimesOK
<1>6. KeysOK
  BY DEF Init, KeysOK, NoIdent, NoJob
<1>7. QED
  BY <1>4, <1>5, <1>6 DEF TypeInv

\* A step of an identification or of a job leaves the service alone.
LEMMA TypeOfSteps ==
  ASSUME TypeInv, UNCHANGED service,
         stored' \in Times, ingested' \subseteq DOMAIN objects,
         overlapped' \in BOOLEAN, slipped' \in BOOLEAN,
         ident' \in [Identifiers -> IdentType], job' \in [Jobs -> JobType],
         \A i \in Identifiers : ident'[i].pc # "idle" => ident'[i].key \in DOMAIN objects,
         \A j \in Jobs : job'[j].pc # "free" => job'[j].key \in DOMAIN objects
  PROVE  TypeInv'
<1>1. TypeOK'
  BY DEF TypeInv, TypeOK, service, IdentType, JobType
<1>2. TimesOK' /\ KeysOK'
  BY DEF TypeInv, TimesOK, KeysOK, service
<1>3. QED
  BY <1>1, <1>2 DEF TypeInv

LEMMA TypeOfIdent ==
  ASSUME TypeInv, NEW i \in Identifiers, NEW st \in IdentType,
         ident' = [ident EXCEPT ![i] = st],
         st.pc # "idle" => st.key \in DOMAIN objects,
         UNCHANGED <<service, stored, ingested, job, overlapped>>,
         slipped' \in BOOLEAN
  PROVE  TypeInv'
<1>1. ident' \in [Identifiers -> IdentType] /\ job \in [Jobs -> JobType]
  BY Types DEF TypeInv
<1>2. \A h \in Identifiers : ident'[h].pc # "idle" => ident'[h].key \in DOMAIN objects
  BY Types DEF TypeInv, KeysOK
<1>3. QED
  BY <1>1, <1>2, TypeOfSteps DEF TypeInv, TypeOK, KeysOK

LEMMA TypeOfJob ==
  ASSUME TypeInv, NEW j \in Jobs, NEW st \in JobType,
         job' = [job EXCEPT ![j] = st],
         st.pc # "free" => st.key \in DOMAIN objects,
         UNCHANGED <<service, ident>>,
         stored' \in Times, ingested' \subseteq DOMAIN objects,
         overlapped' \in BOOLEAN, slipped' \in BOOLEAN
  PROVE  TypeInv'
<1>1. job' \in [Jobs -> JobType] /\ ident \in [Identifiers -> IdentType]
  BY Types DEF TypeInv
<1>2. \A i \in Jobs : job'[i].pc # "free" => job'[i].key \in DOMAIN objects
  BY Types DEF TypeInv, KeysOK
<1>3. QED
  BY <1>1, <1>2, TypeOfSteps DEF TypeInv, KeysOK

LEMMA ServiceStep ==
  ASSUME TypeInv, Modify \/ Export \/ Upload PROVE TypeInv'
<1>0. /\ MaxTime \in Nat /\ MaxObjects \in Nat
      /\ Len(objects) \in Nat /\ Len(objects) <= MaxObjects
      /\ now \in Nat /\ source \in Nat /\ export \in Nat
      /\ DOMAIN objects = 1..Len(objects)
      /\ objects \in Seq(ObjectType)
  BY Types, BoundsAssumption DEF TypeInv, TypeOK
<1>1. CASE Modify
  <2>1. /\ now < MaxTime /\ now' = now + 1 /\ source' = now + 1
        /\ UNCHANGED <<export, objects, stored, ingested, ident, job, overlapped, slipped>>
    BY <1>1 DEF Modify
  <2>2. now' \in Times /\ source' \in Times
    BY <1>0, <2>1 DEF Times
  <2>3. TypeOK' /\ KeysOK'
    BY <2>1, <2>2 DEF TypeInv, TypeOK, KeysOK
  <2>4. TimesOK'
    BY <1>0, <2>1, Types DEF TypeInv, TimesOK
  <2>5. QED
    BY <2>3, <2>4 DEF TypeInv
<1>2. CASE Export
  <2>1. /\ Len(objects) < MaxObjects /\ export' = source
        /\ UNCHANGED <<now, source, objects, stored, ingested, ident, job,
                       overlapped, slipped>>
    BY <1>2 DEF Export
  <2>2. TypeOK' /\ KeysOK'
    BY <2>1 DEF TypeInv, TypeOK, KeysOK
  <2>3. TimesOK'
    BY <2>1 DEF TypeInv, TimesOK
  <2>4. QED
    BY <2>2, <2>3 DEF TypeInv
<1>3. CASE Upload
  <2> DEFINE new == [holds |-> export, created |-> now + 1]
  <2>1. /\ export # 0 /\ now' = now + 1 /\ export' = 0
        /\ objects' = Append(objects, new)
        /\ UNCHANGED <<source, stored, ingested, ident, job, overlapped, slipped>>
    BY <1>3 DEF Upload
  <2>2. Len(objects) < MaxObjects /\ now <= MaxTime + Len(objects) /\ export <= now
    BY <2>1 DEF TypeInv, TimesOK
  <2>3. now + 1 \in Times /\ export \in Times /\ 0 \in Times
    BY <1>0, <2>2 DEF Times
  <2>4. new \in ObjectType
    BY <2>3 DEF ObjectType
  <2>5. /\ objects' \in Seq(ObjectType) /\ Len(objects') = Len(objects) + 1
        /\ DOMAIN objects' = 1..(Len(objects) + 1)
        /\ \A k \in DOMAIN objects : objects'[k] = objects[k]
        /\ objects'[Len(objects) + 1] = new
    BY <1>0, <2>1, <2>4
  <2>6. TypeOK'
    <3>1. ingested \subseteq DOMAIN objects'
      BY <1>0, <2>5 DEF TypeInv, TypeOK
    <3>2. QED
      BY <1>0, <2>1, <2>2, <2>3, <2>5, <3>1 DEF TypeInv, TypeOK, ObjectType
  <2>7. KeysOK'
    BY <1>0, <2>1, <2>5 DEF TypeInv, KeysOK
  <2>8. TimesOK'
    <3>1. \A k \in DOMAIN objects' : /\ objects'[k].holds < objects'[k].created
                                     /\ objects'[k].created <= now'
      <4>1. \A k \in DOMAIN objects : objects[k].created \in Nat
        BY Types DEF TypeInv
      <4>2. \A k \in DOMAIN objects' : k \in DOMAIN objects \/ k = Len(objects) + 1
        BY <1>0, <2>5
      <4>3. new.holds = export /\ new.created = now + 1
        OBVIOUS
      <4> HIDE DEF new
      <4>4. QED
        BY <1>0, <2>1, <2>2, <2>5, <4>1, <4>2, <4>3 DEF TypeInv, TimesOK
    <3>2. \A k, l \in DOMAIN objects' :
            k < l => objects'[k].created < objects'[l].created
      <4>1. SUFFICES ASSUME NEW k \in DOMAIN objects', NEW l \in DOMAIN objects', k < l
                     PROVE  objects'[k].created < objects'[l].created
        OBVIOUS
      <4>2. k \in DOMAIN objects /\ (l \in DOMAIN objects \/ l = Len(objects) + 1)
        BY <1>0, <2>5, <4>1
      <4>3. objects[k].created \in Nat /\ objects[k].created <= now
        BY <4>2, Types DEF TypeInv, TimesOK
      <4>4. CASE l \in DOMAIN objects
        BY <2>5, <4>1, <4>2, <4>4 DEF TypeInv, TimesOK
      <4>5. CASE l = Len(objects) + 1
        BY <1>0, <2>5, <4>2, <4>3, <4>5
      <4>6. QED
        BY <4>2, <4>4, <4>5
    <3>3. QED
      BY <1>0, <2>1, <2>2, <2>5, <3>1, <3>2 DEF TypeInv, TimesOK
  <2>9. QED
    BY <2>6, <2>7, <2>8 DEF TypeInv
<1>4. QED
  BY <1>1, <1>2, <1>3

LEMMA IdentTypes ==
  ASSUME TypeInv, NEW i \in Identifiers, IdentStep(i) \/ FailIdentification(i)
  PROVE  TypeInv'
<1>0. /\ ident[i] \in IdentType /\ NoIdent \in IdentType
      /\ ident[i].pc # "idle" => ident[i].key \in DOMAIN objects
      /\ MaxObjects \in Nat /\ MaxRetries \in Nat /\ 0 \in Times
      /\ Len(objects) \in 0..MaxObjects /\ Len(objects) \in Nat
      /\ DOMAIN objects = 1..Len(objects)
      /\ slipped \in BOOLEAN
  <2>1. ident[i] \in IdentType /\ DOMAIN objects = 1..Len(objects) /\ Len(objects) \in Nat
    BY Types DEF TypeInv
  <2>2. NoIdent \in IdentType /\ 0 \in Times
    BY BoundsAssumption DEF NoIdent, IdentType, Times
  <2>3. QED
    BY <2>1, <2>2, BoundsAssumption DEF TypeInv, TypeOK, KeysOK
<1>1. CASE Identify(i)
  <2> DEFINE st == [pc |-> "queued", key |-> Len(objects)]
  <2>1. st \in IdentType /\ st.key \in DOMAIN objects
    <3>1. objects # <<>> /\ objects \in Seq(ObjectType)
      BY <1>1, Types DEF Identify, TypeInv
    <3>2. Len(objects) # 0
      BY <3>1
    <3>3. QED
      BY <1>0, <3>2 DEF IdentType
  <2>2. /\ ident' = [ident EXCEPT ![i] = st] /\ slipped' \in BOOLEAN
        /\ UNCHANGED <<service, stored, ingested, job, overlapped>>
    BY <1>0, <1>1 DEF Identify
  <2> HIDE DEF st
  <2>3. QED
    BY <2>1, <2>2, TypeOfIdent
<1>2. ASSUME NEW next \in {"running", "ingested", "schedule"}, GoOn(i, next),
             ident[i].pc # "idle", slipped' \in BOOLEAN,
             UNCHANGED <<service, stored, ingested, job, overlapped>>
      PROVE  TypeInv'
  <2> DEFINE st == IF Found(i) THEN NoIdent ELSE [ident[i] EXCEPT !.pc = next]
  <2>1. st \in IdentType /\ (st.pc # "idle" => st.key \in DOMAIN objects)
    <3>1. [ident[i] EXCEPT !.pc = next] \in IdentType
      BY <1>0 DEF IdentType
    <3>2. [ident[i] EXCEPT !.pc = next].key = ident[i].key
      BY <1>0 DEF IdentType
    <3>3. QED
      BY <1>0, <1>2, <3>1, <3>2 DEF NoIdent
  <2>2. ident' = [ident EXCEPT ![i] = st]
    BY <1>2 DEF GoOn
  <2> HIDE DEF st
  <2>3. QED
    BY <1>2, <2>1, <2>2, TypeOfIdent
<1>3. CASE CheckQueued(i)
  BY <1>0, <1>2, <1>3 DEF CheckQueued
<1>4. CASE CheckRunning(i)
  BY <1>0, <1>2, <1>4 DEF CheckRunning
<1>5. CASE CheckIngested(i)
  BY <1>0, <1>2, <1>5 DEF CheckIngested
<1>6. CASE ScheduleIngestion(i)
  <2> DEFINE st == [NoJob EXCEPT !.pc = "queued", !.key = ident[i].key,
                                 !.left = MaxRetries]
  <2>1. PICK j \in Jobs : job' = [job EXCEPT ![j] = st]
    BY <1>6 DEF ScheduleIngestion
  <2>2. /\ ident' = [ident EXCEPT ![i] = NoIdent] /\ ident[i].pc # "idle"
        /\ UNCHANGED <<service, stored, ingested, overlapped, slipped>>
    BY <1>6 DEF ScheduleIngestion
  <2>3. st \in JobType /\ st.key \in DOMAIN objects
    <3>1. ident[i].key \in 0..MaxObjects
      BY <1>0 DEF IdentType
    <3>2. MaxRetries \in 0..MaxRetries
      BY <1>0
    <3>3. NoJob \in JobType
      BY BoundsAssumption DEF NoJob, JobType, Times
    <3>4. st \in JobType
      BY <3>1, <3>2, <3>3 DEF JobType
    <3>5. st.key = ident[i].key
      BY DEF NoJob
    <3>6. QED
      BY <1>0, <2>2, <3>4, <3>5
  <2> HIDE DEF st
  <2>4. job' \in [Jobs -> JobType] /\ ident' \in [Identifiers -> IdentType]
    BY <1>0, <2>1, <2>2, <2>3, Types DEF TypeInv
  <2>5. \A k \in Jobs : job'[k].pc # "free" => job'[k].key \in DOMAIN objects
    BY <2>1, <2>3, Types DEF TypeInv, KeysOK
  <2>6. \A h \in Identifiers : ident'[h].pc # "idle" => ident'[h].key \in DOMAIN objects
    BY <2>2, Types DEF TypeInv, KeysOK, NoIdent
  <2>7. QED
    BY <2>2, <2>4, <2>5, <2>6, TypeOfSteps DEF TypeInv, TypeOK
<1>7. CASE FailIdentification(i)
  BY <1>0, <1>7, TypeOfIdent DEF FailIdentification, NoIdent
<1>8. QED
  BY <1>1, <1>3, <1>4, <1>5, <1>6, <1>7 DEF IdentStep

LEMMA JobTypes ==
  ASSUME TypeInv, NEW j \in Jobs, JobStep(j) \/ FailJob(j)
  PROVE  TypeInv'
<1>0. /\ job[j] \in JobType /\ NoJob \in JobType /\ NoJob.pc = "free"
      /\ job[j].pc # "free" => job[j].key \in DOMAIN objects
      /\ overlapped \in BOOLEAN /\ slipped \in BOOLEAN
      /\ stored \in Times /\ ingested \subseteq DOMAIN objects
  <2>1. job[j] \in JobType
    BY Types DEF TypeInv
  <2>2. NoJob \in JobType /\ NoJob.pc = "free"
    BY BoundsAssumption DEF NoJob, JobType, Times
  <2>3. QED
    BY <2>1, <2>2 DEF TypeInv, TypeOK, KeysOK
<1>1. ASSUME NEW p \in {"taken", "record", "chain"}, job[j].pc # "free",
             job' = [job EXCEPT ![j].pc = p], UNCHANGED <<service, ident>>,
             stored' \in Times, ingested' \subseteq DOMAIN objects,
             overlapped' \in BOOLEAN, slipped' \in BOOLEAN
      PROVE  TypeInv'
  <2> DEFINE st == [job[j] EXCEPT !.pc = p]
  <2>1. st \in JobType /\ st.key = job[j].key
    BY <1>0 DEF JobType
  <2>2. job' = [job EXCEPT ![j] = st]
    BY <1>1
  <2> HIDE DEF st
  <2>3. QED
    BY <1>0, <1>1, <2>1, <2>2, TypeOfJob
<1>2. CASE Take(j)
  BY <1>0, <1>1, <1>2 DEF Take
<1>3. CASE Start(j)
  <2> DEFINE st == [job[j] EXCEPT !.pc = "process", !.last = LastIngestion]
  <2>1. st \in JobType /\ st.key = job[j].key
    BY <1>0, LastIngestionIs DEF JobType
  <2>2. job' = [job EXCEPT ![j] = st]
    BY <1>3 DEF Start
  <2>3. /\ UNCHANGED <<service, stored, ingested, ident, slipped>>
        /\ job[j].pc # "free" /\ overlapped' \in BOOLEAN
    BY <1>0, <1>3 DEF Start
  <2> HIDE DEF st
  <2>4. QED
    BY <1>0, <2>1, <2>2, <2>3, TypeOfJob
<1>4. CASE ProcessRecord(j)
  <2>1. stored' \in Times
    BY <1>0, <1>4, Types DEF ProcessRecord, TypeInv
  <2>2. QED
    BY <1>0, <1>1, <1>4, <2>1 DEF ProcessRecord
<1>5. CASE RecordIngestion(j)
  BY <1>0, <1>1, <1>5 DEF RecordIngestion
<1>6. CASE Chain(j)
  BY <1>0, <1>6, TypeOfJob DEF Chain
<1>7. CASE FailJob(j)
  <2> DEFINE st == IF job[j].left = 0 THEN NoJob
                   ELSE [NoJob EXCEPT !.pc = "queued", !.key = job[j].key,
                                      !.left = job[j].left - 1]
  <2>1. st \in JobType /\ (st.pc # "free" => st.key = job[j].key)
    <3>1. ASSUME job[j].left # 0 PROVE job[j].left - 1 \in 0..MaxRetries
      BY <1>0, <3>1, BoundsAssumption DEF JobType
    <3>2. QED
      BY <1>0, <3>1 DEF JobType, NoJob
  <2>2. job' = [job EXCEPT ![j] = st]
    BY <1>7 DEF FailJob
  <2>3. /\ UNCHANGED <<service, stored, ingested, ident, overlapped>>
        /\ job[j].pc # "free" /\ slipped' \in BOOLEAN
    BY <1>0, <1>7 DEF FailJob
  <2> HIDE DEF st
  <2>4. QED
    BY <1>0, <2>1, <2>2, <2>3, TypeOfJob
<1>8. QED
  BY <1>2, <1>3, <1>4, <1>5, <1>6, <1>7 DEF JobStep

LEMMA TypeStep == TypeInv /\ [Next]_vars => TypeInv'
<1> SUFFICES ASSUME TypeInv, [Next]_vars PROVE TypeInv'
  OBVIOUS
<1>1. CASE UNCHANGED vars
  BY <1>1 DEF vars, service, TypeInv, TypeOK, TimesOK, KeysOK
<1>2. CASE Modify \/ Export \/ Upload
  BY <1>2, ServiceStep
<1>3. ASSUME NEW i \in Identifiers, IdentStep(i) \/ FailIdentification(i) PROVE TypeInv'
  BY <1>3, IdentTypes
<1>4. ASSUME NEW j \in Jobs, JobStep(j) \/ FailJob(j) PROVE TypeInv'
  BY <1>4, JobTypes
<1>5. QED
  BY <1>1, <1>2, <1>3, <1>4 DEF Next, Failure

\* The type invariant: objects, jobs and identifications are what they should be
\* whatever fails and however many there are.
THEOREM IngestTypes == Spec => []TypeOK
<1>1. TypeInv => TypeOK
  BY DEF TypeInv
<1>2. QED
  BY <1>1, TypeInit, TypeStep, PTL DEF Spec

-----------------------------------------------------------------------------
(* One job for an object *)

Active(j) == job[j].pc # "free"

\* Unless one slipped through, identifications run one after the other, and what
\* one of them has asked keeps its answer: a job only moves on.
OneInv ==
  slipped \/
    /\ \A h, i \in Identifiers : h # i /\ ident[h].pc # "idle" => ident[i].pc = "idle"
    /\ \A i, j \in Jobs : i # j /\ Active(i) /\ Active(j) => job[i].key # job[j].key
    /\ \A i \in Identifiers, j \in Jobs :
         job[j].key = ident[i].key =>
           /\ ident[i].pc = "running" => job[j].pc # "queued"
           /\ ident[i].pc \in {"ingested", "schedule"} => ~Active(j)

LEMMA OneInit == Init => OneInv
BY DEF Init, OneInv, Active, NoIdent, NoJob

LEMMA OneIdent ==
  ASSUME TypeInv, OneInv, NEW i \in Identifiers, IdentStep(i) \/ FailIdentification(i)
  PROVE  OneInv'
<1> SUFFICES ASSUME ~slipped' PROVE OneInv'
  BY DEF OneInv
<1>0. /\ ~slipped
      /\ ident \in [Identifiers -> IdentType] /\ job \in [Jobs -> JobType]
  <2>1. ident \in [Identifiers -> IdentType] /\ job \in [Jobs -> JobType]
    BY Types DEF TypeInv
  <2>2. slipped => slipped'
    BY DEF IdentStep, Identify, CheckQueued, CheckRunning, CheckIngested,
           ScheduleIngestion, FailIdentification
  <2>3. QED
    BY <2>1, <2>2
<1>1. CASE Identify(i)
  BY <1>0, <1>1 DEF Identify, OneInv, Active, IdentType
<1>2. CASE CheckQueued(i)
  BY <1>0, <1>2
     DEF CheckQueued, GoOn, Found, Queued, OneInv, Active, IdentType, NoIdent
<1>3. CASE CheckRunning(i)
  <2>1. \A j \in Jobs : job[j].pc \in {"free", "queued", "taken", "process", "record",
                                       "chain"}
    BY <1>0 DEF JobType
  <2>2. ASSUME ~Found(i), NEW j \in Jobs, job[j].key = ident[i].key
        PROVE  job[j].pc = "free"
    BY <1>0, <1>3, <2>1, <2>2 DEF CheckRunning, Found, Running, Taken, OneInv
  <2>3. CASE Found(i)
    BY <1>0, <1>3, <2>3 DEF CheckRunning, GoOn, OneInv, Active, IdentType, NoIdent
  <2>4. CASE ~Found(i)
    BY <1>0, <1>3, <2>2, <2>4 DEF CheckRunning, GoOn, OneInv, Active, IdentType
  <2>5. QED
    BY <2>3, <2>4
<1>4. CASE CheckIngested(i)
  BY <1>0, <1>4 DEF CheckIngested, GoOn, OneInv, Active, IdentType, NoIdent
<1>5. CASE ScheduleIngestion(i)
  <2>1. PICK j \in Jobs :
          /\ job[j].pc = "free"
          /\ job' = [job EXCEPT ![j] = [NoJob EXCEPT !.pc = "queued",
                                          !.key = ident[i].key, !.left = MaxRetries]]
    BY <1>5 DEF ScheduleIngestion
  <2>2. /\ job'[j].key = ident[i].key
        /\ \A k \in Jobs \ {j} : job'[k] = job[k]
    BY <1>0, <2>1 DEF NoJob
  <2>3. ident[i].pc = "schedule" /\ \A h \in Identifiers : ident'[h].pc = "idle"
    BY <1>0, <1>5 DEF ScheduleIngestion, OneInv, NoIdent
  <2>4. \A k \in Jobs \ {j} : Active(k) => job[k].key # ident[i].key
    BY <1>0, <2>3 DEF OneInv
  <2>5. \A k, l \in Jobs : k # l /\ Active(k)' /\ Active(l)' => job'[k].key # job'[l].key
    BY <1>0, <2>2, <2>4 DEF OneInv, Active
  <2>6. QED
    BY <2>3, <2>5 DEF OneInv, Active
<1>6. CASE FailIdentification(i)
  BY <1>0, <1>6 DEF FailIdentification, OneInv, Active, NoIdent
<1>7. QED
  BY <1>1, <1>2, <1>3, <1>4, <1>5, <1>6 DEF IdentStep

LEMMA OneJob ==
  ASSUME TypeInv, OneInv, NEW j \in Jobs, JobStep(j) \/ FailJob(j)
  PROVE  OneInv'
<1> SUFFICES ASSUME ~slipped' PROVE OneInv'
  BY DEF OneInv
<1>0. /\ ~slipped /\ UNCHANGED ident
      /\ job \in [Jobs -> JobType]
  <2>1. job \in [Jobs -> JobType]
    BY Types DEF TypeInv
  <2>2. (slipped => slipped') /\ UNCHANGED ident
    <3>1. CASE Take(j) \/ Start(j) \/ Chain(j)
      BY <3>1 DEF Take, Start, Chain
    <3>2. CASE ProcessRecord(j) \/ RecordIngestion(j)
      BY <3>2 DEF ProcessRecord, RecordIngestion
    <3>3. CASE FailJob(j)
      BY <3>3 DEF FailJob
    <3>4. QED
      BY <3>1, <3>2, <3>3 DEF JobStep
  <2>3. QED
    BY <2>1, <2>2
<1>1. ASSUME NEW p \in {"taken", "process", "record", "chain"}, Active(j),
             \A k \in Jobs \ {j} : job'[k] = job[k],
             job'[j].pc = p, job'[j].key = job[j].key
      PROVE  OneInv'
  BY <1>0, <1>1 DEF OneInv, Active
<1>2. CASE Take(j)
  BY <1>0, <1>1, <1>2 DEF Take, Active, JobType
<1>3. CASE Start(j)
  BY <1>0, <1>1, <1>3 DEF Start, Active, JobType
<1>4. CASE ProcessRecord(j)
  BY <1>0, <1>1, <1>4 DEF ProcessRecord, Active, JobType
<1>5. CASE RecordIngestion(j)
  BY <1>0, <1>1, <1>5 DEF RecordIngestion, Active, JobType
<1>6. ASSUME job' = [job EXCEPT ![j] = NoJob] PROVE OneInv'
  BY <1>0, <1>6 DEF OneInv, Active, NoJob
<1>7. CASE Chain(j)
  BY <1>6, <1>7 DEF Chain
<1>8. CASE FailJob(j)
  <2>1. CASE job[j].left = 0
    BY <1>6, <1>8, <2>1 DEF FailJob
  <2>2. CASE job[j].left # 0
    <3>1. /\ Active(j) /\ job'[j].pc = "queued" /\ job'[j].key = job[j].key
          /\ \A k \in Jobs \ {j} : job'[k] = job[k]
      BY <1>0, <1>8, <2>2 DEF FailJob, NoJob, Active
    <3>2. \A i \in Identifiers : ident[i].pc = "running" => ident[i].key # job[j].key
      BY <1>8 DEF FailJob
    <3>3. QED
      BY <1>0, <3>1, <3>2 DEF OneInv, Active
  <2>3. QED
    BY <2>1, <2>2
<1>9. QED
  BY <1>2, <1>3, <1>4, <1>5, <1>7, <1>8 DEF JobStep

LEMMA OneStep == TypeInv /\ OneInv /\ [Next]_vars => OneInv'
<1> SUFFICES ASSUME TypeInv, OneInv, [Next]_vars PROVE OneInv'
  OBVIOUS
<1>1. CASE UNCHANGED vars
  BY <1>1 DEF vars, OneInv, Active
<1>2. CASE Modify \/ Export \/ Upload
  BY <1>2 DEF Modify, Export, Upload, OneInv, Active
<1>3. ASSUME NEW i \in Identifiers, IdentStep(i) \/ FailIdentification(i) PROVE OneInv'
  BY <1>3, OneIdent
<1>4. ASSUME NEW j \in Jobs, JobStep(j) \/ FailJob(j) PROVE OneInv'
  BY <1>4, OneJob
<1>5. QED
  BY <1>1, <1>2, <1>3, <1>4 DEF Next, Failure

\* The three questions of an identification are asked in the order a job goes, so
\* that no job of the object hides from them, unless it is between queue and
\* worker or goes back (ingest/tasks.py, identify_new_objects).
THEOREM ObjectsHaveOneJob == Spec => []OneJobPerObject
<1>1. OneInv => OneJobPerObject
  BY DEF OneInv, OneJobPerObject, Active
<1>2. QED
  BY <1>1, TypeInit, TypeStep, OneInit, OneStep, PTL DEF Spec

-----------------------------------------------------------------------------
(* The newest version *)

AtWork(j) == job[j].pc \in {"process", "record"}

IsStored == Hidden(Latest) \/ stored = objects[Latest].holds

\* Unless jobs of two objects overlapped: a job that has its datetime of the last
\* ingestion still has the latest one while the most recent object is ingested,
\* and one that is about to record that object has stored what it holds.
FreshInv ==
  overlapped \/
    /\ \A i, j \in Jobs : AtWork(i) /\ AtWork(j) => job[i].key = job[j].key
    /\ \A j \in Jobs : job[j].pc = "process" =>
         /\ job[j].last = 0 \/ \E k \in ingested : job[j].last = objects[k].created
         /\ Latest \in ingested /\ job[j].key # Latest =>
              objects[Latest].created <= job[j].last
    /\ \A j \in Jobs : job[j].pc = "record" /\ job[j].key = Latest =>
         Latest \in ingested \/ IsStored
    /\ Latest \in ingested => IsStored

LEMMA FreshInit == Init => FreshInv
BY DEF Init, FreshInv, AtWork, NoJob, Latest

\* What leaves the database and the jobs at work alone.
LEMMA FreshElsewhere ==
  ASSUME FreshInv, overlapped => overlapped', UNCHANGED <<objects, stored, ingested>>,
         \A j \in Jobs : AtWork(j)' => job'[j] = job[j]
  PROVE  FreshInv'
<1>1. \A j \in Jobs : AtWork(j)' => AtWork(j)
  BY DEF AtWork
<1>2. Latest' = Latest /\ IsStored' = IsStored
  BY DEF Latest, IsStored, Hidden
<1>3. QED
  BY <1>1, <1>2 DEF FreshInv, AtWork

LEMMA FreshUpload == TypeInv /\ FreshInv /\ Upload => FreshInv'
<1> SUFFICES ASSUME TypeInv, FreshInv, Upload PROVE FreshInv'
  OBVIOUS
<1>1. /\ objects \in Seq(ObjectType) /\ Len(objects) \in Nat
      /\ DOMAIN objects = 1..Len(objects) /\ ingested \subseteq DOMAIN objects
  BY Types DEF TypeInv
<1>2. /\ Latest' = Len(objects) + 1
      /\ \A k \in DOMAIN objects : objects'[k] = objects[k]
      /\ UNCHANGED <<stored, ingested, job, overlapped>>
  <2>1. /\ objects' = Append(objects, [holds |-> export, created |-> now'])
        /\ UNCHANGED <<stored, ingested, job, overlapped>>
    BY DEF Upload
  <2>2. export \in Times /\ now' \in Times
    BY ServiceStep DEF TypeInv, TypeOK
  <2>3. [holds |-> export, created |-> now'] \in ObjectType
    BY <2>2 DEF ObjectType
  <2>4. QED
    BY <1>1, <2>1, <2>3 DEF Latest
<1>3. Latest' \notin ingested' /\ \A j \in Jobs : AtWork(j) => job[j].key # Latest'
  BY <1>1, <1>2 DEF TypeInv, KeysOK, AtWork
<1>4. QED
  BY <1>1, <1>2, <1>3 DEF FreshInv, AtWork

LEMMA FreshStart ==
  ASSUME TypeInv, FreshInv, NEW j \in Jobs, Start(j) PROVE FreshInv'
<1> SUFFICES ASSUME ~overlapped' PROVE FreshInv'
  BY DEF FreshInv
<1>1. /\ ~overlapped /\ UNCHANGED <<objects, stored, ingested>>
      /\ \A i \in Jobs : AtWork(i) => job[i].key = job[j].key
  BY DEF Start, AtWork, service
<1>2. /\ job'[j].pc = "process" /\ job'[j].key = job[j].key
      /\ job'[j].last = LastIngestion
      /\ \A i \in Jobs \ {j} : job'[i] = job[i]
  BY Types DEF Start, TypeInv, JobType
<1>3. Latest' = Latest /\ IsStored' = IsStored
  BY <1>1 DEF Latest, IsStored, Hidden
<1>4. \A i \in Jobs : i = j \/ (AtWork(i)' = AtWork(i) /\ job'[i] = job[i])
  BY <1>2 DEF AtWork
<1>5. \A h, i \in Jobs : AtWork(h)' /\ AtWork(i)' => job'[h].key = job'[i].key
  BY <1>1, <1>2, <1>4
<1>6. ASSUME NEW i \in Jobs, job'[i].pc = "process"
      PROVE  /\ job'[i].last = 0 \/ \E k \in ingested : job'[i].last = objects[k].created
             /\ Latest \in ingested /\ job'[i].key # Latest =>
                  objects[Latest].created <= job'[i].last
  BY <1>1, <1>2, <1>4, <1>6, LastIngestionIs DEF FreshInv
<1>7. \A i \in Jobs : job'[i].pc = "record" => job'[i] = job[i]
  BY <1>2
<1>8. QED
  BY <1>1, <1>3, <1>5, <1>6, <1>7 DEF FreshInv

\* A record is stored over what the most recent object brought only from that.
LEMMA FreshProcess ==
  ASSUME TypeInv, FreshInv, NEW j \in Jobs, ProcessRecord(j) PROVE FreshInv'
<1> SUFFICES ASSUME ~overlapped PROVE FreshInv'
  BY DEF FreshInv, ProcessRecord
<1> DEFINE key == job[j].key
           last == job[j].last
<1>1. /\ Latest \in Nat /\ DOMAIN objects = 1..Latest /\ key \in DOMAIN objects
      /\ ingested \subseteq DOMAIN objects /\ last \in Nat
      /\ \A k \in DOMAIN objects : /\ objects[k].holds \in Nat
                                   /\ objects[k].created \in Nat
                                   /\ objects[k].holds < objects[k].created
  <2>1. last \in Nat
    <3>1. job[j] \in JobType /\ Times \subseteq Nat
      BY Types DEF TypeInv, Times
    <3>2. QED
      BY <3>1 DEF JobType
  <2>2. key \in DOMAIN objects
    BY DEF ProcessRecord, TypeInv, KeysOK
  <2>3. QED
    BY <2>1, <2>2, Types DEF Latest, TypeInv, TimesOK
<1>2. /\ job[j].pc = "process" /\ UNCHANGED <<objects, ingested, overlapped>>
      /\ stored' = IF ShouldProcess(j) THEN objects[key].holds ELSE stored
      /\ job'[j].pc = "record" /\ job'[j].key = key
      /\ \A i \in Jobs \ {j} : job'[i] = job[i]
  BY Types DEF ProcessRecord, TypeInv, JobType, service
<1>3. /\ last = 0 \/ \E k \in ingested : last = objects[k].created
      /\ Latest \in ingested /\ key # Latest => objects[Latest].created <= last
      /\ \A i \in Jobs : AtWork(i) => job[i].key = key
      /\ Latest \in ingested => IsStored
  BY <1>2 DEF FreshInv, AtWork
<1>4. ShouldProcess(j) <=> objects[key].holds >= last
  BY DEF ShouldProcess
<1>5. Latest' = Latest /\ (Hidden(Latest) => IsStored')
  BY <1>2 DEF Latest, IsStored, Hidden
<1>6. CASE key = Latest
  <2>1. (Latest \in ingested \/ IsStored') /\ (Latest \in ingested => IsStored')
    <3>1. CASE objects[key].holds >= last
      BY <1>2, <1>4, <1>6, <3>1 DEF IsStored, Latest
    <3>2. CASE objects[key].holds < last
      <4>1. PICK k \in ingested : last = objects[k].created
        BY <1>1, <1>3, <3>2
      <4>2. k = Latest \/ Hidden(Latest)
        BY <1>6, <3>2, <4>1 DEF Hidden
      <4>3. stored' = stored
        BY <1>1, <1>2, <1>4, <3>2
      <4>4. IsStored' = IsStored
        BY <1>2, <4>3 DEF IsStored, Latest, Hidden
      <4>5. QED
        BY <1>3, <1>5, <4>1, <4>2, <4>4
    <3>3. QED
      BY <1>1, <3>1, <3>2
  <2>2. QED
    BY <1>2, <1>3, <1>5, <2>1 DEF FreshInv, AtWork
<1>7. CASE key # Latest
  <2>1. ASSUME Latest \in ingested PROVE IsStored'
    <3>1. objects[key].created < objects[Latest].created
      BY <1>1, <1>7, <2>1 DEF TypeInv, TimesOK
    <3>2. objects[key].holds < last
      BY <1>1, <1>3, <1>7, <2>1, <3>1
    <3>3. stored' = stored
      BY <1>1, <1>2, <1>4, <3>2
    <3>4. IsStored' = IsStored
      BY <1>2, <3>3 DEF IsStored, Latest, Hidden
    <3>5. QED
      BY <1>3, <2>1, <3>4
  <2>2. \A i \in Jobs : AtWork(i)' => job'[i].key # Latest
    BY <1>2, <1>3, <1>7 DEF AtWork
  <2>3. QED
    BY <1>2, <1>3, <1>5, <2>1, <2>2 DEF FreshInv, AtWork
<1>8. QED
  BY <1>6, <1>7

LEMMA FreshRecord ==
  ASSUME TypeInv, FreshInv, NEW j \in Jobs, RecordIngestion(j) PROVE FreshInv'
<1> SUFFICES ASSUME ~overlapped PROVE FreshInv'
  BY DEF FreshInv, RecordIngestion
<1>1. /\ job[j].pc = "record" /\ ingested' = ingested \cup {job[j].key}
      /\ UNCHANGED <<objects, stored, overlapped>>
      /\ job'[j].pc = "chain" /\ \A i \in Jobs \ {j} : job'[i] = job[i]
  BY Types DEF RecordIngestion, TypeInv, JobType, service
<1>2. Latest' = Latest /\ (IsStored => IsStored')
  BY <1>1 DEF IsStored, Latest, Hidden
<1>3. Latest \in ingested' => IsStored'
  BY <1>1, <1>2 DEF FreshInv
<1>4. \A i \in Jobs : AtWork(i)' => AtWork(i) /\ job'[i] = job[i] /\ job[i].key = job[j].key
  BY <1>1 DEF FreshInv, AtWork
<1>5. ASSUME NEW i \in Jobs, job'[i].pc = "process", Latest \in ingested',
             job'[i].key # Latest
      PROVE  objects[Latest].created <= job'[i].last
  <2>1. job'[i] = job[i] /\ job[i].key = job[j].key
    BY <1>4, <1>5 DEF AtWork
  <2>2. Latest \in ingested
    BY <1>1, <1>5, <2>1
  <2>3. QED
    BY <1>5, <2>1, <2>2 DEF FreshInv
<1>6. \A i \in Jobs : job'[i].pc = "process" =>
        job'[i].last = 0 \/ \E k \in ingested' : job'[i].last = objects[k].created
  BY <1>1, <1>4 DEF FreshInv, AtWork
<1>7. \A i \in Jobs : job'[i].pc = "record" /\ job'[i].key = Latest =>
        Latest \in ingested'
  BY <1>1, <1>4 DEF AtWork
<1>8. \A h, i \in Jobs : AtWork(h)' /\ AtWork(i)' => job'[h].key = job'[i].key
  BY <1>4
<1>9. QED
  BY <1>1, <1>2, <1>3, <1>5, <1>6, <1>7, <1>8 DEF FreshInv

LEMMA FreshStep == TypeInv /\ FreshInv /\ [Next]_vars => FreshInv'
<1> SUFFICES ASSUME TypeInv, FreshInv, [Next]_vars PROVE FreshInv'
  OBVIOUS
<1>0. job \in [Jobs -> JobType]
  BY Types DEF TypeInv
<1>1. CASE UNCHANGED vars
  BY <1>1, FreshElsewhere DEF vars, service
<1>2. CASE Modify \/ Export
  BY <1>2, FreshElsewhere DEF Modify, Export
<1>3. CASE Upload
  BY <1>3, FreshUpload
<1>4. ASSUME NEW i \in Identifiers, IdentStep(i) \/ FailIdentification(i)
      PROVE  FreshInv'
  <2>1. ASSUME UNCHANGED <<service, stored, ingested, job, overlapped>> PROVE FreshInv'
    BY <2>1, FreshElsewhere DEF service
  <2>2. CASE ScheduleIngestion(i)
    <3>1. UNCHANGED <<service, stored, ingested, overlapped>>
      BY <2>2 DEF ScheduleIngestion
    <3>2. \A j \in Jobs : AtWork(j)' => job'[j] = job[j]
      BY <1>0, <2>2 DEF ScheduleIngestion, AtWork, NoJob
    <3>3. QED
      BY <3>1, <3>2, FreshElsewhere DEF service
  <2>3. CASE Identify(i) \/ CheckQueued(i) \/ CheckRunning(i)
    BY <2>1, <2>3 DEF Identify, CheckQueued, CheckRunning
  <2>4. CASE CheckIngested(i) \/ FailIdentification(i)
    BY <2>1, <2>4 DEF CheckIngested, FailIdentification
  <2>5. QED
    BY <1>4, <2>2, <2>3, <2>4 DEF IdentStep
<1>5. ASSUME NEW j \in Jobs, JobStep(j) \/ FailJob(j)
      PROVE  FreshInv'
  <2>1. CASE Take(j) \/ Chain(j)
    <3>1. UNCHANGED <<service, stored, ingested, overlapped>>
      BY <2>1 DEF Take, Chain
    <3>2. \A i \in Jobs : AtWork(i)' => job'[i] = job[i]
      <4>1. CASE Take(j)
        BY <1>0, <4>1 DEF Take, AtWork, JobType
      <4>2. CASE Chain(j)
        BY <1>0, <4>2 DEF Chain, AtWork, NoJob
      <4>3. QED
        BY <2>1, <4>1, <4>2
    <3>3. QED
      BY <3>1, <3>2, FreshElsewhere DEF service
  <2>2. CASE FailJob(j)
    <3>1. UNCHANGED <<service, stored, ingested, overlapped>>
      BY <2>2 DEF FailJob
    <3>2. \A i \in Jobs : AtWork(i)' => job'[i] = job[i]
      <4>1. CASE job[j].left = 0
        BY <1>0, <2>2, <4>1 DEF FailJob, AtWork, NoJob
      <4>2. CASE job[j].left # 0
        BY <1>0, <2>2, <4>2 DEF FailJob, AtWork, NoJob
      <4>3. QED
        BY <4>1, <4>2
    <3>3. QED
      BY <3>1, <3>2, FreshElsewhere DEF service
  <2>3. QED
    BY <1>5, <2>1, <2>2, FreshStart, FreshProcess, FreshRecord DEF JobStep
<1>6. QED
  BY <1>1, <1>2, <1>3, <1>4, <1>5 DEF Next, Failure

\* The most recent object that is ingested is what the database holds, whatever
\* the order of jobs and failures, unless jobs of two objects overlap or the
\* service modified the record between export and upload of an older object
\* (ingest/tasks.py, _should_process_record).
THEOREM NewestStaysStored == Spec => []NewestIsStored
<1>1. FreshInv => NewestIsStored
  BY DEF FreshInv, NewestIsStored, IsStored, Latest
<1>2. QED
  BY <1>1, TypeInit, TypeStep, FreshInit, FreshStep, PTL DEF Spec

=============================================================================
