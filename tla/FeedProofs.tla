----------------------------- MODULE FeedProofs -----------------------------
(***************************************************************************)
(* Theorems about the two engines of a risk analysis as the page sees      *)
(* them: the workflow on Temporal with its stream and its poll             *)
(* (RiskPipeline), and the in-process stream (PipelineStream).  Both       *)
(* implement the feed of EventFeed.                                        *)
(*                                                                         *)
(* Both arguments are about beginnings of one story: whatever is retried,  *)
(* lost or slow, the events produced, fetched and received are three       *)
(* beginnings of it, and a reader is done only when its own is the whole.  *)
(***************************************************************************)
EXTENDS RiskPipeline, PipelineStream, SequenceTheorems, TLAPS

-----------------------------------------------------------------------------
(* Beginnings of the story.                                                *)

Beginning(s) ==
    /\ s \in Seq(Event)
    /\ Len(s) <= Len(Story)
    /\ \A i \in 1 .. Len(s) : s[i] = Story[i]

LEMMA RolesDiffer ==
    /\ Len(Roles) = 5 /\ DOMAIN Roles = 1 .. 5
    /\ \A i, j \in 1 .. 5 : Roles[i] = Roles[j] => i = j
    /\ \A i \in 1 .. 5 : Roles[i] # "pipeline"
BY DEF Roles

(* The story line by line. *)
LEMMA StoryLines ==
    /\ Story \in Seq(Event) /\ Len(Story) = 12 /\ DOMAIN Story = 1 .. 12
    /\ Story[1] = Created /\ Story[12] = Done
    /\ \A k \in 1 .. 5 : Story[2 * k] = Started(k) /\ Story[2 * k + 1] = Ended(k)
<1>1. Story = [n \in 1 .. 12 |-> CASE n = 1 -> Created
                                   [] n = 12 -> Done
                                   [] n % 2 = 0 /\ n <= 10 -> Started(n \div 2)
                                   [] OTHER -> Ended(n \div 2)]
  BY RolesDiffer DEF Story
<1>2. \A n \in 1 .. 12 : Story[n] = IF n = 1 THEN Created
                                    ELSE IF n = 12 THEN Done
                                    ELSE IF n % 2 = 0 THEN Started(n \div 2) ELSE Ended(n \div 2)
  BY <1>1
<1>3. \A k \in 1 .. 5 : /\ 2 * k \in 1 .. 12 /\ 2 * k # 1 /\ 2 * k # 12
                        /\ (2 * k) % 2 = 0 /\ (2 * k) \div 2 = k
                        /\ 2 * k + 1 \in 1 .. 12 /\ 2 * k + 1 # 1 /\ 2 * k + 1 # 12
                        /\ (2 * k + 1) % 2 # 0 /\ (2 * k + 1) \div 2 = k
  OBVIOUS
<1>4. \A k \in 1 .. 5 : Story[2 * k] = Started(k) /\ Story[2 * k + 1] = Ended(k)
  BY <1>2, <1>3
<1>5. \A n \in 1 .. 12 : Story[n] \in Event
  <2>1. \A k \in 1 .. 5 : Started(k) \in Event /\ Ended(k) \in Event
    BY RolesDiffer DEF Event
  <2>2. \A n \in 1 .. 12 : n = 1 \/ n = 12 \/ n \div 2 \in 1 .. 5
    OBVIOUS
  <2>3. Created \in Event /\ Done \in Event
    BY DEF Event
  <2> QED BY <1>2, <2>1, <2>2, <2>3
<1>6. Story[1] = Created /\ Story[12] = Done
  BY <1>2
<1>7. Story \in [1 .. 12 -> Event]
  BY <1>1, <1>5
<1>8. Story \in Seq(Event) /\ Len(Story) = 12 /\ DOMAIN Story = 1 .. 12
  <2>1. Story \in Seq(Event)
    BY <1>7, SeqDef
  <2> QED BY <1>7, <2>1, LenProperties
<1> QED BY <1>4, <1>6, <1>8

(* No line of the story is told twice, an end follows its own start, and   *)
(* nothing follows done.                                                   *)
LEMMA StoryIsOrdered ==
    /\ \A i \in 1 .. 12 : Story[i].type = "agent_done"
          => i > 1 /\ Story[i - 1] = [Story[i] EXCEPT !.type = "agent_start"]
    /\ \A i, j \in 1 .. 12 : Story[i] = Story[j] => i = j
    /\ \A i \in 1 .. 11 : Story[i].type # "done"
<1>1. \A i \in 1 .. 12 : i = 1 \/ i = 12 \/ \E k \in 1 .. 5 : i = 2 * k \/ i = 2 * k + 1
  <2> SUFFICES ASSUME NEW i \in 1 .. 12, i # 1, i # 12 PROVE \E k \in 1 .. 5 : i = 2 * k \/ i = 2 * k + 1
    OBVIOUS
  <2>1. i \div 2 \in 1 .. 5 /\ (i = 2 * (i \div 2) \/ i = 2 * (i \div 2) + 1)
    OBVIOUS
  <2> QED BY <2>1
<1>2. \A k \in 1 .. 5 :
        /\ Story[2 * k] = [type |-> "agent_start", role |-> Roles[k]]
        /\ Story[2 * k + 1] = [type |-> "agent_done", role |-> Roles[k]]
  BY StoryLines DEF Started, Ended
<1>3. Story[1].type = "task_created" /\ Story[12].type = "done"
  BY StoryLines DEF Created, Done
<1>4. \A k \in 1 .. 5 :
        /\ Story[2 * k].type = "agent_start" /\ Story[2 * k].role = Roles[k]
        /\ Story[2 * k + 1].type = "agent_done" /\ Story[2 * k + 1].role = Roles[k]
        /\ Story[2 * k] = [Story[2 * k + 1] EXCEPT !.type = "agent_start"]
  BY <1>2
<1>5. ASSUME NEW i \in 1 .. 12, Story[i].type = "agent_done"
      PROVE  i > 1 /\ Story[i - 1] = [Story[i] EXCEPT !.type = "agent_start"]
  <2>1. PICK k \in 1 .. 5 : i = 2 * k \/ i = 2 * k + 1
    BY <1>1, <1>3, <1>5
  <2>2. i = 2 * k + 1
    BY <1>4, <1>5, <2>1
  <2>3. i > 1 /\ i - 1 = 2 * k
    BY <2>2
  <2> QED BY <1>4, <2>2, <2>3
<1>6. ASSUME NEW i \in 1 .. 12, NEW j \in 1 .. 12, Story[i] = Story[j] PROVE i = j
  BY <1>1, <1>3, <1>4, <1>6, RolesDiffer
<1>7. \A i \in 1 .. 11 : Story[i].type # "done"
  BY <1>1, <1>3, <1>4
<1> QED BY <1>5, <1>6, <1>7

LEMMA EmptyBeginning == Beginning(<<>>) /\ Len(<<>>) = 0
BY StoryLines DEF Beginning

LEMMA BeginningsAgree ==
    ASSUME NEW s, NEW t, Beginning(s), Beginning(t), Len(s) = Len(t)
    PROVE  s = t
BY SeqEqual, LenProperties DEF Beginning

LEMMA BeginningGrows ==
    ASSUME NEW s, Beginning(s), Len(s) < 12
    PROVE  LET t == Append(s, Story[Len(s) + 1])
           IN  Beginning(t) /\ Len(t) = Len(s) + 1 /\ t = s \o <<Story[Len(s) + 1]>>
<1> DEFINE e == Story[Len(s) + 1]
           t == Append(s, e)
<1>1. Len(s) \in Nat /\ e \in Event
  <2>1. Len(s) \in Nat
    BY LenProperties DEF Beginning
  <2>2. Len(s) + 1 \in 1 .. Len(Story)
    BY <2>1, StoryLines
  <2> QED BY <2>1, <2>2, StoryLines, ElementOfSeq
<1>2. t \in Seq(Event) /\ Len(t) = Len(s) + 1 /\ t[Len(t)] = e /\ \A i \in 1 .. Len(s) : t[i] = s[i]
  BY <1>1, AppendProperties DEF Beginning
<1>3. \A i \in 1 .. Len(t) : i \in 1 .. Len(s) \/ i = Len(s) + 1
  BY <1>1, <1>2
<1>4. \A i \in 1 .. Len(t) : t[i] = Story[i]
  BY <1>2, <1>3 DEF Beginning
<1>5. t = s \o <<e>>
  BY <1>1, AppendIsConcat DEF Beginning
<1> QED BY <1>1, <1>2, <1>4, <1>5, StoryLines DEF Beginning

(* A shorter beginning is a beginning of the longer one, and what the      *)
(* longer one has beyond it makes it whole.                                *)
LEMMA BeginningOf ==
    ASSUME NEW s, NEW t, Beginning(s), Beginning(t), Len(s) <= Len(t)
    PROVE  /\ s = SubSeq(t, 1, Len(s))
           /\ s \o SubSeq(t, Len(s) + 1, Len(t)) = t
           /\ Len(s) \in Len(<<>>) .. Len(t)
<1>1. Len(s) \in Nat /\ Len(t) \in Nat /\ s \in Seq(Event) /\ t \in Seq(Event)
  BY LenProperties DEF Beginning
<1>2. SubSeq(t, 1, Len(s)) \in Seq(Event) /\ Len(SubSeq(t, 1, Len(s))) = Len(s)
  BY <1>1, SubSeqProperties
<1>3. \A i \in 1 .. Len(s) : SubSeq(t, 1, Len(s))[i] = t[i]
  BY <1>1, SubSeqProperties
<1>4. s = SubSeq(t, 1, Len(s))
  BY <1>1, <1>2, <1>3, SeqEqual DEF Beginning
<1>5. SubSeq(t, 1, Len(s)) \o SubSeq(t, Len(s) + 1, Len(t)) = SubSeq(t, 1, Len(t))
  <2>1. 1 \in 1 .. Len(t) + 1 /\ Len(s) \in 1 - 1 .. Len(t) /\ Len(t) \in Len(s) .. Len(t)
    BY <1>1
  <2> QED BY <1>1, <2>1, ConcatAdjacentSubSeq
<1>6. SubSeq(t, 1, Len(t)) = t
  BY <1>1, SubSeqFull
<1>7. Len(s) \in Len(<<>>) .. Len(t)
  BY <1>1, EmptyBeginning
<1> QED BY <1>4, <1>5, <1>6, <1>7

-----------------------------------------------------------------------------
(* The analysis on Temporal.                                               *)

(* How much of the story is told when an activity is awaited.              *)
Written == IF step < Trace THEN 2 * step ELSE IF status = "completed" THEN 12 ELSE 11

RunInv ==
    /\ Beginning(progress) /\ Len(progress) = Written
    /\ step = 0 => outcome = "running" /\ activity = "none"
    /\ status = "completed" => step = Trace /\ result /\ outcome = "succeeded"

(* The reader is behind the run, by what it fetched and by what it passed  *)
(* on, except where it is done.                                            *)
ReaderInv ==
    /\ Beginning(fetched) /\ Len(fetched) <= Len(progress)
    /\ Beginning(received) /\ Len(received) <= Len(progress) /\ cursor = Len(received)
    /\ stream = "yield" => cursor <= Len(fetched)
    /\ seen = "completed" => status = "completed"
    /\ stream = "yield" /\ seen = "completed" => fetched = progress
    /\ stream \in {"result", "closed"} => status = "completed" /\ received = progress

PollerInv ==
    /\ poll = 0 => answer = NoAnswer
    /\ answer.status = "completed" =>
          /\ status = "completed"
          /\ poll >= 2 => answer.progress = progress
          /\ poll = 3 => answer.result

(* TypeOK, by process.                                                     *)
RunTypes ==
    /\ progress \in Seq(Event) /\ status \in {"running", "completed"} /\ result \in BOOLEAN
    /\ step \in 0 .. Trace /\ activity \in {"none", "scheduled", "executed"}
    /\ attempts \in 0 .. MaxAttempts /\ outcome \in {"running", "succeeded", "failed"} /\ losses \in Nat

ReaderTypes ==
    /\ stream \in {"idle", "status", "progress", "yield", "sleep", "result", "closed", "cut"}
    /\ seen \in {"none", "running", "completed"} /\ closing \in {"none", "error", "trace", "empty"}
    /\ fetched \in Seq(Event) /\ received \in Seq(Event) /\ cursor \in Nat

(* The record a poll assembles.                                            *)
Answers == [status : {"none", "running", "completed"}, progress : Seq(Event), result : BOOLEAN]

PollerTypes == poll \in 0 .. 3 /\ answer \in Answers

LEMMA Types == RunTypes /\ ReaderTypes /\ PollerTypes => TypeOK
BY DEF TypeOK, RunTypes, ReaderTypes, PollerTypes, Answers

Inv == RunTypes /\ ReaderTypes /\ PollerTypes /\ RunInv /\ ReaderInv /\ PollerInv

LEMMA InitInv == Init => Inv
<1> SUFFICES ASSUME Init PROVE Inv
  OBVIOUS
<1>1. progress = <<>> /\ fetched = <<>> /\ received = <<>> /\ answer = NoAnswer
  BY DEF Init
<1>2. <<>> \in Seq(Event)
  BY EmptyBeginning DEF Beginning
<1>3. RunTypes /\ ReaderTypes /\ PollerTypes
  <2>1. NoAnswer \in Answers
    BY <1>2 DEF NoAnswer, Answers
  <2>2. RunTypes
    <3>1. Trace = 6 /\ MaxAttempts \in Nat
      BY BoundAssumption, RolesDiffer DEF Trace
    <3>2. 0 \in 0 .. Trace /\ 0 \in 0 .. MaxAttempts
      BY <3>1
    <3> QED BY <1>1, <1>2, <3>2 DEF Init, RunTypes
  <2>3. ReaderTypes
    BY <1>1, <1>2 DEF Init, ReaderTypes
  <2>4. PollerTypes
    BY <1>1, <2>1 DEF Init, PollerTypes
  <2> QED BY <2>2, <2>3, <2>4
<1>4. RunInv
  BY EmptyBeginning, RolesDiffer DEF Init, RunInv, Written, Trace
<1>5. ReaderInv
  BY EmptyBeginning DEF Init, ReaderInv
<1>6. PollerInv
  BY DEF Init, PollerInv, NoAnswer
<1> QED BY <1>3, <1>4, <1>5, <1>6 DEF Inv

(* One step tells nothing new, one event or two.                           *)
Tellings == {<<>>} \cup {<<e>> : e \in Event} \cup {<<e, f>> : e, f \in Event}

Tells(old, new) == \E more \in Tellings : new = old \o more

LEMMA TellsNothing == ASSUME NEW s \in Seq(Event) PROVE Tells(s, s)
<1>1. s = s \o <<>>
  BY ConcatEmptySeq
<1>2. <<>> \in Tellings
  BY DEF Tellings
<1> QED BY <1>1, <1>2 DEF Tells

LEMMA TellsOne ==
    ASSUME NEW s \in Seq(Event), NEW e \in Event
    PROVE  Tells(s, Append(s, e))
<1>1. Append(s, e) = s \o <<e>>
  BY AppendIsConcat
<1>2. <<e>> \in Tellings
  BY DEF Tellings
<1> QED BY <1>1, <1>2 DEF Tells

LEMMA TellsTwo ==
    ASSUME NEW s \in Seq(Event), NEW e \in Event, NEW f \in Event
    PROVE  /\ Append(Append(s, e), f) = s \o <<e, f>>
           /\ Tells(s, Append(Append(s, e), f))
<1>1. Append(Append(s, e), f) = (s \o <<e>>) \o <<f>>
  <2>1. Append(s, e) = s \o <<e>> /\ Append(s, e) \in Seq(Event)
    BY AppendIsConcat, AppendProperties
  <2> QED BY <2>1, AppendIsConcat
<1>2. <<e>> \in Seq(Event) /\ <<f>> \in Seq(Event)
  OBVIOUS
<1>3. <<e>> \o <<f>> = <<e, f>>
  <2>1. /\ <<e>> \o <<f>> \in Seq(Event) /\ Len(<<e>> \o <<f>>) = 2
        /\ (<<e>> \o <<f>>)[1] = e /\ (<<e>> \o <<f>>)[2] = f
    OBVIOUS
  <2>2. <<e, f>> \in Seq(Event) /\ Len(<<e, f>>) = 2 /\ <<e, f>>[1] = e /\ <<e, f>>[2] = f
    OBVIOUS
  <2>3. \A i \in 1 .. 2 : i = 1 \/ i = 2
    OBVIOUS
  <2> QED BY <2>1, <2>2, <2>3, SeqEqual
<1>4. Append(Append(s, e), f) = s \o <<e, f>>
  BY <1>1, <1>2, <1>3, ConcatAssociative
<1>5. <<e, f>> \in Tellings
  BY DEF Tellings
<1> QED BY <1>4, <1>5 DEF Tells

(* What a step of the run does to the story: it is told on, unless it is   *)
(* told already.                                                           *)
LEMMA RunTells ==
    ASSUME RunTypes, RunInv, Run \/ LoseAttempt \/ Fail
    PROVE  /\ RunInv'
           /\ progress' \in Seq(Event)
           /\ Tells(progress, progress')
           /\ Len(progress) <= Len(progress')
           /\ status = "completed" => status' = "completed" /\ progress' = progress
<1>0. Trace = 6
  BY RolesDiffer DEF Trace
<1>1. CASE FirstTask
  <2>1. status # "completed" /\ progress = <<>> /\ Len(progress) = 0
    BY <1>0, <1>1, EmptyBeginning, BeginningsAgree DEF FirstTask, RunInv, Written
  <2> DEFINE one == Append(progress, Story[1])
             two == Append(one, Story[2])
  <2>2. Story[1] = Created /\ Story[2] = Started(1) /\ Created \in Event /\ Started(1) \in Event
    <3>1. Story[2 * 1] = Started(1)
      BY StoryLines
    <3> QED BY <3>1, StoryLines, RolesDiffer DEF Event
  <2>3. Beginning(one) /\ Len(one) = 1
    <3>1. Len(progress) < 12 /\ Len(progress) + 1 = 1
      BY <2>1
    <3> QED BY <3>1, BeginningGrows DEF RunInv
  <2>4. Beginning(two) /\ Len(two) = 2
    <3> HIDE DEF one
    <3>1. Len(one) < 12 /\ Len(one) + 1 = 2
      BY <2>3
    <3> QED BY <2>3, <3>1, BeginningGrows
  <2>5. two = <<Created, Started(1)>>
    <3>1. two = progress \o <<Created, Started(1)>>
      BY <2>2, TellsTwo DEF RunTypes
    <3>2. <<Created, Started(1)>> \in Seq(Event)
      BY <2>2
    <3> QED BY <2>1, <3>1, <3>2, ConcatEmptySeq
  <2>6. Tells(progress, two)
    BY <2>2, TellsTwo DEF RunTypes
  <2> HIDE DEF two, one
  <2>7. progress' = two /\ step' = 1 /\ status' = status
    BY <1>1, <2>5 DEF FirstTask
  <2>8. RunInv'
    BY <1>0, <2>1, <2>4, <2>7 DEF RunInv, Written
  <2> QED BY <2>1, <2>4, <2>6, <2>7, <2>8 DEF Beginning
<1>2. CASE Execute \/ LoseAttempt \/ Fail
  <2>1. progress' = progress /\ status' = status /\ result' = result /\ step' = step
    BY <1>2 DEF Execute, LoseAttempt, Fail
  <2>2. outcome = "running" /\ activity # "none"
    BY <1>2 DEF Execute, LoseAttempt, Fail
  <2>3. step # 0 /\ status # "completed"
    BY <2>2 DEF RunInv
  <2>4. RunInv'
    BY <2>1, <2>3 DEF RunInv, Written
  <2>5. progress \in Seq(Event) /\ Len(progress) \in Nat
    BY LenProperties DEF RunTypes
  <2> QED BY <2>1, <2>4, <2>5, TellsNothing
<1>3. CASE AgentReturned
  <2>1. /\ step \in 1 .. 5 /\ status # "completed" /\ Len(progress) = 2 * step
        /\ Len(progress) \in Nat /\ progress \in Seq(Event)
    BY <1>0, <1>3, LenProperties DEF AgentReturned, RunInv, Written, RunTypes
  <2> DEFINE one == Append(progress, Ended(step))
  <2>2. Story[2 * step + 1] = Ended(step) /\ Ended(step) \in Event
    BY <2>1, StoryLines, RolesDiffer DEF Event
  <2>3. Beginning(one) /\ Len(one) = 2 * step + 1 /\ one = progress \o <<Ended(step)>>
    BY <2>1, <2>2, BeginningGrows DEF RunInv
  <2>4. step' = step + 1 /\ status' = status /\ outcome' = outcome
    BY <1>3 DEF AgentReturned
  <2>5. CASE step = 5
    <3>1. progress' = one
      <4>1. progress' = progress \o <<Ended(step)>> \o <<>>
        BY <1>0, <1>3, <2>5 DEF AgentReturned, Report
      <4>2. one \in Seq(Event)
        BY <2>3 DEF Beginning
      <4> QED BY <2>3, <4>1, <4>2, ConcatEmptySeq
    <3>2. Tells(progress, one)
      BY <2>1, <2>2, TellsOne
    <3> HIDE DEF one
    <3>3. Written' = 11 /\ Len(one) = 11 /\ Len(progress) = 10
      BY <1>0, <2>1, <2>3, <2>4, <2>5 DEF Written
    <3>4. RunInv'
      BY <2>1, <2>3, <2>4, <2>5, <3>1, <3>3 DEF RunInv
    <3> QED BY <2>1, <2>3, <3>1, <3>2, <3>3, <3>4 DEF Beginning
  <2>6. CASE step < 5
    <3> DEFINE two == Append(one, Started(step + 1))
    <3>1. Story[2 * (step + 1)] = Started(step + 1) /\ Started(step + 1) \in Event
      BY <2>1, <2>6, StoryLines, RolesDiffer DEF Event
    <3>2. two = progress \o <<Ended(step), Started(step + 1)>> /\ Tells(progress, two)
      BY <2>1, <2>2, <3>1, TellsTwo
    <3>3. Len(one) < 12 /\ Len(one) + 1 = 2 * (step + 1) /\ one \in Seq(Event)
      BY <2>1, <2>3, <2>6 DEF Beginning
    <3>4. progress' = one \o <<Started(step + 1)>>
      BY <1>0, <1>3, <2>1, <2>3, <2>6 DEF AgentReturned, Report
    <3> HIDE DEF one
    <3>5. Beginning(two) /\ Len(two) = 2 * (step + 1) /\ progress' = two
      BY <2>3, <3>1, <3>3, <3>4, BeginningGrows
    <3> HIDE DEF two
    <3>6. Written' = 2 * (step + 1)
      BY <1>0, <2>1, <2>4, <2>6 DEF Written
    <3>7. RunInv'
      BY <2>1, <2>4, <3>5, <3>6 DEF RunInv
    <3> QED BY <2>1, <3>2, <3>5, <3>7 DEF Beginning
  <2> QED BY <2>1, <2>5, <2>6
<1>4. CASE TraceReturned
  <2>1. step = 6 /\ status # "completed" /\ Len(progress) = 11 /\ progress \in Seq(Event)
    BY <1>0, <1>4 DEF TraceReturned, RunInv, Written, RunTypes
  <2> DEFINE all == Append(progress, Done)
  <2>2. Done \in Event /\ Story[12] = Done
    BY StoryLines DEF Event
  <2>3. Beginning(all) /\ Len(all) = 12
    <3>1. Len(progress) < 12 /\ Len(progress) + 1 = 12
      BY <2>1
    <3> QED BY <2>2, <3>1, BeginningGrows DEF RunInv
  <2>4. Tells(progress, all)
    BY <2>1, <2>2, TellsOne
  <2> HIDE DEF all
  <2>5. progress' = all /\ step' = step /\ result' /\ status' = "completed" /\ outcome' = "succeeded"
    BY <1>4 DEF TraceReturned, Completed, all
  <2>6. RunInv'
    BY <1>0, <2>1, <2>3, <2>5 DEF RunInv, Written
  <2>7. progress' \in Seq(Event) /\ Len(progress) <= Len(progress')
    <3>1. progress' = all
      BY <2>5
    <3>2. all \in Seq(Event)
      BY <2>3 DEF Beginning
    <3>3. Len(progress) = 11 /\ Len(progress') = 12
      BY <2>1, <2>3, <3>1
    <3> QED BY <3>1, <3>2, <3>3
  <2>8. Tells(progress, progress')
    BY <2>4, <2>5
  <2> QED BY <2>1, <2>6, <2>7, <2>8
<1> QED BY <1>1, <1>2, <1>3, <1>4 DEF Run

(* Each query puts its fact into its own field.                            *)
LEMMA FactTaken ==
    ASSUME NEW a \in Answers, NEW fact, NEW value, fact \in {"status", "progress", "result"}
    PROVE  LET b == [a EXCEPT ![fact] = value]
           IN  /\ b.status = IF fact = "status" THEN value ELSE a.status
               /\ b.progress = IF fact = "progress" THEN value ELSE a.progress
               /\ b.result = IF fact = "result" THEN value ELSE a.result
               /\ b.status \in {"none", "running", "completed"} /\ b.progress \in Seq(Event) /\ b.result \in BOOLEAN
                     => b \in Answers
BY DEF Answers

LEMMA PollStep == ASSUME Inv, Poll PROVE answer' \in Answers /\ PollerInv'
<1>1. /\ answer \in Answers /\ progress \in Seq(Event) /\ status \in {"running", "completed"}
      /\ result \in BOOLEAN /\ poll' = poll + 1
      /\ status' = status /\ progress' = progress
  BY DEF Inv, RunTypes, PollerTypes, Poll, workflow, Answers
<1>2. poll = 0 \/ poll = 1 \/ poll = 2
  BY DEF Inv, PollerTypes, Poll
<1>3. answer' = [answer EXCEPT ![QueryOrder[poll + 1]] = Facts[QueryOrder[poll + 1]]]
  BY DEF Poll
<1>4. Facts["status"] = status /\ Facts["progress"] = progress /\ Facts["result"] = result
  BY DEF Facts
<1>5. CASE poll = 0
  <2>1. QueryOrder[poll + 1] = "status"
    BY <1>5 DEF QueryOrder
  <2>2. answer' \in Answers /\ answer'.status = status
    BY <1>1, <1>3, <1>4, <2>1, FactTaken DEF Answers
  <2> QED BY <1>1, <1>5, <2>2 DEF PollerInv
<1>6. CASE poll = 1
  <2>1. QueryOrder[poll + 1] = "progress"
    BY <1>6 DEF QueryOrder
  <2>2. answer' \in Answers /\ answer'.status = answer.status /\ answer'.progress = progress
    BY <1>1, <1>3, <1>4, <2>1, FactTaken DEF Answers
  <2> QED BY <1>1, <1>6, <2>2 DEF Inv, PollerInv
<1>7. CASE poll = 2
  <2>1. QueryOrder[poll + 1] = "result"
    BY <1>7 DEF QueryOrder
  <2>2. /\ answer' \in Answers /\ answer'.status = answer.status /\ answer'.progress = answer.progress
        /\ answer'.result = result
    BY <1>1, <1>3, <1>4, <2>1, FactTaken DEF Answers
  <2>3. status = "completed" => result
    BY DEF Inv, RunInv
  <2> QED BY <1>1, <1>7, <2>2, <2>3 DEF Inv, PollerInv
<1> QED BY <1>2, <1>5, <1>6, <1>7

(* A reader that has fetched a beginning and passes it on.                 *)
LEMMA YieldStep ==
    ASSUME Inv, Yield
    PROVE  /\ received' = fetched /\ cursor' = Len(fetched) /\ fetched' = <<>>
           /\ \E n \in Len(received) .. Len(progress) : received' = SubSeq(progress, 1, n)
           /\ stream' \in {"result", "sleep"}
           /\ stream' = "result" => status = "completed" /\ fetched = progress
           /\ seen' = "none" /\ closing' = closing
<1>1. /\ Beginning(received) /\ Beginning(fetched) /\ Beginning(progress) /\ Len(fetched) <= Len(progress)
      /\ Len(received) <= Len(fetched) /\ cursor = Len(received) /\ stream = "yield"
      /\ seen \in {"none", "running", "completed"}
  BY DEF Inv, RunInv, ReaderInv, ReaderTypes, Yield
<1>2. received' = received \o SubSeq(fetched, Len(received) + 1, Len(fetched))
  BY <1>1 DEF Yield, News
<1>3. received' = fetched
  BY <1>1, <1>2, BeginningOf
<1>4. fetched = SubSeq(progress, 1, Len(fetched)) /\ Len(fetched) \in Len(received) .. Len(progress)
  <2>1. Len(fetched) \in Nat /\ Len(received) \in Nat /\ Len(progress) \in Nat
    BY <1>1, LenProperties DEF Beginning
  <2> QED BY <1>1, <2>1, BeginningOf
<1>5. stream' = IF AllSeen THEN "result" ELSE "sleep"
  <2>1. stream' = CASE AllSeen -> "result" [] seen = "failed" -> "closed" [] OTHER -> "sleep"
    BY DEF Yield
  <2>2. seen # "failed"
    BY <1>1
  <2>3. CASE AllSeen
    BY <2>1, <2>2, <2>3
  <2>4. CASE ~AllSeen
    BY <2>1, <2>2, <2>4
  <2> QED BY <2>3, <2>4
<1>6. AllSeen => status = "completed" /\ fetched = progress
  BY <1>1 DEF AllSeen, Inv, ReaderInv
<1>7. cursor' = Len(fetched) /\ fetched' = <<>> /\ seen' = "none" /\ closing' = closing
  BY <1>1 DEF Yield, AllSeen
<1> QED BY <1>3, <1>4, <1>5, <1>6, <1>7

LEMMA NextInv == Inv /\ [Next]_vars => Inv'
<1> SUFFICES ASSUME Inv, [Next]_vars PROVE Inv'
  OBVIOUS
<1>1. UNCHANGED workflow => RunTypes' /\ RunInv'
  BY DEF workflow, Inv, RunTypes, RunInv, Written
<1>2. UNCHANGED reader => ReaderTypes'
  BY DEF reader, Inv, ReaderTypes
<1>3. UNCHANGED <<workflow, reader>> => ReaderInv'
  BY DEF workflow, reader, Inv, ReaderInv
<1>4. UNCHANGED poller => PollerTypes'
  BY DEF poller, Inv, PollerTypes
<1>5. UNCHANGED <<workflow, poller>> => PollerInv'
  BY DEF workflow, poller, Inv, PollerInv
<1>6. CASE UNCHANGED vars
  BY <1>1, <1>2, <1>3, <1>4, <1>5, <1>6 DEF vars, Inv
<1>7. CASE Run \/ LoseAttempt \/ Fail
  <2>1. /\ RunInv' /\ progress' \in Seq(Event) /\ Len(progress) <= Len(progress')
        /\ status = "completed" => status' = "completed" /\ progress' = progress
    BY <1>7, RunTells DEF Inv
  <2>2. UNCHANGED reader /\ UNCHANGED poller
    BY <1>7 DEF Run, FirstTask, Execute, AgentReturned, TraceReturned, LoseAttempt, Fail
  <2>3. RunTypes'
    <3>0. Trace = 6 /\ MaxAttempts \in Nat \ {0}
      BY RolesDiffer, BoundAssumption DEF Trace
    <3>1. CASE FirstTask
      BY <2>1, <3>0, <3>1 DEF FirstTask, Inv, RunTypes
    <3>2. CASE Execute \/ Fail
      BY <2>1, <3>0, <3>2 DEF Execute, Fail, Inv, RunTypes
    <3>3. CASE LoseAttempt
      BY <2>1, <3>0, <3>3 DEF LoseAttempt, Inv, RunTypes
    <3>4. CASE AgentReturned
      BY <2>1, <3>0, <3>4 DEF AgentReturned, Inv, RunTypes
    <3>5. CASE TraceReturned
      BY <2>1, <3>0, <3>5 DEF TraceReturned, Completed, Inv, RunTypes
    <3> QED BY <1>7, <3>1, <3>2, <3>3, <3>4, <3>5 DEF Run
  <2>4. ReaderInv'
    <3>1. Len(progress) \in Nat /\ Len(progress') \in Nat /\ Len(fetched) \in Nat /\ Len(received) \in Nat
      BY <2>1, LenProperties DEF Inv, RunTypes, ReaderTypes
    <3> QED BY <2>1, <2>2, <3>1 DEF Inv, ReaderInv, reader
  <2>5. PollerInv'
    BY <2>1, <2>2 DEF Inv, PollerInv, poller
  <2> QED BY <1>2, <1>4, <2>1, <2>2, <2>3, <2>4, <2>5 DEF Inv
<1>8. CASE OpenStream \/ Follow \/ CutStream
  <2>1. UNCHANGED workflow /\ UNCHANGED poller
    BY <1>8 DEF OpenStream, Follow, QueryStatus, QueryProgress, Yield, Sleep, QueryResult, CutStream
  <2>2. ReaderTypes' /\ ReaderInv'
    <3>1. progress' = progress /\ status' = status
      BY <2>1 DEF workflow
    <3>2. CASE OpenStream \/ QueryStatus \/ Sleep \/ QueryResult
      BY <3>1, <3>2 DEF Inv, RunTypes, ReaderTypes, ReaderInv, OpenStream, QueryStatus, Sleep, QueryResult
    <3>3. CASE QueryProgress
      <4>1. Len(progress) <= Len(progress)
        BY LenProperties DEF Inv, RunTypes
      <4> QED BY <3>1, <3>3, <4>1 DEF Inv, RunTypes, RunInv, ReaderTypes, ReaderInv, QueryProgress
    <3>4. CASE CutStream
      <4>1. Len(<<>>) <= Len(progress) /\ <<>> \in Seq(Event)
        BY LenProperties, EmptyBeginning DEF Inv, RunTypes
      <4> QED BY <3>1, <3>4, <4>1, EmptyBeginning DEF Inv, ReaderTypes, ReaderInv, CutStream
    <3>5. CASE Yield
      <4>1. Len(<<>>) <= Len(progress) /\ <<>> \in Seq(Event) /\ Len(fetched) \in Nat
        BY LenProperties, EmptyBeginning DEF Inv, RunTypes, ReaderTypes
      <4>2. /\ received' = fetched /\ cursor' = Len(fetched) /\ fetched' = <<>>
            /\ stream' \in {"result", "sleep"}
            /\ stream' = "result" => status = "completed" /\ fetched = progress
            /\ seen' = "none" /\ closing' = closing
        BY <3>5, YieldStep
      <4> QED BY <3>1, <4>1, <4>2, EmptyBeginning DEF Inv, ReaderTypes, ReaderInv
    <3> QED BY <1>8, <3>2, <3>3, <3>4, <3>5 DEF Follow
  <2> QED BY <1>1, <1>4, <1>5, <2>1, <2>2 DEF Inv
<1>9. CASE Poll \/ PollEnds
  <2>1. UNCHANGED workflow /\ UNCHANGED reader
    BY <1>9 DEF Poll, PollEnds
  <2>2. PollerTypes' /\ PollerInv'
    <3>1. CASE Poll
      BY <3>1, PollStep DEF Poll, Inv, PollerTypes
    <3>2. CASE PollEnds
      BY <3>2, EmptyBeginning DEF PollEnds, PollerInv, NoAnswer, Answers, Beginning, PollerTypes
    <3> QED BY <1>9, <3>1, <3>2
  <2> QED BY <1>1, <1>2, <1>3, <2>1, <2>2 DEF Inv
<1> QED BY <1>6, <1>7, <1>8, <1>9 DEF Next

(* The inductive invariant: what is told is the beginning of the story     *)
(* that the awaited activity stands for; the reader holds two beginnings   *)
(* no longer than it; a poll that saw the end sees what was told then.     *)
THEOREM FeedInvariant == Spec => []Inv
BY InitInv, NextInv, PTL DEF Spec

(* The values keep their types.                                            *)
THEOREM TypeCorrect == Spec => []TypeOK
BY FeedInvariant, Types, PTL DEF Inv

(* The events of a run form its story whatever was retried: each agent     *)
(* ends after it started and before the next one starts, none is reported  *)
(* twice and nothing follows the end (RiskAnalysisWorkflow's emits).       *)
THEOREM EventsInOrder == Spec => []ProgressIsOrdered
<1>1. Inv => ProgressIsOrdered
  <2> SUFFICES ASSUME Inv PROVE ProgressIsOrdered
    OBVIOUS
  <2>1. progress \in Seq(Event) /\ Len(progress) \in Nat /\ Len(progress) <= 12
    BY StoryLines, LenProperties DEF Inv, RunInv, Beginning
  <2>2. DOMAIN progress = 1 .. Len(progress)
    BY <2>1, LenProperties
  <2>3. \A i \in DOMAIN progress : i \in 1 .. 12 /\ progress[i] = Story[i]
    BY <2>1, <2>2 DEF Inv, RunInv, Beginning
  <2>4. ASSUME NEW i \in DOMAIN progress, progress[i].type = "agent_done"
        PROVE  i > 1 /\ progress[i - 1] = [progress[i] EXCEPT !.type = "agent_start"]
    <3>1. i > 1 /\ Story[i - 1] = [Story[i] EXCEPT !.type = "agent_start"]
      BY <2>3, <2>4, StoryIsOrdered
    <3>2. i - 1 \in DOMAIN progress
      BY <2>1, <2>2, <3>1
    <3> QED BY <2>3, <3>1, <3>2
  <2>5. \A i, j \in DOMAIN progress : progress[i] = progress[j] => i = j
    BY <2>3, StoryIsOrdered
  <2>6. ASSUME NEW i \in DOMAIN progress, i + 1 \in DOMAIN progress PROVE progress[i].type # "done"
    <3>1. i \in 1 .. 11
      BY <2>1, <2>2, <2>6
    <3> QED BY <2>3, <3>1, StoryIsOrdered
  <2> QED BY <2>4, <2>5, <2>6 DEF ProgressIsOrdered
<1> QED BY <1>1, FeedInvariant, PTL

(* A poll that answers "completed" has the whole run and its result,       *)
(* although get_pipeline asks three times while the workflow moves on.     *)
THEOREM PollsAreWhole == Spec => []PollIsConsistent
<1>1. Inv => PollIsConsistent
  <2> SUFFICES ASSUME Inv, Answered, answer.status = "completed"
               PROVE  answer.result /\ answer.progress # <<>> /\ answer.progress[Len(answer.progress)] = Done
    BY DEF PollIsConsistent
  <2>1. poll = 3
    BY DEF Answered
  <2>2. status = "completed" /\ answer.progress = progress /\ answer.result
    BY <2>1 DEF Inv, PollerInv
  <2>3. Beginning(progress) /\ Len(progress) = 12
    BY <2>2, RolesDiffer DEF Inv, RunInv, Written, Trace
  <2>4. progress[12] = Done /\ progress # <<>>
    <3>1. 12 \in 1 .. Len(progress)
      BY <2>3
    <3>2. progress[12] = Story[12]
      BY <2>3, <3>1 DEF Beginning
    <3>3. progress # <<>>
      BY <2>3, EmptyBeginning
    <3> QED BY <3>2, <3>3, StoryLines
  <2> QED BY <2>2, <2>3, <2>4
<1> QED BY <1>1, FeedInvariant, PTL

(* The stream of a Temporal run implements the feed: the page receives the *)
(* events of the run in their order, none lost and none twice, and its     *)
(* stream is closed only when the run is over and all were received        *)
(* (stream_pipeline_events).                                               *)
THEOREM TemporalImplementsFeed == Spec => ImplementsFeed
<1> DEFINE over == IF stream \in {"closed", "cut"} THEN stream ELSE "open"
<1>1. Init => Feed!Init
  BY DEF Init, Feed!Init
<1>2. Inv /\ [Next]_vars => [Feed!Next]_Feed!feedVars
  <2> SUFFICES ASSUME Inv, [Next]_vars PROVE Feed!Next \/ UNCHANGED Feed!feedVars
    OBVIOUS
  <2>1. CASE UNCHANGED vars \/ Poll \/ PollEnds
    BY <2>1 DEF vars, workflow, reader, Poll, PollEnds, Feed!feedVars
  <2>2. CASE Run \/ LoseAttempt \/ Fail
    <3>1. Tells(progress, progress')
      BY <2>2, RunTells DEF Inv
    <3>2. outcome = "running" /\ outcome' \in {"running", "succeeded", "failed"}
      BY <2>2 DEF Run, FirstTask, Execute, AgentReturned, TraceReturned, LoseAttempt, Fail, Inv, RunInv
    <3>3. UNCHANGED <<received, over>>
      BY <2>2 DEF Run, FirstTask, Execute, AgentReturned, TraceReturned, LoseAttempt, Fail, reader
    <3>4. Feed!Produce
      BY <3>1, <3>2, <3>3 DEF Feed!Produce, Tells, Tellings
    <3> QED BY <3>4 DEF Feed!Next
  <2>3. CASE OpenStream \/ QueryStatus \/ QueryProgress \/ Sleep
    BY <2>3 DEF OpenStream, QueryStatus, QueryProgress, Sleep, workflow, Feed!feedVars
  <2>4. CASE Yield
    <3>1. UNCHANGED <<progress, outcome>> /\ stream = "yield"
      BY <2>4 DEF Yield, workflow
    <3>2. /\ stream' \in {"result", "sleep"}
          /\ \E n \in Len(received) .. Len(progress) : received' = SubSeq(progress, 1, n)
      BY <2>4, YieldStep
    <3>3. Feed!Receive
      BY <3>1, <3>2 DEF Feed!Receive
    <3> QED BY <3>3 DEF Feed!Next
  <2>5. CASE QueryResult
    <3>1. stream = "result" /\ stream' = "closed" /\ UNCHANGED <<progress, outcome, received>>
      BY <2>5 DEF QueryResult, workflow
    <3>2. outcome # "running" /\ received = progress
      BY <3>1 DEF Inv, RunInv, ReaderInv
    <3>3. Feed!Close
      BY <3>1, <3>2 DEF Feed!Close
    <3> QED BY <3>3 DEF Feed!Next
  <2>6. CASE CutStream
    <3>1. Feed!Cut
      BY <2>6 DEF CutStream, workflow, Feed!Cut
    <3> QED BY <3>1 DEF Feed!Next
  <2> QED BY <2>1, <2>2, <2>3, <2>4, <2>5, <2>6 DEF Next, Follow
<1> QED BY <1>1, <1>2, FeedInvariant, PTL DEF Spec, ImplementsFeed, Feed!Spec

-----------------------------------------------------------------------------
(* The in-process stream.                                                  *)

Caught == pc \in {"finally", "exit"} /\ Len(produced) < 12 /\ ~failed     \* the error waits
Ending == pc = "exit" /\ response # "closed"                             \* the end waits

Waiting == Len(produced) - Len(sent)                                     \* events that wait

(* The queue holds the rest of the story, then the error if there was one, *)
(* then the end.                                                           *)
QueueInv ==
    /\ queue \in Seq({"data", "error", "end"} \X Event)
    /\ Len(queue) = Waiting + (IF Caught THEN 1 ELSE 0) + (IF Ending THEN 1 ELSE 0)
    /\ \A i \in 1 .. Waiting : queue[i] = <<"data", Story[Len(sent) + i]>>
    /\ Caught => queue[Waiting + 1][1] = "error"
    /\ Ending => queue[Len(queue)][1] = "end"

ThreadInv ==
    /\ pc \in {"run", "raised", "finally", "exit"} /\ failed \in BOOLEAN
    /\ response \in {"open", "closed", "cut"}
    /\ Beginning(produced) /\ Beginning(sent) /\ Len(sent) <= Len(produced)
    /\ pc = "raised" => Len(produced) < 12
    /\ failed => pc \in {"finally", "exit"} /\ Len(produced) < 12 /\ sent = produced
    /\ response = "closed" => pc = "exit" /\ sent = produced /\ (failed \/ Len(produced) = 12)

StreamInv == ThreadInv /\ QueueInv

LEMMA Lengths == ThreadInv => Len(produced) \in 0 .. 12 /\ Len(sent) \in 0 .. 12 /\ Waiting \in 0 .. 12
<1> SUFFICES ASSUME ThreadInv PROVE Len(produced) \in 0 .. 12 /\ Len(sent) \in 0 .. 12 /\ Waiting \in 0 .. 12
  OBVIOUS
<1>1. Len(produced) \in Nat /\ Len(sent) \in Nat
  BY LenProperties DEF ThreadInv, Beginning
<1>2. Len(produced) <= 12 /\ Len(sent) <= Len(produced)
  BY StoryLines DEF ThreadInv, Beginning
<1>3. \A m, n \in Nat : m <= 12 /\ n <= m => m \in 0 .. 12 /\ n \in 0 .. 12 /\ m - n \in 0 .. 12
  OBVIOUS
<1> QED BY <1>1, <1>2, <1>3 DEF Waiting

LEMMA StreamInitInv == StreamInit => StreamInv
<1> SUFFICES ASSUME StreamInit PROVE StreamInv
  OBVIOUS
<1>1. ThreadInv /\ Len(produced) = 0 /\ Len(sent) = 0
  <2>1. Len(produced) = 0 /\ Len(sent) = 0 /\ Beginning(produced) /\ Beginning(sent)
    BY EmptyBeginning DEF StreamInit
  <2>2. pc = "run" /\ failed = FALSE /\ response = "open"
    BY DEF StreamInit
  <2>3. Len(sent) <= Len(produced)
    BY <2>1
  <2> QED BY <2>1, <2>2, <2>3 DEF ThreadInv
<1>2. QueueInv
  <2>1. queue = <<>> /\ Len(queue) = 0 /\ queue \in Seq({"data", "error", "end"} \X Event)
    BY DEF StreamInit
  <2>2. ~Caught /\ ~Ending /\ Waiting = 0
    BY <1>1 DEF StreamInit, Caught, Ending, Waiting
  <2> QED BY <2>1, <2>2 DEF QueueInv
<1> QED BY <1>1, <1>2 DEF StreamInv

Items == {"data", "error", "end"} \X Event

LEMMA Appended ==
    ASSUME NEW q \in Seq(Items), NEW item \in Items
    PROVE  LET r == Append(q, item)
           IN  /\ r \in Seq(Items) /\ Len(r) = Len(q) + 1 /\ r[Len(q) + 1] = item
               /\ \A i \in 1 .. Len(q) : r[i] = q[i]
BY AppendProperties

LEMMA Removed ==
    ASSUME NEW q \in Seq(Items), q # <<>>
    PROVE  /\ Tail(q) \in Seq(Items) /\ Len(Tail(q)) = Len(q) - 1 /\ Head(q) = q[1] /\ Len(q) \in Nat \ {0}
           /\ \A i \in 1 .. Len(q) - 1 : Tail(q)[i] = q[i + 1]
BY HeadTailProperties, EmptySeq

(* The thread puts an item behind all others.                              *)
LEMMA WorkStep == ASSUME StreamInv, Work PROVE StreamInv'
<1>0. /\ Len(produced) \in 0 .. 12 /\ Len(sent) \in 0 .. 12 /\ Waiting \in 0 .. 12 /\ Len(Story) = 12
      /\ queue \in Seq(Items) /\ Len(queue) \in Nat /\ Len(produced) >= Len(sent)
  BY Lengths, StoryLines, LenProperties DEF StreamInv, QueueInv, ThreadInv, Items
<1>1. CASE YieldEvent
  <2> DEFINE event == Story[Len(produced) + 1]
             item  == <<"data", event>>
  <2>1. Len(produced) < 12 /\ event \in Event /\ item \in Items
    <3>1. Len(produced) < 12 /\ Len(produced) + 1 \in 1 .. Len(Story)
      BY <1>0, <1>1 DEF YieldEvent
    <3>2. event \in Event
      BY <3>1, StoryLines, ElementOfSeq
    <3> QED BY <3>1, <3>2 DEF Items
  <2>2. /\ Beginning(produced') /\ Len(produced') = Len(produced) + 1
        /\ pc = "run" /\ pc' = pc /\ sent' = sent /\ failed' = failed /\ response' = response
    BY <1>1, <2>1, BeginningGrows DEF YieldEvent, StreamInv, ThreadInv
  <2> HIDE DEF item
  <2>3. /\ queue' \in Seq(Items) /\ Len(queue') = Len(queue) + 1 /\ queue'[Len(queue) + 1] = item
        /\ \A i \in 1 .. Len(queue) : queue'[i] = queue[i]
    BY <1>0, <1>1, <2>1, Appended DEF YieldEvent, Put, item
  <2>4. ThreadInv'
    BY <1>0, <2>2 DEF StreamInv, ThreadInv
  <2>5. ~Caught /\ ~Ending /\ ~Caught' /\ ~Ending' /\ Waiting' = Waiting + 1
    BY <1>0, <2>2 DEF Caught, Ending, Waiting
  <2>6. Len(queue) = Waiting
    BY <1>0, <2>5 DEF StreamInv, QueueInv
  <2>7. item = <<"data", Story[Len(sent) + Len(queue) + 1]>>
    BY <1>0, <2>6 DEF item, Waiting
  <2>8. \A i \in 1 .. Waiting' : queue'[i] = <<"data", Story[Len(sent') + i]>>
    <3> SUFFICES ASSUME NEW i \in 1 .. Waiting + 1 PROVE queue'[i] = <<"data", Story[Len(sent) + i]>>
      BY <2>2, <2>5
    <3>1. CASE i = Waiting + 1
      BY <1>0, <2>3, <2>6, <2>7, <3>1
    <3>2. CASE i \in 1 .. Waiting
      BY <1>0, <2>3, <2>6, <3>2 DEF StreamInv, QueueInv
    <3> QED BY <1>0, <3>1, <3>2
  <2> QED BY <1>0, <2>3, <2>4, <2>5, <2>6, <2>8 DEF StreamInv, QueueInv, Items
<1>2. CASE Exhausted \/ Raise
  <2>1. /\ UNCHANGED <<produced, queue, sent, failed, response>> /\ pc = "run"
        /\ \/ pc' = "finally" /\ Len(produced) = 12
           \/ pc' = "raised" /\ Len(produced) < 12
    BY <1>0, <1>2 DEF Exhausted, Raise, Working
  <2>2. ThreadInv'
    BY <2>1 DEF StreamInv, ThreadInv
  <2>3. ~Caught /\ ~Ending /\ ~Caught' /\ ~Ending' /\ Waiting' = Waiting
    <3>1. pc = "run" /\ pc' # "exit" /\ (pc' # "finally" \/ ~(Len(produced') < 12))
      <4>1. Len(produced) = 12 => ~(Len(produced) < 12)
        BY <1>0
      <4>2. produced' = produced
        BY <2>1
      <4> QED BY <2>1, <4>1, <4>2
    <3>2. ~Caught /\ ~Ending
      BY <2>1 DEF Caught, Ending
    <3>3. ~Caught' /\ ~Ending'
      BY <3>1 DEF Caught, Ending
    <3> QED BY <2>1, <3>2, <3>3 DEF Waiting
  <2> QED BY <2>1, <2>2, <2>3 DEF StreamInv, QueueInv
<1>3. CASE Catch
  <2> DEFINE item == <<"error", Created>>
  <2>1. UNCHANGED <<produced, sent, failed, response>> /\ pc = "raised" /\ pc' = "finally"
    BY <1>3 DEF Catch
  <2>2. Len(produced) < 12 /\ ~failed /\ response # "closed"
    BY <2>1 DEF StreamInv, ThreadInv
  <2>3. item \in Items
    BY DEF Items, Event
  <2> HIDE DEF item
  <2>4. /\ queue' \in Seq(Items) /\ Len(queue') = Len(queue) + 1 /\ queue'[Len(queue) + 1] = item
        /\ \A i \in 1 .. Len(queue) : queue'[i] = queue[i]
    BY <1>0, <1>3, <2>3, Appended DEF Catch, Put, item
  <2>5. ThreadInv'
    BY <2>1, <2>2 DEF StreamInv, ThreadInv
  <2>6. ~Caught /\ ~Ending /\ Caught' /\ ~Ending' /\ Waiting' = Waiting
    BY <2>1, <2>2 DEF Caught, Ending, Waiting
  <2>7. Len(queue) = Waiting
    BY <1>0, <2>6 DEF StreamInv, QueueInv
  <2>8. \A i \in 1 .. Waiting : queue'[i] = <<"data", Story[Len(sent') + i]>>
    BY <2>1, <2>4, <2>7 DEF StreamInv, QueueInv
  <2>9. queue'[Waiting + 1][1] = "error"
    BY <2>4, <2>7 DEF item
  <2> QED BY <1>0, <2>4, <2>5, <2>6, <2>7, <2>8, <2>9 DEF StreamInv, QueueInv, Items
<1>4. CASE Finally
  <2> DEFINE item == <<"end", Created>>
  <2>1. UNCHANGED <<produced, sent, failed, response>> /\ pc = "finally" /\ pc' = "exit"
    BY <1>4 DEF Finally
  <2>2. response # "closed"
    BY <2>1 DEF StreamInv, ThreadInv
  <2>3. item \in Items
    BY DEF Items, Event
  <2> HIDE DEF item
  <2>4. /\ queue' \in Seq(Items) /\ Len(queue') = Len(queue) + 1 /\ queue'[Len(queue) + 1] = item
        /\ \A i \in 1 .. Len(queue) : queue'[i] = queue[i]
    BY <1>0, <1>4, <2>3, Appended DEF Finally, Put, item
  <2>5. ThreadInv'
    BY <2>1, <2>2 DEF StreamInv, ThreadInv
  <2>6. Caught' = Caught /\ ~Ending /\ Ending' /\ Waiting' = Waiting
    BY <2>1, <2>2 DEF Caught, Ending, Waiting
  <2>7. Len(queue) = Waiting + IF Caught THEN 1 ELSE 0
    BY <1>0, <2>6 DEF StreamInv, QueueInv
  <2>8. \A i \in 1 .. Waiting : queue'[i] = <<"data", Story[Len(sent') + i]>>
    <3>1. \A i \in 1 .. Waiting : i \in 1 .. Len(queue)
      BY <1>0, <2>7
    <3>2. \A i \in 1 .. Waiting : queue'[i] = queue[i]
      BY <2>4, <3>1
    <3> QED BY <2>1, <3>2 DEF StreamInv, QueueInv
  <2>9. Caught => queue'[Waiting + 1][1] = "error"
    BY <1>0, <2>4, <2>7 DEF StreamInv, QueueInv
  <2>10. queue'[Len(queue')][1] = "end"
    BY <2>4 DEF item
  <2> QED BY <1>0, <2>4, <2>5, <2>6, <2>7, <2>8, <2>9, <2>10 DEF StreamInv, QueueInv, Items
<1> QED BY <1>1, <1>2, <1>3, <1>4 DEF Work

(* The response takes the oldest item.                                     *)
LEMMA RespondStep == ASSUME StreamInv, Respond PROVE StreamInv' /\ Len(queue) > 0
<1>0. /\ Len(produced) \in 0 .. 12 /\ Len(sent) \in 0 .. 12 /\ Waiting \in 0 .. 12 /\ Len(Story) = 12
      /\ queue \in Seq(Items) /\ Len(queue) \in Nat /\ Len(produced) >= Len(sent)
      /\ Len(queue) = Waiting + (IF Caught THEN 1 ELSE 0) + (IF Ending THEN 1 ELSE 0)
  BY Lengths, StoryLines, LenProperties DEF StreamInv, QueueInv, ThreadInv, Items
<1>1. /\ response = "open" /\ queue # <<>> /\ queue' = Tail(queue) /\ UNCHANGED <<produced, pc>>
  BY DEF Respond, SendEvent, SendError, SendEnd, Take
<1>2. /\ queue' \in Seq(Items) /\ Len(queue') = Len(queue) - 1 /\ Head(queue) = queue[1] /\ Len(queue) \in Nat \ {0}
      /\ \A i \in 1 .. Len(queue) - 1 : queue'[i] = queue[i + 1]
  BY <1>0, <1>1, Removed
<1>3. /\ Waiting > 0 => Oldest = <<"data", Story[Len(sent) + 1]>>
      /\ Waiting = 0 /\ Caught => Oldest[1] = "error"
      /\ Waiting = 0 /\ ~Caught => Oldest[1] = "end" /\ Ending /\ Len(queue) = 1
  <2>1. Waiting > 0 => queue[1] = <<"data", Story[Len(sent) + 1]>>
    <3>1. Waiting > 0 => 1 \in 1 .. Waiting
      BY <1>0
    <3> QED BY <3>1 DEF StreamInv, QueueInv
  <2>2. Waiting = 0 /\ Caught => queue[1][1] = "error"
    BY DEF StreamInv, QueueInv
  <2>3. Waiting = 0 /\ ~Caught => Ending /\ Len(queue) = 1
    BY <1>0, <1>2
  <2>4. Waiting = 0 /\ ~Caught => queue[1][1] = "end"
    BY <2>3 DEF StreamInv, QueueInv
  <2> QED BY <1>2, <2>1, <2>2, <2>3, <2>4 DEF Oldest
<1>4. CASE SendEvent
  <2>1. Waiting > 0
    BY <1>0, <1>3, <1>4 DEF SendEvent, Take
  <2>2. sent' = Append(sent, Story[Len(sent) + 1]) /\ UNCHANGED <<failed, response>>
    BY <1>3, <1>4, <2>1 DEF SendEvent
  <2>3. Len(sent) < Len(produced) /\ Len(sent) < 12 /\ sent # produced
    <3>1. \A m, n \in 0 .. 12 : m - n > 0 => n < m /\ n < 12 /\ n # m
      OBVIOUS
    <3>2. Len(produced) - Len(sent) > 0
      BY <2>1 DEF Waiting
    <3> QED BY <1>0, <3>1, <3>2
  <2>4. Beginning(sent') /\ Len(sent') = Len(sent) + 1
    BY <2>2, <2>3, BeginningGrows DEF StreamInv, ThreadInv
  <2>5. ThreadInv'
    BY <1>0, <1>1, <2>2, <2>3, <2>4 DEF StreamInv, ThreadInv
  <2>6. Caught' = Caught /\ Ending' = Ending /\ Waiting' = Waiting - 1
    BY <1>0, <1>1, <2>2, <2>4 DEF Caught, Ending, Waiting
  <2>7. \A i \in 1 .. Waiting' : queue'[i] = <<"data", Story[Len(sent') + i]>>
    <3> SUFFICES ASSUME NEW i \in 1 .. Waiting - 1 PROVE queue'[i] = <<"data", Story[Len(sent) + 1 + i]>>
      BY <2>4, <2>6
    <3>1. i \in 1 .. Len(queue) - 1 /\ i + 1 \in 1 .. Waiting /\ Len(sent) + (i + 1) = Len(sent) + 1 + i
      BY <1>0
    <3>2. queue'[i] = queue[i + 1]
      BY <1>2, <3>1
    <3>3. queue[i + 1] = <<"data", Story[Len(sent) + (i + 1)]>>
      BY <3>1 DEF StreamInv, QueueInv
    <3> QED BY <3>1, <3>2, <3>3
  <2>8. Caught => queue'[Waiting' + 1][1] = "error"
    <3> SUFFICES ASSUME Caught PROVE queue'[Waiting][1] = "error"
      BY <1>0, <2>6
    <3>1. Waiting \in 1 .. Len(queue) - 1
      BY <1>0, <2>1
    <3> QED BY <1>2, <3>1 DEF StreamInv, QueueInv
  <2>9. Ending => queue'[Len(queue')][1] = "end"
    <3> SUFFICES ASSUME Ending PROVE queue'[Len(queue) - 1][1] = "end"
      BY <1>2
    <3>1. Len(queue) - 1 \in 1 .. Len(queue) - 1 /\ Len(queue) - 1 + 1 = Len(queue)
      BY <1>0, <2>1
    <3>2. queue'[Len(queue) - 1] = queue[Len(queue)]
      BY <1>2, <3>1
    <3> QED BY <3>2 DEF StreamInv, QueueInv
  <2> QED BY <1>0, <1>2, <2>5, <2>6, <2>7, <2>8, <2>9 DEF StreamInv, QueueInv, Items
<1>5. CASE SendError
  <2>1. Oldest[1] = "error" /\ UNCHANGED <<sent, response>> /\ failed' = TRUE
    BY <1>5 DEF SendError, Take
  <2>2. Waiting = 0 /\ Caught
    BY <1>0, <1>3, <2>1
  <2>3. sent = produced
    <3>1. Len(sent) = Len(produced)
      BY <1>0, <2>2 DEF Waiting
    <3> QED BY <3>1, BeginningsAgree DEF StreamInv, ThreadInv
  <2>4. ThreadInv'
    BY <1>1, <2>1, <2>2, <2>3 DEF StreamInv, ThreadInv, Caught
  <2>5. ~Caught' /\ Ending' = Ending /\ Waiting' = 0
    BY <1>1, <2>1, <2>2 DEF Caught, Ending, Waiting
  <2>6. Len(queue) = 1 + IF Ending THEN 1 ELSE 0
    BY <1>0, <2>2
  <2>7. Ending => queue'[Len(queue')][1] = "end"
    <3> SUFFICES ASSUME Ending PROVE queue'[1][1] = "end"
      BY <1>2, <2>6
    <3>1. Len(queue) = 2 /\ 1 \in 1 .. Len(queue) - 1
      BY <2>6
    <3> QED BY <1>2, <3>1 DEF StreamInv, QueueInv
  <2>8. Len(queue') = IF Ending' THEN 1 ELSE 0
    BY <1>2, <2>5, <2>6
  <2> QED BY <1>2, <2>4, <2>5, <2>7, <2>8 DEF StreamInv, QueueInv, Items
<1>6. CASE SendEnd
  <2>1. Oldest[1] = "end" /\ UNCHANGED <<sent, failed>> /\ response' = "closed"
    BY <1>6 DEF SendEnd, Take
  <2>2. Waiting = 0 /\ ~Caught /\ Ending /\ Len(queue) = 1
    BY <1>0, <1>3, <2>1
  <2>3. sent = produced
    <3>1. Len(sent) = Len(produced)
      BY <1>0, <2>2 DEF Waiting
    <3> QED BY <3>1, BeginningsAgree DEF StreamInv, ThreadInv
  <2>4. pc = "exit" /\ (failed \/ Len(produced) = 12)
    <3>1. Len(produced) < 12 \/ Len(produced) = 12
      <4>1. \A n \in 0 .. 12 : n < 12 \/ n = 12
        OBVIOUS
      <4> QED BY <1>0, <4>1
    <3>2. pc = "exit"
      BY <2>2 DEF Ending
    <3> QED BY <2>2, <3>1, <3>2 DEF Caught
  <2>5. ThreadInv'
    BY <1>1, <2>1, <2>3, <2>4 DEF StreamInv, ThreadInv
  <2>6. ~Caught' /\ ~Ending' /\ Waiting' = 0
    BY <1>1, <2>1, <2>2 DEF Caught, Ending, Waiting
  <2>7. Len(queue') = 0
    BY <1>2, <2>2
  <2> QED BY <1>2, <2>5, <2>6, <2>7 DEF StreamInv, QueueInv, Items
<1>7. Len(queue) > 0
  BY <1>2
<1> QED BY <1>4, <1>5, <1>6, <1>7 DEF Respond

LEMMA StreamNextInv == StreamInv /\ [StreamNext]_streamVars => StreamInv'
<1> SUFFICES ASSUME StreamInv, [StreamNext]_streamVars PROVE StreamInv'
  OBVIOUS
<1>1. CASE UNCHANGED streamVars
  BY <1>1 DEF streamVars, StreamInv, ThreadInv, QueueInv, Caught, Ending, Waiting
<1>2. CASE Disconnect
  <2>1. UNCHANGED <<produced, pc, queue, sent, failed>> /\ response = "open" /\ response' = "cut"
    BY <1>2 DEF Disconnect
  <2>2. ThreadInv'
    BY <2>1 DEF StreamInv, ThreadInv
  <2>3. Caught' = Caught /\ Ending' = Ending /\ Waiting' = Waiting
    BY <2>1 DEF Caught, Ending, Waiting
  <2> QED BY <2>1, <2>2, <2>3 DEF StreamInv, QueueInv
<1> QED BY <1>1, <1>2, WorkStep, RespondStep DEF StreamNext

(* The inductive invariant: the queue holds the rest of the story, then    *)
(* the error of a failed run, then the end; neither is taken early.        *)
THEOREM StreamInvariant == StreamSpec => []StreamInv
BY StreamInitInv, StreamNextInv, PTL DEF StreamSpec

(* The outcome that the feed speaks of, without the CASE.                  *)
LEMMA WholeStory == ASSUME NEW s, Beginning(s) PROVE s = Story <=> Len(s) = 12
<1>1. Beginning(Story) /\ Len(Story) = 12
  BY StoryLines, LenProperties DEF Beginning
<1> QED BY <1>1, BeginningsAgree

OutcomeOf(thread, told) == IF thread = "run" THEN "running" ELSE IF Len(told) = 12 THEN "succeeded" ELSE "failed"

LEMMA OutcomeIs == ASSUME Beginning(produced) PROVE Outcome = OutcomeOf(pc, produced)
<1>1. produced = Story <=> Len(produced) = 12
  BY WholeStory
<1>2. CASE pc = "run"
  BY <1>2 DEF Outcome, OutcomeOf
<1>3. CASE pc # "run" /\ produced = Story
  BY <1>1, <1>3 DEF Outcome, OutcomeOf
<1>4. CASE pc # "run" /\ produced # Story
  BY <1>1, <1>4 DEF Outcome, OutcomeOf
<1> QED BY <1>2, <1>3, <1>4

LEMMA OutcomeIsNext == ASSUME Beginning(produced') PROVE Outcome' = OutcomeOf(pc', produced')
<1>1. produced' = Story <=> Len(produced') = 12
  BY WholeStory
<1>2. CASE pc' = "run"
  BY <1>2 DEF Outcome, OutcomeOf
<1>3. CASE pc' # "run" /\ produced' = Story
  BY <1>1, <1>3 DEF Outcome, OutcomeOf
<1>4. CASE pc' # "run" /\ produced' # Story
  BY <1>1, <1>4 DEF Outcome, OutcomeOf
<1> QED BY <1>2, <1>3, <1>4

(* A page whose stream was closed knows how the run went: it has all its   *)
(* events, and an error exactly if the run failed (event_gen's thread puts *)
(* the end last, whether or not the generator raised).                     *)
THEOREM ClosedStreamsTell == StreamSpec => []ClosedStreamTells
<1>1. StreamInv => ClosedStreamTells
  <2> SUFFICES ASSUME StreamInv, response = "closed" PROVE failed = (Outcome = "failed") /\ sent = produced
    BY DEF ClosedStreamTells
  <2>1. pc = "exit" /\ sent = produced /\ (failed \/ Len(produced) = 12) /\ failed \in BOOLEAN
    BY DEF StreamInv, ThreadInv
  <2>2. failed => Len(produced) # 12
    <3>1. failed => Len(produced) < 12
      BY DEF StreamInv, ThreadInv
    <3>2. \A n \in 0 .. 12 : n < 12 => n # 12
      OBVIOUS
    <3> QED BY <3>1, <3>2, Lengths DEF StreamInv
  <2>3. Outcome = IF Len(produced) = 12 THEN "succeeded" ELSE "failed"
    BY <2>1, OutcomeIs DEF StreamInv, ThreadInv, OutcomeOf
  <2> QED BY <2>1, <2>2, <2>3
<1> QED BY <1>1, StreamInvariant, PTL

(* The in-process stream implements the same feed as the Temporal one: the *)
(* page that moves to Temporal loses nothing it was promised (event_gen,   *)
(* stream_analysis_pipeline).                                              *)
THEOREM InProcessImplementsFeed == StreamSpec => StreamImplementsFeed
<1>1. StreamInit => StreamFeed!Init
  <2> SUFFICES ASSUME StreamInit PROVE StreamFeed!Init
    OBVIOUS
  <2>1. Outcome = "running"
    BY EmptyBeginning, OutcomeIs DEF StreamInit, OutcomeOf
  <2> QED BY <2>1 DEF StreamInit, StreamFeed!Init
<1>2. StreamInv /\ StreamInv' /\ [StreamNext]_streamVars => [StreamFeed!Next]_StreamFeed!feedVars
  <2> SUFFICES ASSUME StreamInv, StreamInv', [StreamNext]_streamVars
               PROVE  StreamFeed!Next \/ UNCHANGED StreamFeed!feedVars
    OBVIOUS
  <2>1. Outcome = OutcomeOf(pc, produced)
    BY OutcomeIs DEF StreamInv, ThreadInv
  <2>2. Outcome' = OutcomeOf(pc', produced')
    BY OutcomeIsNext DEF StreamInv, ThreadInv
  <2>3. CASE YieldEvent \/ Exhausted \/ Raise
    <3>1. pc = "run" /\ UNCHANGED <<sent, response>>
      BY <2>3 DEF YieldEvent, Exhausted, Raise
    <3>2. Tells(produced, produced')
      <4>1. produced \in Seq(Event)
        BY DEF StreamInv, ThreadInv, Beginning
      <4>2. CASE YieldEvent
        <5>1. Story[Len(produced) + 1] \in Event
          <6>1. Len(produced) + 1 \in 1 .. Len(Story)
            BY <4>2, Lengths, StoryLines DEF YieldEvent, StreamInv
          <6> QED BY <6>1, StoryLines, ElementOfSeq
        <5> QED BY <4>1, <4>2, <5>1, TellsOne DEF YieldEvent
      <4>3. CASE Exhausted \/ Raise
        BY <4>1, <4>3, TellsNothing DEF Exhausted, Raise
      <4> QED BY <2>3, <4>2, <4>3
    <3>3. StreamFeed!Produce
      BY <2>1, <2>2, <3>1, <3>2 DEF OutcomeOf, StreamFeed!Produce, Tells, Tellings
    <3> QED BY <3>3 DEF StreamFeed!Next
  <2>4. CASE Catch \/ Finally \/ SendError \/ UNCHANGED streamVars
    <3>1. UNCHANGED <<produced, sent, response>> /\ (pc = "run" <=> pc' = "run")
      BY <2>4 DEF Catch, Finally, SendError, Take, streamVars
    <3>2. Outcome' = Outcome
      BY <2>1, <2>2, <3>1 DEF OutcomeOf
    <3> QED BY <3>1, <3>2 DEF StreamFeed!feedVars
  <2>5. CASE SendEvent
    <3>1. response = "open" /\ UNCHANGED <<produced, pc, response>> /\ sent' = Append(sent, Oldest[2])
      BY <2>5 DEF SendEvent, Take
    <3>2. Outcome' = Outcome
      BY <2>1, <2>2, <3>1 DEF OutcomeOf
    <3>3. sent' = SubSeq(produced, 1, Len(sent')) /\ Len(sent') \in Len(sent) .. Len(produced)
      <4>1. Beginning(produced) /\ Beginning(sent') /\ Len(sent') <= Len(produced)
        BY <3>1 DEF StreamInv, ThreadInv
      <4>2. Len(sent') = Len(sent) + 1
        BY <3>1
      <4>3. Len(sent) \in Nat /\ Len(produced) \in Nat
        BY LenProperties DEF StreamInv, ThreadInv, Beginning
      <4> QED BY <4>1, <4>2, <4>3, BeginningOf
    <3>4. StreamFeed!Receive
      BY <3>1, <3>2, <3>3 DEF StreamFeed!Receive
    <3> QED BY <3>4 DEF StreamFeed!Next
  <2>6. CASE SendEnd
    <3>1. response = "open" /\ response' = "closed" /\ UNCHANGED <<produced, pc, sent>>
      BY <2>6 DEF SendEnd, Take
    <3>2. pc = "exit" /\ sent = produced
      BY <3>1 DEF StreamInv, ThreadInv
    <3>3. Outcome' = Outcome /\ Outcome # "running"
      BY <2>1, <2>2, <3>1, <3>2 DEF OutcomeOf
    <3>4. StreamFeed!Close
      BY <3>1, <3>2, <3>3 DEF StreamFeed!Close
    <3> QED BY <3>4 DEF StreamFeed!Next
  <2>7. CASE Disconnect
    <3>1. response = "open" /\ response' = "cut" /\ UNCHANGED <<produced, pc, sent>>
      BY <2>7 DEF Disconnect
    <3>2. Outcome' = Outcome
      BY <2>1, <2>2, <3>1 DEF OutcomeOf
    <3>3. StreamFeed!Cut
      BY <3>1, <3>2 DEF StreamFeed!Cut
    <3> QED BY <3>3 DEF StreamFeed!Next
  <2> QED BY <2>3, <2>4, <2>5, <2>6, <2>7 DEF StreamNext, Work, Respond
<1> QED BY <1>1, <1>2, StreamInvariant, PTL DEF StreamSpec, StreamImplementsFeed, StreamFeed!Spec
=============================================================================
