--------------------------- MODULE ChatUi_proofs ---------------------------
(***************************************************************************)
(* For any samples and any number of gestures, each of which may cut the   *)
(* script short at any write: what the chat page promises of its session.  *)
(***************************************************************************)
EXTENDS ChatUi, SequenceTheorems, TLAPS

-----------------------------------------------------------------------------
(***************************************************************************)
(* The inductive invariant, part by part.                                  *)
(***************************************************************************)
Trust == {"public", "vetted"}
Clicks == {"nothing", "prompt", "new_chat", "operators", "close", "card"}
Given == [click : Clicks, typed : OrNone(1..MaxGestures), card : OrNone(Artifacts)]
Script_ == [at : Places, step : 0..6, given : Given, trust : Trust,
            prompt : OrNone(Prompts), deep : BOOLEAN]
Message_ == [turn : Nat, prompt : Prompts, card : OrNone(Artifacts)]

Types ==
  /\ widgets \in [trust : Trust, sample : OrNone(Samples), choice : Nat]
  /\ widgets.sample \in OrNone(sample_questions(widgets.trust))
  /\ gestures \in 0..MaxGestures
  /\ script \in Script_
  /\ thread \in Nat \ {0} /\ turns \in Nat
  /\ messages \in Seq(Message_)
  /\ artifacts \subseteq Artifacts /\ open_artifact \in OrNone(Artifacts)
  /\ _last_sample \in OrNone(Samples)
  /\ last_evidence \in OrNone(1..turns)
  /\ memory \subseteq [thread : Nat \ {0}, prompt : Prompts, trust : Trust]
  /\ submitted \subseteq [sample : Samples, choice : Nat, thread : Nat, turn : Nat]

\* Threads, choices and turns are numbered as they come up.
Numbered ==
  /\ widgets.choice <= gestures
  /\ thread <= gestures + 1
  /\ \A i \in DOMAIN messages : messages[i].turn <= turns
  /\ \A said \in memory : said.thread <= thread
  /\ \A s \in submitted : s.choice <= widgets.choice /\ s.thread <= thread

\* Where the script is, and what brought it there.
Sending == {"clearing", "sending", "streaming", "finishing"}
Placed ==
  /\ script.at = "top" /\ script.given.click = "new_chat" => thread <= gestures
  /\ script.at = "resetting" /\ script.step = 1 => thread <= gestures
  /\ script.at = "top" /\ script.given.click = "operators" => gestures > 0
  /\ script.at = "resetting" => script.step \in 1..6
  /\ script.at = "analysing" => script.step \in 1..2 /\ gestures > 0
  /\ script.at = "finishing" => script.step \in 1..4
  /\ script.at \in Sending => script.prompt \in Prompts
  /\ script.at \in {"streaming", "finishing"} => turns > 0

\* New chat takes a thread nothing was sent to, and empties the transcript
\* before anything the transcript refers to.
Resetting ==
  script.at = "resetting" =>
    /\ script.step > 1 => /\ \A said \in memory : said.thread # thread
                          /\ \A s \in submitted : s.thread # thread
    /\ script.step > 2 => messages = <<>>

\* The prompt stands in the transcript before it is sent, as its last message
\* until the answer is recorded.
Prompted ==
  script.at \in Sending =>
    /\ messages # <<>>
    /\ messages[Len(messages)].turn = User /\ messages[Len(messages)].prompt = script.prompt

\* What the answer's message refers to is recorded before it.
Recording ==
  script.at = "finishing" =>
    /\ script.step > 1 => last_evidence = turns
    /\ script.step > 2 /\ script.deep => Report \in artifacts

\* A choice of a sample that was sent to the thread is the one last noted; one
\* about to be sent was not sent to it.
Sent == \E s \in submitted : s.choice = widgets.choice /\ s.thread = thread
Noted ==
  /\ Sent => widgets.sample \in {None, _last_sample}
  /\ script.at \in {"showing", "clearing", "sending"} /\ script.prompt \in Samples =>
       ~Sent /\ widgets.sample = script.prompt /\ _last_sample = script.prompt

Numbers == Numbered /\ Placed
Orders == Resetting /\ Prompted /\ Recording /\ Noted
Promises == NothingRememberedUnshown /\ CardsResolve /\ AnswerHasItsEvidence /\ SampleOncePerThread
IInv == Types /\ Numbers /\ Orders /\ Promises

-----------------------------------------------------------------------------
(***************************************************************************)
(* The script's updates, field by field.                                   *)
(***************************************************************************)
LEMMA Constants ==
  /\ None \notin Samples /\ None \notin Nat
  /\ \A s \in Samples : s \notin Nat
  /\ MaxGestures \in Nat
BY UiAssumption DEF Samples

LEMMA RunFields ==
  ASSUME NEW given \in Given, NEW trust \in Trust
  PROVE  /\ Run(given, trust) \in Script_ /\ Run(given, trust).at = "top"
         /\ Run(given, trust).given = given
BY DEF Run, Script_, Places, OrNone

LEMMA ClickFields ==
  ASSUME NEW click \in Clicks
  PROVE  Click(click) \in Given /\ Click(click).click = click
BY DEF Click, Given, OrNone

LEMMA IdleFields == Idle \in Script_ /\ Idle.at = "idle"
<1>1. Nothing \in Given
  BY ClickFields DEF Nothing, Clicks
<1> QED BY <1>1 DEF Idle, Script_, Places, OrNone, Trust

LEMMA RerunFields ==
  ASSUME script \in Script_, Rerun
  PROVE  script' \in Script_ /\ script'.at = "top" /\ script'.given.click = "nothing"
<1>1. Nothing \in Given /\ Nothing.click = "nothing"
  BY ClickFields DEF Nothing, Clicks
<1>2. script.trust \in Trust
  BY DEF Script_
<1> QED BY <1>1, <1>2, RunFields DEF Rerun

LEMMA GotoFields ==
  ASSUME script \in Script_, NEW at \in Places, Goto(at)
  PROVE  /\ script' \in Script_ /\ script'.at = at /\ script'.step = 1
         /\ script'.given = script.given /\ script'.prompt = script.prompt
<1> DEFINE there == [script EXCEPT !.at = at]
<1>1. there \in Script_ /\ there.at = at /\ there.given = script.given /\ there.prompt = script.prompt
  BY DEF Script_
<1>2. script' = [there EXCEPT !.step = 1]
  BY DEF Goto
<1> HIDE DEF there
<1> QED BY <1>1, <1>2 DEF Script_

LEMMA StepFields ==
  ASSUME script \in Script_, script.step < 6, script' = [script EXCEPT !.step = @ + 1]
  PROVE  /\ script' \in Script_ /\ script'.at = script.at /\ script'.step = script.step + 1
         /\ script'.given = script.given /\ script'.prompt = script.prompt
         /\ script'.deep = script.deep
BY DEF Script_

\* What a message more does to the transcript.
LEMMA Grown ==
  ASSUME messages \in Seq(Message_), NEW m \in Message_, messages' = Append(messages, m)
  PROVE  /\ messages' \in Seq(Message_) /\ messages' # <<>>
         /\ Len(messages) \in Nat /\ Len(messages') = Len(messages) + 1
         /\ DOMAIN messages = 1..Len(messages) /\ DOMAIN messages' = 1..(Len(messages) + 1)
         /\ \A i \in 1..Len(messages) : messages'[i] = messages[i]
         /\ messages'[Len(messages')] = m
<1>1. Len(messages) \in Nat /\ DOMAIN messages = 1..Len(messages)
  BY LenProperties
<1>2. /\ messages' \in Seq(Message_) /\ messages' # <<>>
      /\ Len(messages') = Len(messages) + 1
      /\ \A i \in 1..Len(messages) : messages'[i] = messages[i]
      /\ messages'[Len(messages) + 1] = m
  BY AppendProperties
<1>3. DOMAIN messages' = 1..Len(messages')
  BY <1>2, LenProperties
<1> QED BY <1>1, <1>2, <1>3

\* A step of the script alone keeps what does not speak of it.
LEMMA ScriptAlone ==
  ASSUME IInv, UNCHANGED <<widgets, gestures, session, turns, memory, submitted>>,
         script' \in Script_, Placed', Orders'
  PROVE  IInv'
<1>1. Types' /\ Numbered'
  BY DEF IInv, Types, Numbers, Numbered, session
<1>2. Promises'
  BY DEF IInv, Promises, NothingRememberedUnshown, CardsResolve, AnswerHasItsEvidence,
         SampleOncePerThread, session
<1> QED BY <1>1, <1>2 DEF IInv, Numbers

-----------------------------------------------------------------------------
LEMMA Initially == Init => IInv
<1> SUFFICES ASSUME Init PROVE IInv
  OBVIOUS
<1>1. script \in Script_ /\ script.at = "top" /\ script.given = Nothing /\ Nothing.click = "nothing"
  <2>1. Nothing \in Given /\ Nothing.click = "nothing"
    BY ClickFields DEF Nothing, Clicks
  <2> QED BY <2>1, RunFields DEF Init, Trust
<1>2. messages \in Seq(Message_) /\ DOMAIN messages = {}
  BY EmptySeq, LenProperties DEF Init
<1>3. Types
  <2>1. widgets \in [trust : Trust, sample : OrNone(Samples), choice : Nat]
        /\ widgets.sample \in OrNone(sample_questions(widgets.trust))
    BY DEF Init, Trust, OrNone
  <2> QED BY <1>1, <1>2, <2>1, Constants DEF Init, Types, OrNone
<1>4. Numbers
  BY <1>1, <1>2, Constants DEF Init, Numbers, Numbered, Placed, Sending
<1>5. Orders
  BY <1>1 DEF Init, Orders, Resetting, Prompted, Recording, Noted, Sent, Sending
<1>6. Promises
  BY <1>2 DEF Init, Promises, NothingRememberedUnshown, CardsResolve, AnswerHasItsEvidence,
              SampleOncePerThread
<1> QED BY <1>3, <1>4, <1>5, <1>6 DEF IInv

-----------------------------------------------------------------------------
(***************************************************************************)
(* Gestures: wherever the script was, what it wrote so far is sound.       *)
(***************************************************************************)

\* A gesture may keep the choice of a sample, drop it, or make a new one.
Chosen(changed) ==
  /\ changed \in [trust : Trust, sample : OrNone(Samples), choice : Nat]
  /\ changed.sample \in OrNone(sample_questions(changed.trust))
  /\ \/ changed.choice = widgets.choice /\ changed.sample \in {None, widgets.sample}
     \/ changed.choice = gestures + 1

LEMMA GestureStep ==
  ASSUME IInv, NEW given \in Given, NEW changed, Chosen(changed), Gesture(given, changed)
  PROVE  IInv'
<1>1. /\ gestures < MaxGestures /\ gestures' = gestures + 1 /\ widgets' = changed
      /\ script' = Run(given, changed.trust)
      /\ UNCHANGED <<session, turns, memory, submitted>>
  BY DEF Gesture
<1>2. script' \in Script_ /\ script'.at = "top"
  BY <1>1, RunFields DEF Chosen
<1>3. gestures \in Nat /\ widgets.choice \in Nat /\ widgets.choice <= gestures /\ MaxGestures \in Nat
  BY Constants DEF IInv, Types, Numbers, Numbered
<1>4. Types'
  BY <1>1, <1>2, <1>3 DEF IInv, Types, Chosen, session
<1>5. Numbered'
  <2>1. changed.choice \in Nat /\ changed.choice <= gestures + 1 /\ widgets.choice <= changed.choice
    BY <1>3 DEF Chosen
  <2>2. \A s \in submitted : s.choice \in Nat /\ s.choice <= changed.choice
    BY <1>3, <2>1 DEF IInv, Types, Numbers, Numbered
  <2>3. thread <= gestures' + 1
    BY <1>1, <1>3 DEF IInv, Types, Numbers, Numbered
  <2> QED BY <1>1, <2>1, <2>2, <2>3 DEF IInv, Numbers, Numbered, session
<1>6. Placed'
  BY <1>1, <1>2, <1>3 DEF IInv, Types, Numbers, Numbered, Placed, Sending, session
<1>7. Noted'
  <2>1. CASE changed.choice = widgets.choice /\ changed.sample \in {None, widgets.sample}
    BY <1>1, <1>2, <2>1 DEF IInv, Orders, Noted, Sent, session
  <2>2. CASE changed.choice = gestures + 1
    <3>1. \A s \in submitted : s.choice # gestures + 1
      BY <1>3 DEF IInv, Types, Numbers, Numbered
    <3>2. ~Sent'
      BY <1>1, <2>2, <3>1 DEF Sent
    <3> QED BY <1>2, <3>2 DEF Noted
  <2> QED BY <2>1, <2>2 DEF Chosen
<1>8. Orders'
  BY <1>2, <1>7 DEF Orders, Resetting, Prompted, Recording, Sending
<1>9. Promises'
  BY <1>1 DEF IInv, Promises, NothingRememberedUnshown, CardsResolve, AnswerHasItsEvidence,
              SampleOncePerThread, session
<1> QED BY <1>4, <1>5, <1>6, <1>8, <1>9 DEF IInv, Numbers

LEMMA GesturesStep == IInv /\ Gestures => IInv'
<1> SUFFICES ASSUME IInv, Gestures PROVE IInv'
  OBVIOUS
<1>1. /\ widgets \in [trust : Trust, sample : OrNone(Samples), choice : Nat]
      /\ widgets.sample \in OrNone(sample_questions(widgets.trust))
      /\ gestures \in Nat /\ MaxGestures \in Nat
  BY Constants DEF IInv, Types
<1>2. Chosen(widgets)
  BY <1>1 DEF Chosen
<1>3. Nothing \in Given
  BY ClickFields DEF Nothing, Clicks
<1>4. \A trust \in Trust : OrNone(sample_questions(trust)) \subseteq OrNone(Samples)
  BY DEF OrNone, sample_questions, Samples
<1>5. CASE SelectTrust
  <2>1. PICK trust \in Trust : \E sample \in {None} \cup ({widgets.sample} \cap sample_questions(trust)) :
          Gesture(Nothing, [widgets EXCEPT !.trust = trust, !.sample = sample])
    BY <1>5, Zenon DEF SelectTrust, Trust
  <2>2. PICK sample \in {None} \cup ({widgets.sample} \cap sample_questions(trust)) :
          Gesture(Nothing, [widgets EXCEPT !.trust = trust, !.sample = sample])
    BY <2>1
  <2> DEFINE changed == [widgets EXCEPT !.trust = trust, !.sample = sample]
  <2>3. sample \in OrNone(sample_questions(trust)) /\ sample \in {None, widgets.sample}
    BY DEF OrNone
  <2>4. changed = [trust |-> trust, sample |-> sample, choice |-> widgets.choice]
    <3> DEFINE half == [widgets EXCEPT !.trust = trust]
    <3>1. half = [trust |-> trust, sample |-> widgets.sample, choice |-> widgets.choice]
      BY <1>1
    <3>2. changed = [half EXCEPT !.sample = sample]
      OBVIOUS
    <3> HIDE DEF half, changed
    <3> QED BY <3>1, <3>2
  <2> HIDE DEF changed
  <2>5. Chosen(changed)
    BY <1>1, <1>4, <2>3, <2>4 DEF Chosen
  <2> QED BY <1>3, <2>2, <2>5, GestureStep DEF changed
<1>6. CASE SelectSample
  <2>1. PICK sample \in ({None} \cup sample_questions(widgets.trust)) \ {widgets.sample} :
          Gesture(Nothing, [widgets EXCEPT !.sample = sample, !.choice = gestures + 1])
    BY <1>6 DEF SelectSample
  <2> DEFINE changed == [widgets EXCEPT !.sample = sample, !.choice = gestures + 1]
  <2>2. changed = [trust |-> widgets.trust, sample |-> sample, choice |-> gestures + 1]
    <3> DEFINE half == [widgets EXCEPT !.sample = sample]
    <3>1. half = [trust |-> widgets.trust, sample |-> sample, choice |-> widgets.choice]
      BY <1>1
    <3>2. changed = [half EXCEPT !.choice = gestures + 1]
      OBVIOUS
    <3> HIDE DEF half, changed
    <3> QED BY <3>1, <3>2
  <2>3. sample \in OrNone(sample_questions(widgets.trust)) /\ widgets.trust \in Trust
    BY <1>1 DEF OrNone
  <2> HIDE DEF changed
  <2>4. Chosen(changed)
    BY <1>1, <1>4, <2>2, <2>3 DEF Chosen
  <2> QED BY <1>3, <2>1, <2>4, GestureStep DEF changed
<1>7. CASE Type
  <2>1. gestures + 1 \in 1..MaxGestures
    BY <1>1, <1>7 DEF Type, Gesture
  <2>2. [Click("prompt") EXCEPT !.typed = gestures + 1] \in Given
    BY <2>1, ClickFields DEF Given, Clicks, OrNone
  <2> QED BY <1>2, <1>7, <2>2, GestureStep DEF Type
<1>8. CASE ClickNewChat
  BY <1>2, <1>8, GestureStep, ClickFields DEF ClickNewChat, Clicks
<1>9. CASE ClickOperators
  BY <1>2, <1>9, GestureStep, ClickFields DEF ClickOperators, Clicks
<1>10. CASE ClickClose
  BY <1>2, <1>10, GestureStep, ClickFields DEF ClickClose, Clicks
<1>11. CASE ClickCard
  <2>1. PICK i \in DOMAIN messages :
          Gesture([Click("card") EXCEPT !.card = messages[i].card], widgets)
    BY <1>11 DEF ClickCard
  <2>2. messages[i] \in Message_
    BY LenProperties, ElementOfSeq DEF IInv, Types
  <2>3. [Click("card") EXCEPT !.card = messages[i].card] \in Given
    BY <2>2, ClickFields DEF Given, Clicks, Message_
  <2> QED BY <1>2, <2>1, <2>3, GestureStep
<1> QED BY <1>5, <1>6, <1>7, <1>8, <1>9, <1>10, <1>11 DEF Gestures

-----------------------------------------------------------------------------
(***************************************************************************)
(* Steps of the script.                                                    *)
(***************************************************************************)
LEMMA SidebarStep == IInv /\ Sidebar => IInv'
<1> SUFFICES ASSUME IInv, Sidebar PROVE IInv'
  OBVIOUS
<1>1. PICK at \in {"resetting", "analysing", "asking"} :
        /\ Goto(at)
        /\ at = "resetting" => script.given.click = "new_chat"
        /\ at = "analysing" => script.given.click = "operators"
  BY DEF Sidebar
<1>2. script.at = "top" /\ UNCHANGED <<widgets, gestures, session, turns, memory, submitted>>
  BY DEF Sidebar
<1>3. script' \in Script_ /\ script'.at = at /\ script'.step = 1
  BY <1>1, GotoFields DEF IInv, Types, Places
<1>4. Placed'
  BY <1>1, <1>2, <1>3 DEF IInv, Numbers, Placed, Sending, session
<1>5. Orders'
  BY <1>2, <1>3 DEF IInv, Orders, Resetting, Prompted, Recording, Noted, Sent, Sending, session
<1> QED BY <1>2, <1>3, <1>4, <1>5, ScriptAlone

LEMMA StopStep ==
  ASSUME IInv, script' = Idle, UNCHANGED <<widgets, gestures, session, turns, memory, submitted>>
  PROVE  IInv'
<1>1. Placed'
  BY IdleFields DEF Placed, Sending
<1>2. Orders'
  BY IdleFields DEF IInv, Orders, Resetting, Prompted, Recording, Noted, Sent, Sending, session
<1> QED BY <1>1, <1>2, IdleFields, ScriptAlone

LEMMA AnsweredStep == IInv /\ Answered => IInv'
<1> SUFFICES ASSUME IInv, Answered PROVE IInv'
  OBVIOUS
<1>1. PICK deep \in BOOLEAN : script' = [script EXCEPT !.at = "finishing", !.step = 1, !.deep = deep]
  BY DEF Answered
<1>2. script.at = "streaming" /\ UNCHANGED <<widgets, gestures, session, turns, memory, submitted>>
  BY DEF Answered
<1> DEFINE there == [script EXCEPT !.at = "finishing", !.step = 1]
<1>3. there \in Script_ /\ there.at = "finishing" /\ there.step = 1 /\ there.prompt = script.prompt
  <2> DEFINE here == [script EXCEPT !.at = "finishing"]
  <2>1. here \in Script_ /\ here.at = "finishing" /\ here.prompt = script.prompt
    BY DEF IInv, Types, Script_, Places
  <2>2. there = [here EXCEPT !.step = 1]
    OBVIOUS
  <2> HIDE DEF here, there
  <2> QED BY <2>1, <2>2 DEF Script_
<1>4. script' = [there EXCEPT !.deep = deep]
  BY <1>1
<1> HIDE DEF there
<1>5. script' \in Script_ /\ script'.at = "finishing" /\ script'.step = 1 /\ script'.prompt = script.prompt
  BY <1>3, <1>4 DEF Script_
<1>6. Placed'
  BY <1>2, <1>5 DEF IInv, Numbers, Placed, Sending
<1>7. Orders'
  BY <1>2, <1>5 DEF IInv, Orders, Resetting, Prompted, Recording, Noted, Sent, Sending, session
<1> QED BY <1>2, <1>5, <1>6, <1>7, ScriptAlone


\* New chat, slot by slot.
LEMMA ResetSlots ==
  ASSUME script.at = "resetting"
  PROVE  /\ Len(ResetOrder) = 6
         /\ script.step = 1 => New("thread")
         /\ script.step = 2 => New("messages")
         /\ script.step = 3 => New("artifacts")
         /\ script.step = 4 => New("open")
         /\ script.step = 5 => New("sample")
         /\ script.step = 6 => New("evidence")
         /\ script.step \in 1..6 =>
              /\ New("thread") => script.step = 1
              /\ New("messages") => script.step = 2
              /\ New("artifacts") => script.step = 3
              /\ New("open") => script.step = 4
              /\ New("sample") => script.step = 5
              /\ New("evidence") => script.step = 6
<1>1. Len(ResetOrder) = 6
  BY DEF ResetOrder
<1>2. /\ ResetOrder[1] = "thread" /\ ResetOrder[2] = "messages" /\ ResetOrder[3] = "artifacts"
      /\ ResetOrder[4] = "open" /\ ResetOrder[5] = "sample" /\ ResetOrder[6] = "evidence"
  BY DEF ResetOrder
<1>3. script.step \in 1..6 =>
        script.step = 1 \/ script.step = 2 \/ script.step = 3 \/ script.step = 4 \/ script.step = 5 \/ script.step = 6
  OBVIOUS
<1> QED BY <1>1, <1>2, <1>3 DEF New

LEMMA ResetStep == IInv /\ Reset => IInv'
<1> SUFFICES ASSUME IInv, Reset PROVE IInv'
  OBVIOUS
<1>1. script.at = "resetting" /\ script \in Script_ /\ script.step \in 1..6
  BY DEF Reset, IInv, Types, Numbers, Placed
<1>2. /\ UNCHANGED <<widgets, gestures, turns, memory, submitted>>
      /\ thread' = IF script.step = 1 THEN thread + 1 ELSE thread
      /\ messages' = IF script.step = 2 THEN <<>> ELSE messages
      /\ artifacts' = IF script.step = 3 THEN {} ELSE artifacts
      /\ open_artifact' = IF script.step = 4 THEN None ELSE open_artifact
      /\ _last_sample' = IF script.step = 5 THEN None ELSE _last_sample
      /\ last_evidence' = IF script.step = 6 THEN None ELSE last_evidence
  BY <1>1, ResetSlots, Zenon DEF Reset
<1>3. /\ script' \in Script_
      /\ script'.at \in {"top", "resetting"}
      /\ script'.at = "top" => script.step = 6 /\ script'.given.click = "nothing"
      /\ script'.at = "resetting" => script.step < 6 /\ script'.step = script.step + 1
  <2>1. IF script.step = 6 THEN Rerun ELSE script' = [script EXCEPT !.step = @ + 1]
    <3>1. IF script.step = Len(ResetOrder) THEN Rerun ELSE script' = [script EXCEPT !.step = @ + 1]
      BY DEF Reset
    <3> QED BY <1>1, <3>1, ResetSlots
  <2>2. CASE script.step = 6
    BY <1>1, <2>1, <2>2, RerunFields
  <2>3. CASE script.step # 6
    <3>1. script.step < 6 /\ script' = [script EXCEPT !.step = @ + 1]
      BY <1>1, <2>1, <2>3
    <3> QED BY <1>1, <3>1, StepFields
  <2> QED BY <2>2, <2>3
<1>4. /\ \A said \in memory : said.thread # thread'
      /\ \A s \in submitted : s.thread # thread'
  <2>1. CASE script.step = 1
    BY <1>2, <2>1 DEF IInv, Types, Numbers, Numbered
  <2>2. CASE script.step # 1
    BY <1>1, <1>2, <2>2 DEF IInv, Orders, Resetting
  <2> QED BY <2>1, <2>2
<1>5. script.step > 2 => messages = <<>>
  BY <1>1 DEF IInv, Orders, Resetting
<1>6. <<>> \in Seq(Message_) /\ DOMAIN <<>> = {}
  BY EmptySeq
<1>7. Types'
  BY <1>2, <1>3, <1>6 DEF IInv, Types, OrNone
<1>8. Numbered'
  <2>1. thread' <= gestures + 1 /\ thread <= thread'
    BY <1>1, <1>2 DEF IInv, Types, Numbers, Numbered, Placed
  <2>2. \A i \in DOMAIN messages' : messages'[i].turn <= turns
    BY <1>2, <1>6 DEF IInv, Numbers, Numbered
  <2>3. \A said \in memory : said.thread <= thread'
    BY <2>1, <1>2 DEF IInv, Types, Numbers, Numbered
  <2>4. \A s \in submitted : s.choice <= widgets.choice /\ s.thread <= thread'
    BY <2>1, <1>2 DEF IInv, Types, Numbers, Numbered
  <2> QED BY <1>2, <2>1, <2>2, <2>3, <2>4 DEF IInv, Numbers, Numbered
<1>9. Placed'
  BY <1>1, <1>3 DEF Placed, Sending
<1>10. Resetting'
  <2>1. script.step > 1 => messages' = <<>>
    BY <1>1, <1>2, <1>5
  <2> QED BY <1>1, <1>2, <1>3, <1>4, <2>1 DEF Resetting
<1>11. Noted'
  BY <1>2, <1>3, <1>4 DEF Noted, Sent
<1>12. Prompted' /\ Recording'
  BY <1>3 DEF Prompted, Recording, Sending
<1>13. Promises'
  <2>1. NothingRememberedUnshown' /\ SampleOncePerThread'
    BY <1>2, <1>4 DEF IInv, Promises, NothingRememberedUnshown, SampleOncePerThread
  <2>2. CASE messages' = <<>>
    BY <1>6, <2>1, <2>2 DEF Promises, CardsResolve, AnswerHasItsEvidence
  <2>3. CASE messages' # <<>>
    <3>1. messages' = messages /\ artifacts' = artifacts /\ last_evidence' = last_evidence
      BY <1>1, <1>2, <1>5, <2>3
    <3> QED BY <2>1, <3>1 DEF IInv, Promises, CardsResolve, AnswerHasItsEvidence
  <2> QED BY <2>2, <2>3
<1> QED BY <1>7, <1>8, <1>9, <1>10, <1>11, <1>12, <1>13 DEF IInv, Numbers, Orders

\* Top hidden operators: the network is there before it is opened.
LEMMA OperatorsStep == IInv /\ Operators => IInv'
<1> SUFFICES ASSUME IInv, Operators PROVE IInv'
  OBVIOUS
<1> DEFINE network == <<"network", gestures>>
<1>1. /\ script.at = "analysing" /\ script \in Script_ /\ script.step \in 1..2
      /\ network \in Artifacts
  BY DEF Operators, IInv, Types, Numbers, Placed, Artifacts
<1>2. /\ UNCHANGED <<widgets, gestures, thread, messages, _last_sample, last_evidence,
                     turns, memory, submitted>>
      /\ IF script.step = 1
         THEN /\ artifacts' = artifacts \cup {network}
              /\ script' = [script EXCEPT !.step = 2]
              /\ UNCHANGED open_artifact
         ELSE open_artifact' = network /\ Rerun /\ UNCHANGED artifacts
  BY DEF Operators
<1> HIDE DEF network
<1>3. /\ script' \in Script_
      /\ script'.at \in {"top", "analysing"}
      /\ script'.at = "top" => script'.given.click = "nothing"
      /\ script'.at = "analysing" => script'.step = 2
  <2>1. CASE script.step = 1
    BY <1>1, <1>2, <2>1 DEF Script_
  <2>2. CASE script.step # 1
    BY <1>1, <1>2, <2>2, RerunFields
  <2> QED BY <2>1, <2>2
<1>4. artifacts \subseteq artifacts' /\ artifacts' \subseteq artifacts \cup {network}
      /\ open_artifact' \in {open_artifact, network}
  BY <1>2
<1>5. Types'
  BY <1>1, <1>2, <1>3, <1>4 DEF IInv, Types, OrNone
<1>6. Numbered'
  BY <1>2 DEF IInv, Numbers, Numbered
<1>7. Placed'
  BY <1>1, <1>2, <1>3 DEF IInv, Numbers, Placed, Sending
<1>8. Orders'
  BY <1>2, <1>3 DEF IInv, Orders, Resetting, Prompted, Recording, Noted, Sent, Sending
<1>9. Promises'
  BY <1>2, <1>4 DEF IInv, Promises, NothingRememberedUnshown, CardsResolve, AnswerHasItsEvidence,
                   SampleOncePerThread
<1> QED BY <1>5, <1>6, <1>7, <1>8, <1>9 DEF IInv, Numbers


\* The prompt of the run: a sample only when this choice was not sent.
LEMMA AskStep == IInv /\ Ask => IInv'
<1> SUFFICES ASSUME IInv, Ask PROVE IInv'
  OBVIOUS
<1>1. PICK pending \in {None, widgets.sample} :
        /\ pending = IF script.given.typed = None THEN _pending_sample ELSE None
        /\ _last_sample' = Recorded(pending)
        /\ script' = [script EXCEPT !.at = "showing",
                        !.prompt = IF pending = None THEN script.given.typed ELSE pending]
  BY DEF Ask, _pending_sample
<1>2. script.at = "asking"
      /\ UNCHANGED <<widgets, gestures, thread, messages, artifacts, open_artifact,
                     last_evidence, turns, memory, submitted>>
  BY DEF Ask
<1> DEFINE prompt == IF pending = None THEN script.given.typed ELSE pending
<1>3. /\ script \in Script_ /\ script.given.typed \in OrNone(1..MaxGestures)
      /\ widgets.sample \in OrNone(Samples)
  BY DEF IInv, Types, Script_, Given
<1>4. /\ prompt \in OrNone(Prompts) /\ pending \in OrNone(Samples)
      /\ prompt \in Samples => pending = prompt
  BY <1>1, <1>3, Constants DEF OrNone, Prompts
<1>5. script' \in Script_ /\ script'.at = "showing" /\ script'.prompt = prompt
  <2> DEFINE here == [script EXCEPT !.at = "showing"]
  <2>1. here \in Script_ /\ here.at = "showing"
    BY <1>3 DEF Script_, Places
  <2>2. script' = [here EXCEPT !.prompt = prompt]
    BY <1>1
  <2> HIDE DEF here, prompt
  <2> QED BY <1>4, <2>1, <2>2 DEF Script_
<1> HIDE DEF prompt
<1>6. Types'
  BY <1>1, <1>2, <1>4, <1>5 DEF IInv, Types, Recorded, OrNone
<1>7. Numbers'
  BY <1>2, <1>5 DEF IInv, Numbers, Numbered, Placed, Sending
<1>8. Noted'
  <2>1. CASE pending = None
    <3>1. _last_sample' = _last_sample /\ script'.prompt \notin Samples
      BY <1>1, <1>4, <1>5, <2>1, Constants DEF Recorded
    <3> QED BY <1>2, <3>1 DEF IInv, Orders, Noted, Sent
  <2>2. CASE pending # None
    <3>1. /\ pending = widgets.sample /\ widgets.sample # _last_sample /\ _last_sample' = pending
      BY <1>1, <2>2 DEF _pending_sample, Recorded
    <3>2. ~Sent
      BY <2>2, <3>1 DEF IInv, Orders, Noted
    <3>3. ~Sent'
      BY <1>2, <3>2 DEF Sent
    <3>4. script'.prompt \in Samples => script'.prompt = pending
      BY <1>4, <1>5
    <3> QED BY <1>2, <3>1, <3>3, <3>4 DEF Noted
  <2> QED BY <2>1, <2>2
<1>9. Orders'
  BY <1>2, <1>5, <1>8 DEF Orders, Resetting, Prompted, Recording, Sending
<1>10. Promises'
  BY <1>2 DEF IInv, Promises, NothingRememberedUnshown, CardsResolve, AnswerHasItsEvidence,
              SampleOncePerThread
<1> QED BY <1>6, <1>7, <1>9, <1>10 DEF IInv

\* A card or the close button: only the panel changes, and the script starts over.
LEMMA PanelStep ==
  ASSUME IInv, Rerun \/ script' = Idle, open_artifact' \in OrNone(Artifacts),
         UNCHANGED <<widgets, gestures, thread, messages, artifacts, _last_sample,
                     last_evidence, turns, memory, submitted>>
  PROVE  IInv'
<1>1. script' \in Script_ /\ script'.at \in {"top", "idle"}
      /\ (script'.at = "top" => script'.given.click = "nothing")
  BY RerunFields, IdleFields DEF IInv, Types
<1>2. Types'
  BY <1>1 DEF IInv, Types
<1>3. Numbers'
  BY <1>1 DEF IInv, Numbers, Numbered, Placed, Sending
<1>4. Orders'
  BY <1>1 DEF IInv, Orders, Resetting, Prompted, Recording, Noted, Sent, Sending
<1>5. Promises'
  BY DEF IInv, Promises, NothingRememberedUnshown, CardsResolve, AnswerHasItsEvidence,
         SampleOncePerThread
<1> QED BY <1>2, <1>3, <1>4, <1>5 DEF IInv

\* The prompt joins the transcript.
LEMMA SubmitStep == IInv /\ Submit => IInv'
<1> SUFFICES ASSUME IInv, Submit PROVE IInv'
  OBVIOUS
<1> DEFINE m == Message(User, script.prompt, None)
<1>1. /\ script.at = "showing" /\ script.prompt # None /\ script \in Script_
      /\ messages' = Append(messages, m) /\ Goto("clearing")
      /\ UNCHANGED <<widgets, gestures, thread, artifacts, open_artifact, _last_sample,
                     last_evidence, turns, memory, submitted>>
  BY DEF Submit, IInv, Types
<1>2. script.prompt \in Prompts
  BY <1>1 DEF Script_, OrNone
<1>3. m \in Message_ /\ m.turn = 0 /\ m.prompt = script.prompt /\ m.card = None
  BY <1>2 DEF Message, Message_, User, OrNone
<1> HIDE DEF m
<1>4. /\ messages' \in Seq(Message_) /\ messages' # <<>>
      /\ Len(messages) \in Nat /\ Len(messages') = Len(messages) + 1
      /\ DOMAIN messages = 1..Len(messages) /\ DOMAIN messages' = 1..(Len(messages) + 1)
      /\ \A i \in 1..Len(messages) : messages'[i] = messages[i]
      /\ messages'[Len(messages')] = m
  BY <1>1, <1>3, Grown DEF IInv, Types
<1>5. script' \in Script_ /\ script'.at = "clearing" /\ script'.prompt = script.prompt
  BY <1>1, GotoFields DEF Places
<1>6. Types'
  BY <1>1, <1>4, <1>5 DEF IInv, Types
<1>7. \A i \in DOMAIN messages' : messages'[i] = m \/ (i \in DOMAIN messages /\ messages'[i] = messages[i])
  BY <1>4
<1>8. Numbered'
  <2>1. m.turn <= turns
    BY <1>3 DEF IInv, Types
  <2> QED BY <1>1, <1>7, <2>1 DEF IInv, Numbers, Numbered
<1>9. Placed'
  BY <1>2, <1>5 DEF Placed, Sending
<1>10. Prompted'
  BY <1>3, <1>4, <1>5 DEF Prompted, User
<1>11. Noted'
  BY <1>1, <1>5 DEF IInv, Orders, Noted, Sent
<1>12. Resetting' /\ Recording'
  BY <1>5 DEF Resetting, Recording
<1>13. Promises'
  <2>1. NothingRememberedUnshown'
    <3>1. \A i \in DOMAIN messages : i \in DOMAIN messages' /\ messages'[i] = messages[i]
      BY <1>4
    <3> QED BY <1>1, <3>1 DEF IInv, Promises, NothingRememberedUnshown
  <2>2. CardsResolve'
    BY <1>1, <1>3, <1>7 DEF IInv, Promises, CardsResolve
  <2>3. AnswerHasItsEvidence'
    BY <1>3, <1>4 DEF AnswerHasItsEvidence, User
  <2>4. SampleOncePerThread'
    BY <1>1 DEF IInv, Promises, SampleOncePerThread
  <2> QED BY <2>1, <2>2, <2>3, <2>4 DEF Promises
<1> QED BY <1>6, <1>8, <1>9, <1>10, <1>11, <1>12, <1>13 DEF IInv, Numbers, Orders

LEMMA ClearEvidenceStep == IInv /\ ClearEvidence => IInv'
<1> SUFFICES ASSUME IInv, ClearEvidence PROVE IInv'
  OBVIOUS
<1>1. /\ script.at = "clearing" /\ script \in Script_ /\ last_evidence' = None /\ Goto("sending")
      /\ UNCHANGED <<widgets, gestures, thread, messages, artifacts, open_artifact,
                     _last_sample, turns, memory, submitted>>
  BY DEF ClearEvidence, IInv, Types
<1>2. script' \in Script_ /\ script'.at = "sending" /\ script'.prompt = script.prompt
  BY <1>1, GotoFields DEF Places
<1>3. Types'
  BY <1>1, <1>2 DEF IInv, Types, OrNone
<1>4. Numbers'
  BY <1>1, <1>2 DEF IInv, Numbers, Numbered, Placed, Sending
<1>5. Orders'
  BY <1>1, <1>2 DEF IInv, Orders, Resetting, Prompted, Recording, Noted, Sent, Sending
<1>6. AnswerHasItsEvidence'
  BY <1>1 DEF IInv, Orders, Prompted, Sending, AnswerHasItsEvidence
<1>7. Promises'
  BY <1>1, <1>6 DEF IInv, Promises, NothingRememberedUnshown, CardsResolve, SampleOncePerThread
<1> QED BY <1>3, <1>4, <1>5, <1>7 DEF IInv


\* The agent is told the prompt that stands in the transcript.
LEMMA SendStep == IInv /\ Send => IInv'
<1> SUFFICES ASSUME IInv, Send PROVE IInv'
  OBVIOUS
<1> DEFINE told == [thread |-> thread, prompt |-> script.prompt, trust |-> script.trust]
           sent == [sample |-> script.prompt, choice |-> widgets.choice,
                    thread |-> thread, turn |-> turns + 1]
<1>1. /\ script.at = "sending" /\ script \in Script_ /\ script.prompt \in Prompts
      /\ turns' = turns + 1 /\ turns \in Nat
      /\ memory' = memory \cup {told} /\ Goto("streaming")
      /\ UNCHANGED <<widgets, gestures, session>>
  BY DEF Send, IInv, Types, Numbers, Placed, Sending
<1>2. submitted' = IF script.prompt \in Samples THEN submitted \cup {sent} ELSE submitted
  BY DEF Send, Samples
<1>3. script' \in Script_ /\ script'.at = "streaming" /\ script'.prompt = script.prompt
  BY <1>1, GotoFields DEF Places
<1>4. /\ told \in [thread : Nat \ {0}, prompt : Prompts, trust : Trust]
      /\ told.thread = thread /\ told.prompt = script.prompt
  BY <1>1 DEF IInv, Types, Script_
<1>5. /\ script.prompt \in Samples => sent \in [sample : Samples, choice : Nat, thread : Nat, turn : Nat]
      /\ sent.choice = widgets.choice /\ sent.thread = thread
  BY <1>1 DEF IInv, Types
<1> HIDE DEF told, sent
<1>6. Types'
  BY <1>1, <1>2, <1>3, <1>4, <1>5 DEF IInv, Types, session, OrNone
<1>7. Numbered'
  <2>1. \A i \in DOMAIN messages : messages[i].turn <= turns'
    <3>1. ASSUME NEW i \in DOMAIN messages PROVE messages[i].turn \in Nat
      <4>1. messages[i] \in Message_
        BY LenProperties, ElementOfSeq DEF IInv, Types
      <4> QED BY <4>1 DEF Message_
    <3> QED BY <1>1, <3>1 DEF IInv, Numbers, Numbered
  <2>2. thread \in Nat /\ widgets.choice \in Nat
    BY DEF IInv, Types
  <2> QED BY <1>1, <1>2, <1>4, <1>5, <2>1, <2>2 DEF IInv, Numbers, Numbered, session
<1>8. Placed'
  BY <1>1, <1>3 DEF Placed
<1>9. Noted'
  <2>1. CASE script.prompt \in Samples
    BY <1>1, <1>3, <2>1 DEF IInv, Orders, Noted, session
  <2>2. CASE script.prompt \notin Samples
    BY <1>1, <1>2, <1>3, <2>2 DEF IInv, Orders, Noted, Sent, session
  <2> QED BY <2>1, <2>2
<1>10. Resetting' /\ Prompted' /\ Recording'
  BY <1>1, <1>3 DEF IInv, Orders, Resetting, Prompted, Recording, Sending, session
<1>11. Promises'
  <2>1. NothingRememberedUnshown'
    <3>1. /\ Len(messages) \in DOMAIN messages /\ messages[Len(messages)].turn = User
          /\ messages[Len(messages)].prompt = script.prompt
      BY <1>1, EmptySeq, LenProperties DEF IInv, Types, Orders, Prompted, Sending
    <3> QED BY <1>1, <1>4, <3>1 DEF IInv, Promises, NothingRememberedUnshown, session
  <2>2. SampleOncePerThread'
    <3>1. CASE script.prompt \in Samples
      <4>1. \A s \in submitted : ~(s.choice = widgets.choice /\ s.thread = thread)
        BY <1>1, <3>1 DEF IInv, Orders, Noted, Sent
      <4> QED BY <1>2, <1>5, <3>1, <4>1 DEF IInv, Promises, SampleOncePerThread
    <3>2. CASE script.prompt \notin Samples
      BY <1>2, <3>2 DEF IInv, Promises, SampleOncePerThread
    <3> QED BY <3>1, <3>2
  <2>3. CardsResolve' /\ AnswerHasItsEvidence'
    BY <1>1 DEF IInv, Promises, CardsResolve, AnswerHasItsEvidence, session
  <2> QED BY <2>1, <2>2, <2>3 DEF Promises
<1> QED BY <1>6, <1>7, <1>8, <1>9, <1>10, <1>11 DEF IInv, Numbers, Orders

\* Recording an answer, slot by slot.
LEMMA FinishSlots ==
  ASSUME script.step \in 1..4
  PROVE  /\ Len(FinishOrder) = 4
         /\ Kept("evidence") <=> script.step = 1
         /\ Kept("artifacts") <=> script.step = 2
         /\ Kept("open") <=> script.step = 3
         /\ Kept("messages") <=> script.step = 4
<1>1. Len(FinishOrder) = 4
  BY DEF FinishOrder
<1>2. /\ FinishOrder[1] = "evidence" /\ FinishOrder[2] = "artifacts"
      /\ FinishOrder[3] = "open" /\ FinishOrder[4] = "messages"
  BY DEF FinishOrder
<1>3. script.step = 1 \/ script.step = 2 \/ script.step = 3 \/ script.step = 4
  OBVIOUS
<1> QED BY <1>1, <1>2, <1>3 DEF Kept

LEMMA FinishStep == IInv /\ Finish => IInv'
<1> SUFFICES ASSUME IInv, Finish PROVE IInv'
  OBVIOUS
<1> DEFINE m == Message(turns, script.prompt, IF script.deep THEN Report ELSE None)
<1>1. /\ script.at = "finishing" /\ script \in Script_ /\ script.step \in 1..4
      /\ script.prompt \in Prompts /\ turns > 0 /\ turns \in Nat /\ script.deep \in BOOLEAN
  BY DEF Finish, IInv, Types, Numbers, Placed, Sending, Script_
<1>2. /\ UNCHANGED <<widgets, gestures, thread, _last_sample, turns, memory, submitted>>
      /\ last_evidence' = IF script.step = 1 THEN turns ELSE last_evidence
      /\ artifacts' = IF script.step = 2 /\ script.deep THEN artifacts \cup {Report} ELSE artifacts
      /\ open_artifact' = IF script.step = 3 /\ script.deep THEN Report ELSE open_artifact
      /\ messages' = IF script.step = 4 THEN Append(messages, m) ELSE messages
  BY <1>1, FinishSlots DEF Finish
<1>3. Report \in Artifacts /\ Report[3] = script.prompt
  BY <1>1 DEF Report, Artifacts
<1>4. /\ m \in Message_ /\ m.turn = turns /\ m.prompt = script.prompt
      /\ m.card = IF script.deep THEN Report ELSE None
  BY <1>1, <1>3 DEF Message, Message_, OrNone
<1>5. /\ script' \in Script_ /\ script'.at \in {"finishing", "top", "idle"}
      /\ script'.at = "finishing" =>
           /\ script.step < 4 /\ script'.step = script.step + 1
           /\ script'.prompt = script.prompt /\ script'.deep = script.deep
      /\ script'.at = "top" => script'.given.click = "nothing"
      /\ script.step = 4 => script'.at # "finishing"
  <2>1. IF script.step < 4 THEN script' = [script EXCEPT !.step = @ + 1]
        ELSE script' = Run(Nothing, script.trust) \/ script' = Idle
    <3>1. script' = IF script.step < Len(FinishOrder) THEN [script EXCEPT !.step = @ + 1]
                    ELSE IF open_artifact' # None THEN Run(Nothing, script.trust) ELSE Idle
      BY DEF Finish
    <3> QED BY <1>1, <3>1, FinishSlots
  <2>2. CASE script.step < 4
    BY <1>1, <2>1, <2>2, StepFields
  <2>3. CASE script.step = 4
    <3>1. CASE script' = Idle
      BY <3>1, <2>3, IdleFields
    <3>2. CASE script' = Run(Nothing, script.trust)
      BY <1>1, <3>2, <2>3, RerunFields DEF Rerun
    <3> QED BY <2>1, <2>3, <3>1, <3>2
  <2> QED BY <1>1, <2>2, <2>3
<1> HIDE DEF m
<1>6. ASSUME script.step = 4
      PROVE  /\ messages' \in Seq(Message_) /\ messages' # <<>>
             /\ Len(messages) \in Nat /\ Len(messages') = Len(messages) + 1
             /\ DOMAIN messages = 1..Len(messages) /\ DOMAIN messages' = 1..(Len(messages) + 1)
             /\ \A i \in 1..Len(messages) : messages'[i] = messages[i]
             /\ messages'[Len(messages')] = m
  BY <1>2, <1>4, <1>6, Grown DEF IInv, Types
<1>7. \A i \in DOMAIN messages' :
        (script.step = 4 /\ messages'[i] = m) \/ (i \in DOMAIN messages /\ messages'[i] = messages[i])
  BY <1>2, <1>6
<1>8. /\ artifacts \subseteq artifacts' /\ artifacts' \subseteq artifacts \cup {Report}
      /\ open_artifact' \in {open_artifact, Report}
  BY <1>2
<1>9. Types'
  <2>1. messages' \in Seq(Message_)
    BY <1>2, <1>6 DEF IInv, Types
  <2>2. last_evidence' \in OrNone(1..turns)
    BY <1>1, <1>2 DEF IInv, Types, OrNone
  <2> QED BY <1>2, <1>3, <1>5, <1>8, <2>1, <2>2 DEF IInv, Types, OrNone
<1>10. Numbered'
  BY <1>1, <1>2, <1>4, <1>7 DEF IInv, Numbers, Numbered
<1>11. Placed'
  BY <1>1, <1>2, <1>5 DEF Placed, Sending
<1>12. Prompted'
  BY <1>2, <1>5, <1>1 DEF IInv, Orders, Prompted, Sending
<1>13. Recording'
  <2>1. script'.at = "finishing" => Report' = Report
    BY <1>2, <1>5 DEF Report
  <2> QED BY <1>1, <1>2, <1>5, <2>1 DEF IInv, Orders, Recording
<1>14. Noted' /\ Resetting'
  BY <1>2, <1>5 DEF IInv, Orders, Noted, Sent, Resetting
<1>15. Promises'
  <2>1. NothingRememberedUnshown'
    <3>1. \A i \in DOMAIN messages : i \in DOMAIN messages' /\ messages'[i] = messages[i]
      BY <1>2, <1>6
    <3> QED BY <1>2, <3>1 DEF IInv, Promises, NothingRememberedUnshown
  <2>2. CardsResolve'
    <3>1. script.step = 4 /\ script.deep => Report \in artifacts
      BY <1>1 DEF IInv, Orders, Recording
    <3> QED BY <1>3, <1>4, <1>7, <1>8, <3>1 DEF IInv, Promises, CardsResolve
  <2>3. AnswerHasItsEvidence'
    <3>1. CASE script.step = 4
      BY <1>1, <1>2, <1>4, <1>6, <3>1 DEF IInv, Orders, Recording, AnswerHasItsEvidence
    <3>2. CASE script.step # 4
      BY <1>1, <1>2, <3>2 DEF IInv, Orders, Prompted, Sending, AnswerHasItsEvidence
    <3> QED BY <3>1, <3>2
  <2>4. SampleOncePerThread'
    BY <1>2 DEF IInv, Promises, SampleOncePerThread
  <2> QED BY <2>1, <2>2, <2>3, <2>4 DEF Promises
<1> QED BY <1>9, <1>10, <1>11, <1>12, <1>13, <1>14, <1>15 DEF IInv, Numbers, Orders

-----------------------------------------------------------------------------
LEMMA Step == IInv /\ [Next]_vars => IInv'
<1> SUFFICES ASSUME IInv, [Next]_vars PROVE IInv'
  OBVIOUS
<1>1. CASE AnalysisFails \/ AgentRaises
  BY <1>1, StopStep DEF AnalysisFails, AgentRaises
<1>2. CASE OpenCard
  <2>1. script.given.card \in OrNone(Artifacts)
    BY DEF IInv, Types, Script_, Given
  <2> QED BY <1>2, <2>1, PanelStep DEF OpenCard
<1>3. CASE Display
  <2>1. /\ Rerun \/ script' = Idle
        /\ open_artifact' \in {open_artifact, None}
        /\ UNCHANGED <<widgets, gestures, thread, messages, artifacts, _last_sample,
                       last_evidence, turns, memory, submitted>>
    BY <1>3 DEF Display
  <2>2. open_artifact' \in OrNone(Artifacts)
    BY <2>1 DEF IInv, Types, OrNone
  <2> QED BY <2>1, <2>2, PanelStep
<1>4. CASE UNCHANGED vars
  <2>1. Types' /\ Numbers'
    BY <1>4 DEF vars, session, IInv, Types, Numbers, Numbered, Placed
  <2>2. Orders' /\ Promises'
    BY <1>4 DEF vars, session, IInv, Orders, Resetting, Prompted, Recording, Report, Noted, Sent,
         Promises, NothingRememberedUnshown, CardsResolve, AnswerHasItsEvidence, SampleOncePerThread
  <2> QED BY <2>1, <2>2 DEF IInv
<1> QED
  BY <1>1, <1>2, <1>3, <1>4, GesturesStep, SidebarStep, ResetStep, OperatorsStep, AskStep, SubmitStep,
     ClearEvidenceStep, SendStep, AnsweredStep, FinishStep DEF Next, Script

LEMMA Invariance == Spec => []IInv
BY Initially, Step, PTL DEF Spec

\* The session holds what the widgets can offer and the turns produced, for any
\* samples and any number of gestures.
THEOREM TypesHold == Spec => []TypeOK
<1>1. ASSUME IInv PROVE TypeOK
  <2>1. widgets.trust \in {"public", "vetted"} /\ gestures \in 0..MaxGestures
        /\ script.at \in Places /\ script.prompt \in OrNone(Prompts)
    BY <1>1 DEF IInv, Types, Trust, Script_
  <2>2. thread \in 1..(MaxGestures + 1)
    BY <1>1, Constants DEF IInv, Types, Numbers, Numbered
  <2>3. ASSUME NEW i \in DOMAIN messages
        PROVE  /\ messages[i].turn \in 0..turns /\ messages[i].prompt \in Prompts
               /\ messages[i].card \in OrNone(Artifacts)
    <3>1. messages[i] \in Message_
      BY <1>1, LenProperties, ElementOfSeq DEF IInv, Types
    <3>2. messages[i].turn <= turns /\ turns \in Nat
      BY <1>1 DEF IInv, Types, Numbers, Numbered
    <3> QED BY <3>1, <3>2 DEF Message_
  <2>4. \A said \in memory : said.thread \in 1..thread /\ said.prompt \in Prompts
    BY <1>1 DEF IInv, Types, Numbers, Numbered
  <2> QED BY <1>1, <2>1, <2>2, <2>3, <2>4 DEF IInv, Types, TypeOK
<1> QED BY <1>1, Invariance, PTL

\* What the agent remembers of the current thread stands in the transcript,
\* wherever a gesture cut a turn or New chat short.
THEOREM TranscriptIsWhole == Spec => []NothingRememberedUnshown
<1>1. IInv => NothingRememberedUnshown
  BY DEF IInv, Promises
<1> QED BY <1>1, Invariance, PTL

\* A card never outlives its report, nor stands under another prompt's.
THEOREM CardsOpen == Spec => []CardsResolve
<1>1. IInv => CardsResolve
  BY DEF IInv, Promises
<1> QED BY <1>1, Invariance, PTL

\* Cost and evidence under an answer are that answer's.
THEOREM EvidenceOfLastAnswer == Spec => []AnswerHasItsEvidence
<1>1. IInv => AnswerHasItsEvidence
  BY DEF IInv, Promises
<1> QED BY <1>1, Invariance, PTL

\* A choice of a sample reaches a thread at most once, whatever reruns it sees.
THEOREM ChoiceSentOnce == Spec => []SampleOncePerThread
<1>1. IInv => SampleOncePerThread
  BY DEF IInv, Promises
<1> QED BY <1>1, Invariance, PTL

=============================================================================
