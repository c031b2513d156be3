------------------------- MODULE TurnStream_proofs -------------------------
(***************************************************************************)
(* For every library of tools and every bound: a turn as the page follows  *)
(* it is a turn of the agent, so what is proved of the gate holds of it;   *)
(* and the answer's evidence, cost and panel are those of its own turn.    *)
(***************************************************************************)
EXTENDS TurnStream, AgentTurn_proofs

-----------------------------------------------------------------------------
(***************************************************************************)
(* The page only watches: each step is one of the agent, or leaves it.     *)
(***************************************************************************)
LEMMA StepRefines == [StreamNext]_<<vars, stream>> => [Next]_vars
<1> SUFFICES ASSUME [StreamNext]_<<vars, stream>> PROVE [Next]_vars
  OBVIOUS
<1>1. ASSUME NEW run \in Session, Begin(run) PROVE Next
  BY <1>1 DEF Begin, Next
<1>2. ASSUME NEW asked \in SUBSET Names, Speak(asked) PROVE Next
  BY <1>2 DEF Speak, Next
<1>3. ASSUME NEW name \in calls, Fails(name) PROVE Next
  BY <1>3 DEF Fails, Next
<1>4. ASSUME NEW name \in calls, NEW parts \in SUBSET Functions, Returns(name, parts) PROVE Next
  BY <1>4 DEF Returns, Next
<1>5. ASSUME NEW name \in calls, Dies(name) PROVE Next
  BY <1>5 DEF Dies, Next
<1>6. ASSUME SubAsks \/ (\E nested \in 0..1 : SubWorks(nested)) \/ SubConcludes \/ SubTruncated
      PROVE  UNCHANGED vars
  BY <1>6 DEF SubAsks, SubWorks, SubConcludes, SubTruncated, InnerStep
<1>7. CASE UNCHANGED <<vars, stream>>
  BY <1>7
<1> QED BY <1>1, <1>2, <1>3, <1>4, <1>5, <1>6, <1>7 DEF StreamNext

\* The stream of a turn implements the agent's turn: reading it, and the loop of
\* an investigation inside a call, change nothing the middleware sees.
THEOREM StreamImplementsTurn == StreamSpec => Spec
<1>1. StreamInit => Init
  BY DEF StreamInit
<1> QED BY <1>1, StepRefines, PTL DEF StreamSpec, Spec

-----------------------------------------------------------------------------
(***************************************************************************)
(* The inductive invariant, part by part.                                  *)
(***************************************************************************)
Result == [tool : Functions, form : Form, caveats : SUBSET DerivedElement]
Page == [results : SUBSET Result, usages : Nat, deep_usages : Nat, is_investigation : BOOLEAN]
Loop == [at : {"model", "tools", "over"}, calls : 0..StepLimit]
Made == [calls : 0..MaxModelCalls, deep : Nat, nested : Nat,
         asked : SUBSET Names, ran : SUBSET tools]
USE DEF Page, Loop, Made

Typed ==
  /\ feed \in Page
  /\ sub \in Loop
  /\ made \in Made

\* Calls are outstanding in the tool phase only, and the model asked for them.
Outstanding ==
  /\ phase # "tools" => calls = {}
  /\ calls \subseteq made.asked
  /\ phase = "tools" => made.calls > 0

\* An investigation under way is an outstanding call, unless the turn raised.
Settled == sub # Idle /\ sub.at # "over" => Investigating \/ phase = "idle"

\* What an investigation spent so far reaches the page when it is over.
Unpriced == IF sub.at = "over" THEN 0 ELSE sub.calls
Counted ==
  /\ feed.usages = made.calls
  /\ made.deep = made.nested + feed.deep_usages + Unpriced

\* A model message calls for one investigation, and that has a step limit.
Reserved == IF sub.at = "over" THEN 0 ELSE StepLimit
Bounded ==
  /\ made.calls = 0 => feed.deep_usages = 0 /\ sub = Idle
  /\ made.calls > 0 => feed.deep_usages + Reserved <= made.calls * StepLimit

\* What was heard is what ran, each with the caveats of its declaration.
Heard ==
  /\ \A r \in feed.results :
       r.tool \in made.ran /\ r.caveats = Caveats(Declared[r.tool]) /\ (r.form = "long" => r.tool = Deep)
  /\ \A f \in made.ran : \E r \in feed.results : r.tool = f

\* The panel is for turns that called the investigation.
Panelled ==
  /\ feed.is_investigation <=> Deep \in made.asked
  /\ made.ran \subseteq made.asked

\* An answer is what had been read when the turn ended.
Shown ==
  \/ answer = NoAnswer
  \/ phase = "idle" /\ sub = Idle /\ answer = Show(feed)

StreamInv == Typed /\ Outstanding /\ Settled /\ Counted /\ Bounded /\ Heard /\ Panelled /\ Shown

-----------------------------------------------------------------------------
\* What one result adds to the page.
LEMMA ReadOne ==
  ASSUME TypeOK, Imported, NEW name \in tools, NEW parts \in SUBSET Functions
  PROVE  /\ Read(name, Payloads(name, parts)) =
              {[tool |-> name, form |-> IF name = Deep THEN "long" ELSE "short",
                caveats |-> Caveats(Declared[name])]}
         /\ Caveats(Declared[name]) \subseteq DerivedElement
<1> DEFINE own == [function |-> name, tag |-> as_payload(Declared[name])]
<1>1. own \in Payloads(name, parts)
  BY DEF Payloads
<1>2. ASSUME NEW p \in Payloads(name, parts), p.function = name PROVE p = own
  <2>1. PICK g \in {name} \cup parts : p = [function |-> g, tag |-> as_payload(Declared[g])]
    BY <1>2 DEF Payloads
  <2> QED BY <1>2, <2>1
<1>3. own.function = name /\ own.tag.caveats = Caveats(Declared[name])
  BY DEF as_payload
<1> HIDE DEF own
<1>4. {p \in Payloads(name, parts) : p.function = name} = {own}
  BY <1>1, <1>2, <1>3
<1>5. Caveats(Declared[name]) \subseteq DerivedElement
  BY CaveatsOfImported DEF Imported
<1> QED BY <1>3, <1>4, <1>5 DEF Read

\* A refusal or an unknown tool adds nothing.
LEMMA ReadNone == ASSUME NEW name PROVE Read(name, {}) = {}
BY DEF Read

LEMMA Multiples ==
  ASSUME NEW n \in Nat, NEW s \in Nat
  PROVE  n * s \in Nat /\ (n + 1) * s = n * s + s
OBVIOUS

LEMMA InitStream == StreamInit => StreamInv
<1> SUFFICES ASSUME StreamInit PROVE StreamInv
  OBVIOUS
<1> USE StreamAssumption DEF StreamInit, Init, Fresh, Idle, Nothing
<1>1. Typed
  BY DEF Typed
<1>2. Outstanding /\ Settled /\ Heard /\ Panelled /\ Shown
  BY DEF Outstanding, Settled, Heard, Panelled, Shown
<1>3. Counted /\ Bounded
  BY DEF Counted, Bounded, Unpriced
<1> QED BY <1>1, <1>2, <1>3 DEF StreamInv

\* A new prompt: nothing is read, made or shown.
LEMMA BeginStep ==
  ASSUME StreamInv, NEW run \in Session, Begin(run)
  PROVE  StreamInv'
<1> USE StreamAssumption DEF StreamInv, Begin, StartTurn, Cleared, Fresh, Idle, Nothing
<1>1. Typed'
  BY DEF Typed
<1>2. (Outstanding /\ Settled /\ Heard /\ Panelled /\ Shown)'
  BY DEF Outstanding, Settled, Heard, Panelled, Shown
<1>3. (Counted /\ Bounded)'
  BY DEF Counted, Bounded, Unpriced
<1> QED BY <1>1, <1>2, <1>3

\* A model message: one more usage, and its calls are announced.
LEMMA SpeakStep ==
  ASSUME StreamInv, TypeOK, NEW asked \in SUBSET Names, Speak(asked)
  PROVE  StreamInv'
<1>1. /\ feed \in Page
      /\ made \in Made
  BY DEF StreamInv, Typed
<1>2. /\ phase = "model" /\ calls' = asked /\ tools' = tools /\ sub' = Idle
      /\ phase' = IF asked = {} THEN "idle" ELSE "tools"
      /\ made' = [made EXCEPT !.calls = @ + 1, !.asked = @ \cup asked]
      /\ feed' = [feed EXCEPT !.usages = @ + 1, !.is_investigation = @ \/ Announces(asked)]
      /\ answer' = IF asked = {} THEN Show(feed') ELSE answer
      /\ made.calls < MaxModelCalls
  BY DEF Speak, CallModel
<1>3. /\ made'.calls = made.calls + 1 /\ made'.asked = made.asked \cup asked
      /\ made'.deep = made.deep /\ made'.nested = made.nested /\ made'.ran = made.ran
      /\ feed'.usages = feed.usages + 1 /\ feed'.results = feed.results
      /\ feed'.deep_usages = feed.deep_usages
      /\ feed'.is_investigation = (feed.is_investigation \/ Deep \in asked)
  BY <1>1, <1>2, Zenon DEF Announces
<1>4. made.calls \in Nat /\ StepLimit \in Nat /\ MaxModelCalls \in Nat /\ feed.deep_usages \in Nat
  BY <1>1, StreamAssumption
<1>5. Typed'
  <2>1. sub' \in Loop
    BY <1>2, StreamAssumption DEF Idle
  <2>2. made' \in Made'
    <3>1. made.calls + 1 \in 0..MaxModelCalls /\ made.asked \cup asked \in SUBSET Names
      BY <1>1, <1>2, <1>4
    <3>2. Names' = Names
      BY <1>2 DEF Names
    <3> QED BY <1>1, <1>2, <3>1, <3>2
  <2>3. feed' \in Page
    <3>1. (feed.is_investigation \/ Announces(asked)) \in BOOLEAN
      OBVIOUS
    <3>2. feed.usages + 1 \in Nat
      BY <1>1
    <3> HIDE DEF Announces
    <3> QED BY <1>1, <1>2, <3>1, <3>2, Zenon
  <2> QED BY <2>1, <2>2, <2>3 DEF Typed
<1>6. Outstanding'
  BY <1>2, <1>3, <1>4 DEF Outstanding
<1>7. Settled'
  BY <1>2 DEF Settled
<1>8. sub = Idle \/ sub.at = "over"
  BY <1>2 DEF StreamInv, Settled, Investigating
<1>9. Counted'
  BY <1>1, <1>2, <1>3, <1>8 DEF StreamInv, Counted, Unpriced, Idle
<1>10. Bounded'
  <2>1. made'.calls > 0 /\ sub'.at = "model"
    BY <1>2, <1>3, <1>4 DEF Idle
  <2>2. feed.deep_usages + StepLimit <= (made.calls + 1) * StepLimit
    <3>1. made.calls * StepLimit \in Nat
          /\ (made.calls + 1) * StepLimit = made.calls * StepLimit + StepLimit
      BY <1>4, Multiples
    <3>2. CASE made.calls = 0
      BY <3>1, <3>2, <1>4 DEF StreamInv, Bounded
    <3>3. CASE made.calls > 0
      <4>1. feed.deep_usages <= made.calls * StepLimit
        BY <3>1, <3>3, <1>4 DEF StreamInv, Bounded, Reserved
      <4> QED BY <3>1, <4>1, <1>4
    <3> QED BY <3>2, <3>3, <1>4
  <2> QED BY <1>3, <2>1, <2>2 DEF Bounded, Reserved
<1>11. Heard'
  BY <1>3 DEF StreamInv, Heard
<1>12. Panelled'
  BY <1>3 DEF StreamInv, Panelled
<1>13. Shown'
  <2>1. answer = NoAnswer
    BY <1>2 DEF StreamInv, Shown
  <2> QED BY <1>2, <2>1 DEF Shown, Show
<1> QED BY <1>5, <1>6, <1>7, <1>9, <1>10, <1>11, <1>12, <1>13 DEF StreamInv

\* A call is answered: only the call itself is no longer outstanding.
LEMMA CallDone ==
  ASSUME StreamInv, NEW name \in calls, NEW outcome, NEW payloads,
         Answered(name, outcome, payloads)
  PROVE  /\ phase = "tools" /\ phase' # "idle" /\ calls' = calls \ {name} /\ answer = NoAnswer
         /\ tools' = tools /\ session' = session /\ Names' = Names
         /\ phase' # "tools" => calls' = {}
         /\ Investigating /\ name # Deep => Investigating'
<1>1. /\ phase = "tools" /\ calls' = calls \ {name} /\ tools' = tools /\ session' = session
      /\ phase' = IF calls = {name} THEN "model" ELSE "tools"
  BY DEF Answered
<1>2. answer = NoAnswer
  BY <1>1 DEF StreamInv, Shown
<1>3. Investigating /\ name # Deep => Investigating'
  BY <1>1 DEF Investigating, Refused, Gated, Vetted, trust_level
<1> QED BY <1>1, <1>2, <1>3 DEF Names

\* A refusal, or a tool there is not: no investigation was under way in it.
LEMMA FailsStep ==
  ASSUME StreamInv, NEW name \in calls, Fails(name)
  PROVE  StreamInv'
<1>1. PICK outcome : Answered(name, outcome, {})
  BY DEF Fails, Refuse, NoSuchTool
<1>2. /\ phase = "tools" /\ phase' # "idle" /\ calls' = calls \ {name} /\ answer = NoAnswer
      /\ tools' = tools /\ Names' = Names
      /\ phase' # "tools" => calls' = {}
      /\ Investigating /\ name # Deep => Investigating'
  BY <1>1, CallDone
<1>3. feed' = feed
  <2>1. feed' = [feed EXCEPT !.results = @ \cup Read(name, {})]
    BY DEF Fails, Hear
  <2>2. feed \in Page
    BY DEF StreamInv, Typed
  <2> QED BY <2>1, <2>2, ReadNone
<1>4. sub' = sub /\ answer' = answer /\ made' = made
  BY DEF Fails, Hear
<1>5. Investigating => name # Deep
  BY DEF Fails, Refuse, NoSuchTool, Investigating
<1>6. (Typed /\ Counted /\ Bounded /\ Heard /\ Panelled /\ Shown)'
  BY <1>2, <1>3, <1>4 DEF StreamInv, Typed, Counted, Unpriced, Bounded, Reserved, Heard, Panelled, Shown
<1>7. Outstanding'
  BY <1>2, <1>4 DEF StreamInv, Outstanding
<1>8. Settled'
  BY <1>2, <1>4, <1>5 DEF StreamInv, Settled
<1> QED BY <1>6, <1>7, <1>8 DEF StreamInv

\* A tool returns: its result is heard with the caveats of its declaration.
LEMMA ReturnsStep ==
  ASSUME StreamInv, TypeOK, Imported, NEW name \in calls, NEW parts \in SUBSET Functions,
         Returns(name, parts)
  PROVE  StreamInv'
<1> DEFINE heard == [tool |-> name, form |-> IF name = Deep THEN "long" ELSE "short",
                     caveats |-> Caveats(Declared[name])]
<1>1. PICK outcome, payloads : Answered(name, outcome, payloads)
  BY DEF Returns, RunTool
<1>2. /\ phase = "tools" /\ phase' # "idle" /\ calls' = calls \ {name} /\ answer = NoAnswer
      /\ tools' = tools /\ Names' = Names
      /\ phase' # "tools" => calls' = {}
      /\ Investigating /\ name # Deep => Investigating'
  BY <1>1, CallDone
<1>3. name \in tools /\ (name = Deep => sub.at = "over")
  BY DEF Returns, RunTool
<1>4. /\ feed' = [feed EXCEPT !.results = @ \cup {heard}]
      /\ heard \in Result
  <2>1. Caveats(Declared[name]) \subseteq DerivedElement
    BY <1>3, ReadOne
  <2>2. name \in Functions
    BY <1>3 DEF TypeOK
  <2> QED BY <1>3, <2>1, <2>2, ReadOne DEF Returns, Hear, Result, Form
<1>5. sub' = sub /\ answer' = answer /\ made' = [made EXCEPT !.ran = @ \cup {name}]
  BY DEF Returns, Hear
<1>6. /\ feed \in Page
      /\ made \in Made
  BY DEF StreamInv, Typed
<1> HIDE DEF heard
<1>7. /\ feed'.results = feed.results \cup {heard} /\ feed'.usages = feed.usages
      /\ feed'.deep_usages = feed.deep_usages /\ feed'.is_investigation = feed.is_investigation
      /\ made'.ran = made.ran \cup {name} /\ made'.asked = made.asked /\ made'.calls = made.calls
      /\ made'.deep = made.deep /\ made'.nested = made.nested
  BY <1>4, <1>5, <1>6
<1>8. Typed'
  <2>1. feed.results \cup {heard} \in SUBSET Result /\ made.ran \cup {name} \in SUBSET tools
    BY <1>3, <1>4, <1>6
  <2>2. feed' \in Page
    BY <1>4, <1>6, <2>1
  <2>3. made' \in Made
    BY <1>5, <1>6, <2>1
  <2> QED BY <1>2, <1>5, <2>2, <2>3 DEF StreamInv, Typed
<1>9. (Counted /\ Bounded)'
  BY <1>5, <1>7 DEF StreamInv, Counted, Unpriced, Bounded, Reserved
<1>10. Outstanding'
  BY <1>2, <1>7 DEF StreamInv, Outstanding
<1>11. Settled'
  BY <1>2, <1>3, <1>5 DEF StreamInv, Settled
<1>12. Heard'
  <2>1. heard.tool = name /\ heard.caveats = Caveats(Declared[name])
        /\ (heard.form = "long" => name = Deep)
    BY DEF heard
  <2> QED BY <1>7, <2>1 DEF StreamInv, Heard
<1>13. Panelled'
  BY <1>7 DEF StreamInv, Panelled, Outstanding
<1>14. Shown'
  BY <1>2, <1>5 DEF Shown
<1> QED BY <1>8, <1>9, <1>10, <1>11, <1>12, <1>13, <1>14 DEF StreamInv

\* A tool that raises ends the turn without an answer.
LEMMA DiesStep ==
  ASSUME StreamInv, NEW name \in calls, Dies(name)
  PROVE  StreamInv'
<1>1. phase = "tools" /\ phase' = "idle" /\ calls' = {} /\ tools' = tools /\ UNCHANGED stream
  BY DEF Dies, ToolRaises
<1>2. answer = NoAnswer
  BY <1>1 DEF StreamInv, Shown
<1>3. (Typed /\ Counted /\ Bounded /\ Heard /\ Panelled)'
  BY <1>1 DEF StreamInv, Typed, Names, Counted, Unpriced, Bounded, Reserved, Heard, Panelled, stream
<1>4. (Outstanding /\ Settled /\ Shown)'
  BY <1>1, <1>2 DEF Outstanding, Settled, Shown, stream
<1> QED BY <1>3, <1>4 DEF StreamInv

-----------------------------------------------------------------------------
(***************************************************************************)
(* The investigation's own loop.                                           *)
(***************************************************************************)

\* A step of the loop that leaves what it spent accounted for keeps the rest.
LEMMA InnerKeeps ==
  ASSUME StreamInv, Investigating, UNCHANGED <<vars, answer>>, sub.at # "over",
         sub' \in Loop,
         feed' \in Page,
         feed'.results = feed.results, feed'.usages = feed.usages,
         feed.is_investigation => feed'.is_investigation,
         feed'.deep_usages <= feed.deep_usages + StepLimit,
         sub'.at # "over" => feed'.deep_usages = feed.deep_usages,
         made' \in Made,
         made'.calls = made.calls, made'.asked = made.asked, made'.ran = made.ran,
         made'.deep = made'.nested + feed'.deep_usages + (IF sub'.at = "over" THEN 0 ELSE sub'.calls)
  PROVE  StreamInv'
<1>1. /\ phase' = phase /\ calls' = calls /\ tools' = tools /\ session' = session
      /\ Names' = Names /\ answer' = answer
  BY DEF vars, Names
<1>2. phase = "tools" /\ Deep \in made.asked /\ made.calls > 0
  BY DEF Investigating, StreamInv, Outstanding
<1>3. Typed'
  BY <1>1 DEF Typed
<1>4. Outstanding'
  BY <1>1 DEF StreamInv, Outstanding
<1>5. Settled'
  BY <1>1 DEF Settled, Investigating, Refused, Gated, Vetted, trust_level
<1>6. Counted'
  BY DEF StreamInv, Counted, Unpriced
<1>7. Bounded'
  <2> DEFINE most == made.calls * StepLimit
  <2>1. most \in Nat /\ StepLimit \in Nat /\ feed.deep_usages \in Nat /\ feed'.deep_usages \in Nat
    BY StreamAssumption, Multiples DEF StreamInv, Typed
  <2>2. feed.deep_usages + StepLimit <= most
    BY <1>2 DEF StreamInv, Bounded, Reserved
  <2>3. made'.calls * StepLimit = most /\ made'.calls > 0
    BY <1>2
  <2> HIDE DEF most
  <2>4. feed'.deep_usages + (IF sub'.at = "over" THEN 0 ELSE StepLimit) <= most
    BY <2>1, <2>2
  <2> QED BY <2>3, <2>4 DEF Bounded, Reserved
<1>8. Heard'
  BY DEF StreamInv, Heard
<1>9. Panelled'
  BY <1>2 DEF StreamInv, Panelled
<1>10. Shown'
  BY <1>1, <1>2 DEF StreamInv, Shown
<1> QED BY <1>3, <1>4, <1>5, <1>6, <1>7, <1>8, <1>9, <1>10 DEF StreamInv

\* Updates of two fields at once.
LEMMA FeedUpdate ==
  ASSUME NEW page \in Page,
         NEW used \in Nat
  PROVE  LET next == [page EXCEPT !.deep_usages = @ + used, !.is_investigation = TRUE]
         IN /\ next \in Page
            /\ next.results = page.results /\ next.usages = page.usages
            /\ next.deep_usages = page.deep_usages + used /\ next.is_investigation = TRUE
<1> DEFINE spent == [page EXCEPT !.deep_usages = @ + used]
           next == [spent EXCEPT !.is_investigation = TRUE]
<1>1. /\ spent \in Page
      /\ spent.results = page.results /\ spent.usages = page.usages
      /\ spent.deep_usages = page.deep_usages + used
  OBVIOUS
<1>2. next = [page EXCEPT !.deep_usages = @ + used, !.is_investigation = TRUE]
  OBVIOUS
<1> HIDE DEF spent
<1>3. /\ next \in Page
      /\ next.results = spent.results /\ next.usages = spent.usages
      /\ next.deep_usages = spent.deep_usages /\ next.is_investigation = TRUE
  BY <1>1
<1> HIDE DEF next
<1> QED BY <1>1, <1>2, <1>3

LEMMA MadeUpdate ==
  ASSUME NEW m \in Made,
         NEW more \in Nat
  PROVE  LET next == [m EXCEPT !.deep = @ + more, !.nested = @ + more]
         IN /\ next \in Made
            /\ next.calls = m.calls /\ next.asked = m.asked /\ next.ran = m.ran
            /\ next.deep = m.deep + more /\ next.nested = m.nested + more
<1> DEFINE spent == [m EXCEPT !.deep = @ + more]
           next == [spent EXCEPT !.nested = @ + more]
<1>1. /\ spent \in Made
      /\ spent.calls = m.calls /\ spent.asked = m.asked /\ spent.ran = m.ran
      /\ spent.deep = m.deep + more /\ spent.nested = m.nested
  OBVIOUS
<1>2. next = [m EXCEPT !.deep = @ + more, !.nested = @ + more]
  BY <1>1
<1> HIDE DEF spent
<1>3. /\ next \in Made
      /\ next.calls = spent.calls /\ next.asked = spent.asked /\ next.ran = spent.ran
      /\ next.deep = spent.deep /\ next.nested = spent.nested + more
  BY <1>1
<1> HIDE DEF next
<1> QED BY <1>1, <1>2, <1>3

LEMMA SubStep ==
  ASSUME StreamInv, SubAsks \/ (\E nested \in 0..1 : SubWorks(nested)) \/ SubConcludes \/ SubTruncated
  PROVE  StreamInv'
<1>1. feed \in Page
  BY DEF StreamInv, Typed
<1>2. made \in Made
  BY DEF StreamInv, Typed
<1>3. sub \in Loop
  BY DEF StreamInv, Typed
<1>4. made.deep = made.nested + feed.deep_usages + Unpriced
  BY DEF StreamInv, Counted
<1>5. StepLimit \in Nat \ {0}
  BY StreamAssumption
<1>6. ASSUME SubAsks PROVE StreamInv'
  <2>1. /\ sub.at = "model" /\ sub.calls < StepLimit /\ Investigating
        /\ UNCHANGED <<vars, answer>>
    BY <1>6 DEF SubAsks, InnerStep
  <2>2. sub' = [at |-> "tools", calls |-> sub.calls + 1]
    BY <1>6 DEF SubAsks, InnerStep
  <2>3. feed' = [feed EXCEPT !.deep_usages = @ + 0, !.is_investigation = TRUE]
    BY <1>6, <2>2 DEF SubAsks, InnerStep
  <2>4. made' = [made EXCEPT !.deep = @ + 1]
    BY <1>6 DEF SubAsks
  <2>5. /\ sub' \in Loop
        /\ sub'.at = "tools" /\ sub'.calls = sub.calls + 1
    BY <1>3, <1>5, <2>1, <2>2
  <2>6. 0 \in Nat
    OBVIOUS
  <2>7. /\ feed' \in Page
        /\ feed'.results = feed.results /\ feed'.usages = feed.usages
        /\ feed'.deep_usages = feed.deep_usages + 0 /\ feed'.is_investigation = TRUE
    BY <1>1, <2>3, <2>6, FeedUpdate, Zenon
  <2>8. /\ feed' \in Page
        /\ feed'.results = feed.results /\ feed'.usages = feed.usages
        /\ feed'.deep_usages = feed.deep_usages
        /\ feed.is_investigation => feed'.is_investigation
    BY <1>1, <2>7
  <2>9. /\ made' \in Made
        /\ made'.calls = made.calls /\ made'.asked = made.asked /\ made'.ran = made.ran
        /\ made'.deep = made.deep + 1 /\ made'.nested = made.nested
    BY <1>2, <2>4
  <2>10. made'.deep = made'.nested + feed'.deep_usages + (IF sub'.at = "over" THEN 0 ELSE sub'.calls)
    BY <1>1, <1>2, <1>3, <1>4, <2>1, <2>5, <2>8, <2>9 DEF Unpriced
  <2>11. feed'.deep_usages <= feed.deep_usages + StepLimit
    BY <1>1, <1>3, <1>5, <2>5, <2>8
  <2> QED BY <2>1, <2>5, <2>8, <2>9, <2>10, <2>11, InnerKeeps
<1>7. ASSUME NEW nested \in 0..1, SubWorks(nested) PROVE StreamInv'
  <2>1. /\ sub.at = "tools" /\ Investigating
        /\ UNCHANGED <<vars, answer>>
    BY <1>7 DEF SubWorks, InnerStep
  <2>2. sub' = [sub EXCEPT !.at = "model"]
    BY <1>7 DEF SubWorks, InnerStep
  <2>3. feed' = [feed EXCEPT !.deep_usages = @ + 0, !.is_investigation = TRUE]
    BY <1>7, <2>2 DEF SubWorks, InnerStep
  <2>4. made' = [made EXCEPT !.deep = @ + nested, !.nested = @ + nested]
    BY <1>7 DEF SubWorks
  <2>5. /\ sub' \in Loop
        /\ sub'.at = "model" /\ sub'.calls = sub.calls
    BY <1>3, <1>5, <2>1, <2>2
  <2>6. 0 \in Nat /\ nested \in Nat
    BY <1>7
  <2>7. /\ feed' \in Page
        /\ feed'.results = feed.results /\ feed'.usages = feed.usages
        /\ feed'.deep_usages = feed.deep_usages + 0 /\ feed'.is_investigation = TRUE
    BY <1>1, <2>3, <2>6, FeedUpdate, Zenon
  <2>8. /\ feed' \in Page
        /\ feed'.results = feed.results /\ feed'.usages = feed.usages
        /\ feed'.deep_usages = feed.deep_usages
        /\ feed.is_investigation => feed'.is_investigation
    BY <1>1, <2>7
  <2>9. /\ made' \in Made
        /\ made'.calls = made.calls /\ made'.asked = made.asked /\ made'.ran = made.ran
        /\ made'.deep = made.deep + nested /\ made'.nested = made.nested + nested
    BY <1>2, <2>4, <2>6, MadeUpdate, Zenon
  <2>10. made'.deep = made'.nested + feed'.deep_usages + (IF sub'.at = "over" THEN 0 ELSE sub'.calls)
    BY <1>1, <1>2, <1>3, <1>4, <2>1, <2>5, <2>8, <2>9 DEF Unpriced
  <2>11. feed'.deep_usages <= feed.deep_usages + StepLimit
    BY <1>1, <1>3, <1>5, <2>5, <2>8
  <2> QED BY <2>1, <2>5, <2>8, <2>9, <2>10, <2>11, InnerKeeps
<1>8. ASSUME SubConcludes PROVE StreamInv'
  <2>1. /\ sub.at = "model" /\ sub.calls < StepLimit /\ Investigating
        /\ UNCHANGED <<vars, answer>>
    BY <1>8 DEF SubConcludes, InnerStep
  <2>2. sub' = [at |-> "over", calls |-> sub.calls + 1]
    BY <1>8 DEF SubConcludes, InnerStep
  <2>3. feed' = [feed EXCEPT !.deep_usages = @ + sub'.calls]
    BY <1>8, <2>2 DEF SubConcludes, InnerStep, _emit_usage
  <2>4. made' = [made EXCEPT !.deep = @ + 1]
    BY <1>8 DEF SubConcludes
  <2>5. /\ sub' \in Loop
        /\ sub'.at = "over" /\ sub'.calls = sub.calls + 1
    BY <1>3, <1>5, <2>1, <2>2
  <2>6. sub'.calls \in Nat
    BY <1>3, <1>5, <2>5
  <2>7. /\ feed' \in Page
        /\ feed'.results = feed.results /\ feed'.usages = feed.usages
        /\ feed'.deep_usages = feed.deep_usages + sub'.calls
        /\ feed.is_investigation => feed'.is_investigation
    BY <1>1, <2>6, <2>3
  <2>8. /\ made' \in Made
        /\ made'.calls = made.calls /\ made'.asked = made.asked /\ made'.ran = made.ran
        /\ made'.deep = made.deep + 1 /\ made'.nested = made.nested
    BY <1>2, <2>4
  <2>9. made'.deep = made'.nested + feed'.deep_usages + (IF sub'.at = "over" THEN 0 ELSE sub'.calls)
    BY <1>1, <1>2, <1>3, <1>4, <2>1, <2>5, <2>7, <2>8 DEF Unpriced
  <2>10. feed'.deep_usages <= feed.deep_usages + StepLimit
    BY <1>1, <1>3, <1>5, <2>5, <2>7
  <2> QED BY <2>1, <2>5, <2>7, <2>8, <2>9, <2>10, InnerKeeps
<1>9. ASSUME SubTruncated PROVE StreamInv'
  <2>1. /\ sub.at # "over" /\ sub.calls = StepLimit /\ Investigating
        /\ UNCHANGED <<vars, answer>>
    BY <1>9 DEF SubTruncated, InnerStep
  <2>2. sub' = [sub EXCEPT !.at = "over"]
    BY <1>9 DEF SubTruncated, InnerStep
  <2>3. feed' = [feed EXCEPT !.deep_usages = @ + sub.calls, !.is_investigation = TRUE]
    BY <1>9, <2>2 DEF SubTruncated, InnerStep, BestEffort, _emit_usage
  <2>4. made' = made
    BY <1>9 DEF SubTruncated
  <2>5. /\ sub' \in Loop
        /\ sub'.at = "over"
    BY <1>3, <1>5, <2>1, <2>2
  <2>6. sub.calls \in Nat
    BY <1>3, <1>5, <2>5
  <2>7. /\ feed' \in Page
        /\ feed'.results = feed.results /\ feed'.usages = feed.usages
        /\ feed'.deep_usages = feed.deep_usages + sub.calls /\ feed'.is_investigation = TRUE
    BY <1>1, <2>3, <2>6, FeedUpdate, Zenon
  <2>8. /\ feed' \in Page
        /\ feed'.results = feed.results /\ feed'.usages = feed.usages
        /\ feed'.deep_usages = feed.deep_usages + sub.calls
        /\ feed.is_investigation => feed'.is_investigation
    BY <1>1, <2>7
  <2>9. /\ made' \in Made
        /\ made'.calls = made.calls /\ made'.asked = made.asked /\ made'.ran = made.ran
        /\ made'.deep = made.deep /\ made'.nested = made.nested
    BY <1>2, <2>4
  <2>10. made'.deep = made'.nested + feed'.deep_usages + (IF sub'.at = "over" THEN 0 ELSE sub'.calls)
    BY <1>1, <1>2, <1>3, <1>4, <2>1, <2>5, <2>8, <2>9 DEF Unpriced
  <2>11. feed'.deep_usages <= feed.deep_usages + StepLimit
    BY <1>1, <1>3, <1>5, <2>5, <2>8
  <2> QED BY <2>1, <2>5, <2>8, <2>9, <2>10, <2>11, InnerKeeps
<1> QED BY <1>6, <1>7, <1>8, <1>9

-----------------------------------------------------------------------------
LEMMA StreamStep ==
  StreamInv /\ TypeOK /\ Imported /\ [StreamNext]_<<vars, stream>> => StreamInv'
<1> SUFFICES ASSUME StreamInv, TypeOK, Imported, [StreamNext]_<<vars, stream>> PROVE StreamInv'
  OBVIOUS
<1>1. ASSUME NEW run \in Session, Begin(run) PROVE StreamInv'
  BY <1>1, BeginStep
<1>2. ASSUME NEW asked \in SUBSET Names, Speak(asked) PROVE StreamInv'
  BY <1>2, SpeakStep
<1>3. ASSUME NEW name \in calls, Fails(name) PROVE StreamInv'
  BY <1>3, FailsStep
<1>4. ASSUME NEW name \in calls, NEW parts \in SUBSET Functions, Returns(name, parts) PROVE StreamInv'
  BY <1>4, ReturnsStep
<1>5. ASSUME NEW name \in calls, Dies(name) PROVE StreamInv'
  BY <1>5, DiesStep
<1>6. ASSUME SubAsks \/ (\E nested \in 0..1 : SubWorks(nested)) \/ SubConcludes \/ SubTruncated
      PROVE  StreamInv'
  BY <1>6, SubStep
<1>7. CASE UNCHANGED <<vars, stream>>
  BY <1>7 DEF vars, stream, StreamInv, Typed, Names, Outstanding, Settled, Investigating, Refused,
       Gated, Vetted, trust_level, Counted, Unpriced, Bounded, Reserved, Heard, Panelled, Shown, Show
<1> QED BY <1>1, <1>2, <1>3, <1>4, <1>5, <1>6, <1>7 DEF StreamNext

LEMMA StreamInvariant == StreamSpec => [](StreamInv /\ TypeOK /\ Imported)
<1>1. StreamInit => StreamInv
  BY InitStream
<1>2. StreamInv /\ TypeOK /\ Imported /\ [StreamNext]_<<vars, stream>> => StreamInv'
  BY StreamStep
<1> QED BY <1>1, <1>2, StreamImplementsTurn, TypeCorrect, PTL DEF StreamSpec

\* What was read is of tools there are, and an investigation spends at most its
\* step limit for each model message that may have called it.
THEOREM StreamTypes == StreamSpec => []StreamTypeOK
<1>1. ASSUME StreamInv, TypeOK PROVE StreamTypeOK
  <2>1. /\ feed \in Page
        /\ sub \in Loop
        /\ made \in Made
        /\ MaxModelCalls \in Nat /\ StepLimit \in Nat
    BY <1>1, StreamAssumption DEF StreamInv, Typed
  <2>2. feed.results \subseteq [tool : tools, form : Form, caveats : SUBSET DerivedElement]
    <3>1. ASSUME NEW r \in feed.results PROVE r \in Result /\ r.tool \in tools
      BY <1>1, <2>1 DEF StreamInv, Heard
    <3> QED BY <3>1 DEF Result
  <2>3. feed.usages \in 0..MaxModelCalls
    BY <1>1, <2>1 DEF StreamInv, Counted
  <2>4. feed.deep_usages \in 0..(MaxModelCalls * StepLimit)
    <3>1. /\ made.calls \in Nat /\ made.calls <= MaxModelCalls
          /\ made.calls * StepLimit \in Nat /\ MaxModelCalls * StepLimit \in Nat
      BY <2>1, Multiples
    <3>2. made.calls * StepLimit <= MaxModelCalls * StepLimit
      BY <2>1, <3>1
    <3>3. CASE made.calls = 0
      BY <1>1, <2>1, <3>1, <3>3 DEF StreamInv, Bounded
    <3>4. CASE made.calls > 0
      <4>1. feed.deep_usages <= made.calls * StepLimit
        BY <1>1, <2>1, <3>1, <3>4 DEF StreamInv, Bounded, Reserved
      <4> QED BY <2>1, <3>1, <3>2, <4>1
    <3> QED BY <3>1, <3>3, <3>4
  <2>5. answer.shown \in BOOLEAN /\ (answer.shown => answer.evidence \subseteq DerivedElement \X Form)
    <3>1. CASE answer = NoAnswer
      BY <3>1 DEF NoAnswer
    <3>2. CASE answer = Show(feed)
      <4>1. \A r \in feed.results : r.form \in Form /\ r.caveats \subseteq DerivedElement
        BY <2>1 DEF Result
      <4>2. extract_evidence(feed.results) \subseteq DerivedElement \X Form
        BY <4>1 DEF extract_evidence
      <4> QED BY <3>2, <4>2 DEF Show
    <3> QED BY <1>1, <3>1, <3>2 DEF StreamInv, Shown
  <2> QED BY <1>1, <2>1, <2>2, <2>3, <2>4, <2>5 DEF StreamTypeOK
<1> QED BY <1>1, StreamInvariant, PTL

\* The evidence of an answer covers what the tools of its turn declare, and
\* holds nothing of another turn.
THEOREM EvidenceOfThisTurn == StreamSpec => []EvidenceIsTheTurns
<1>1. ASSUME StreamInv, Imported PROVE EvidenceIsTheTurns
  <2> SUFFICES ASSUME answer.shown
               PROVE  /\ \A f \in made.ran : \A e \in Declared[f].touches \cap TYPE_II_ELEMENTS :
                           \E c \in answer.evidence : c[1] = CaveatOf(e)
                      /\ \A c \in answer.evidence : \E f \in made.ran :
                           c[1] \in Caveats(Declared[f]) /\ (c[2] = "long" => f = Deep)
    BY DEF EvidenceIsTheTurns
  <2>1. answer.evidence = UNION {{<<c, r.form>> : c \in r.caveats} : r \in feed.results}
    BY <1>1 DEF StreamInv, Shown, NoAnswer, Show, extract_evidence
  <2>2. ASSUME NEW f \in made.ran, NEW e \in Declared[f].touches \cap TYPE_II_ELEMENTS
        PROVE  \E c \in answer.evidence : c[1] = CaveatOf(e)
    <3>1. PICK r \in feed.results : r.tool = f
      BY <1>1 DEF StreamInv, Heard
    <3>2. f \in tools
      BY <1>1 DEF StreamInv, Typed
    <3>3. CaveatOf(e) \in r.caveats
      BY <1>1, <3>1, <3>2, CaveatsOfImported DEF StreamInv, Heard, Imported
    <3>4. <<CaveatOf(e), r.form>> \in answer.evidence
      BY <2>1, <3>1, <3>3
    <3> QED BY <3>4
  <2>3. ASSUME NEW c \in answer.evidence
        PROVE  \E f \in made.ran : c[1] \in Caveats(Declared[f]) /\ (c[2] = "long" => f = Deep)
    <3>1. PICK r \in feed.results : \E x \in r.caveats : c = <<x, r.form>>
      BY <2>1
    <3>2. r.tool \in made.ran /\ r.caveats = Caveats(Declared[r.tool]) /\ (r.form = "long" => r.tool = Deep)
      BY <1>1, <3>1 DEF StreamInv, Heard
    <3>3. c[1] \in r.caveats /\ c[2] = r.form
      BY <3>1
    <3> QED BY <3>2, <3>3
  <2> QED BY <2>2, <2>3
<1> QED BY <1>1, StreamInvariant, PTL

\* Every model call of the turn and of its investigations' own loops is in the
\* cost of the answer once, whatever ended them.
THEOREM CostIsComplete == StreamSpec => []EveryCallPriced
<1>1. ASSUME StreamInv PROVE EveryCallPriced
  <2> SUFFICES ASSUME answer.shown
               PROVE  answer.usages = made.calls /\ answer.deep_usages = made.deep - made.nested
    BY DEF EveryCallPriced
  <2>1. sub = Idle /\ answer = Show(feed)
    BY <1>1 DEF StreamInv, Shown, NoAnswer
  <2>2. made.deep \in Nat /\ made.nested \in Nat /\ feed.deep_usages \in Nat
    BY <1>1 DEF StreamInv, Typed
  <2>3. made.deep = made.nested + feed.deep_usages /\ feed.usages = made.calls
    BY <1>1, <2>1, <2>2 DEF StreamInv, Counted, Unpriced, Idle
  <2> QED BY <2>1, <2>2, <2>3 DEF Show
<1> QED BY <1>1, StreamInvariant, PTL

\* An investigation that returned has its panel, one never called has none.
THEOREM PanelOfInvestigation == StreamSpec => []InvestigationHasPanel
<1>1. StreamInv => InvestigationHasPanel
  BY DEF StreamInv, Panelled, Shown, NoAnswer, Show, InvestigationHasPanel
<1> QED BY <1>1, StreamInvariant, PTL

=============================================================================
